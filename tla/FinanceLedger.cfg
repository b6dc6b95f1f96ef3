CONSTANTS
    Workers = {w1, w2}
    Nobody = Nobody
    Invoices = {i1}
    Wallets = {s1}
    Keys = {k1}
    NoKey = NoKey
    NoInvoice = NoInvoice
    Amounts <- SomeAmounts
    InvoiceTotal = 2
    MaxEntries = 3
SPECIFICATION Spec
SYMMETRY Symmetry
INVARIANTS
    TypeOK
    NumbersGapless
    NeverOverpaid
    InvoiceBooksBalance
    KeyPaysOnce
    WalletBooksBalance
    DocumentsHaveEntries
    MarksPointAtReversals
    NoCircularWait
    RetryBudgetSuffices
    AtomicOnceOpened
    OneLateEntryPerRequest
    OutboxIsCommitted
PROPERTY ImplementsLedger
