CONSTANTS
    Workers = {w1, w2}
    Nobody = Nobody
    Invoices = {i1}
    Wallets = {s1}
    Keys = {k1}
    NoKey = NoKey
    NoInvoice = NoInvoice
    Amounts = {1, 2}
    InvoiceTotal = 2
    MaxEntries = 3
SPECIFICATION Spec
SYMMETRY Symmetry
INVARIANT JournalMatchesDocuments
