CONSTANTS
    Sessions = {s1}
    Refunds = {r1, r2}
    Invoices = {i1}
    NoInvoice = NoInvoice
    Amounts <- SomeAmounts
    InvoiceTotal = 1
    Handlers = {h1, h2}
    SystemUser = TRUE
    CsrfExempt = TRUE
    MaxDesk = 1
SYMMETRY Symmetry
SPECIFICATION Spec
INVARIANTS
    TypeOK
    SecondPaymentOnlyFromLostLock
    CompletedIsPaid
    ReceiptFollowsRefund
    SecondRefundOnlyFromLostLock
    InvoiceBooksBalance
CHECK_DEADLOCK FALSE
