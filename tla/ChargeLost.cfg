CONSTANTS
    Sessions = {s1, s2}
    Refunds = {r1, r2}
    Invoices = {i1}
    NoInvoice = NoInvoice
    Amounts = {1}
    InvoiceTotal = 1
    Handlers = {h1, h2}
    SystemUser = TRUE
    CsrfExempt = TRUE
    MaxDesk = 1
SPECIFICATION FairSpec
PROPERTY ChargeIsRecorded
CHECK_DEADLOCK FALSE
