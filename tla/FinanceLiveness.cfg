CONSTANTS
    Workers = {w1, w2}
    Nobody = Nobody
    Invoices = {i1}
    Wallets = {s1}
    Keys = {}
    NoKey = NoKey
    NoInvoice = NoInvoice
    Amounts = {1}
    InvoiceTotal = 1
    MaxEntries = 3
SPECIFICATION FairSpec
PROPERTY RequestsFinish
