SPECIFICATION LiveSpec
CONSTANTS
    Clients = {deleter, writer, lister}
    deleter = deleter
    writer = writer
    lister = lister
    K = 3
    ListMax = 3
    Hidden = {}
    Dir <- MCDir
    Extensions <- MCExtensions
    Requests <- MCRequests
    MaxRequests <- MCMaxRequests
    MaxKeyRange = 2
INVARIANTS TypeOK ListingComplete
PROPERTIES DeletesOnlyNew RequestsFinish
CHECK_DEADLOCK FALSE
