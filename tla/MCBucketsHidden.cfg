SPECIFICATION Spec
CONSTANTS
    Clients = {deleter, writer, lister}
    deleter = deleter
    writer = writer
    lister = lister
    K = 3
    ListMax = 3
    Hidden = {1}
    Dir <- MCDir
    Extensions <- MCExtensions
    Requests <- MCRequests
    MaxRequests <- MCMaxRequests
    MaxKeyRange = 2
PROPERTY DeletesOnlyNew
CHECK_DEADLOCK FALSE
