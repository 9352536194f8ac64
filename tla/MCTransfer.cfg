SPECIFICATION FairSpec
CONSTANTS
    ask = ask  over = over  copy = copy  ftp = ftp  c1 = c1  c2 = c2
    Requests = {ask, copy, ftp}
    NoRequest = NoRequest
    Conns = {c1, c2}
    Ends <- EndsOf
    Ftp = {ftp}
    Asks = {ask}
    PoolSize = 3
    MaxActive = 1
    MaxRetained = 1
    MaxTransfers = 1
    MaxFiles = 3
    MaxLosses = 1
    MaxRefusals = 3
    MaxRestarts = 1
INVARIANTS TypeOK ResourcesOwned SucceededComplete FirstCauseWins StateHonest PartsCleaned
PROPERTIES Terminates
CHECK_DEADLOCK FALSE
