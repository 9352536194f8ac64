SPECIFICATION Spec
CONSTANTS
    ask = ask  over = over  copy = copy  ftp = ftp  c1 = c1  c2 = c2
    Requests = {over, ftp}
    NoRequest = NoRequest
    Conns = {c1, c2}
    Ends <- EndsOf
    Ftp = {ftp}
    Asks = {}
    PoolSize = 1
    MaxActive = 2
    MaxRetained = 1
    MaxTransfers = 3
    MaxFiles = 1
    MaxLosses = 0
    MaxRefusals = 0
    MaxRestarts = 1
INVARIANTS NoOrphans RetryHonest KeyRunsOnce
CHECK_DEADLOCK FALSE
