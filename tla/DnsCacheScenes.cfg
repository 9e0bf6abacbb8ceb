SPECIFICATION MCSpec
CONSTANTS
    IPs = {home, mobile}
    home = home
    mobile = mobile
    Domains = {game, doh}
    game = game
    DohDomains = {doh}
    StrictMode = TRUE
    Null = Null
    Readers = {r1}
    Writers = {w1, w2}
    w1 = w1
    w2 = w2
    Kinds = {"unlock", "unblock", "lock", "block"}
    SilentKinds = {"bedtime", "gateway", "session", "domain", "category", "address"}
    MaxEpoch = 2
INVARIANTS TypeOK BumpOrphansStale LockTakesEffect InvalidationComplete
PROPERTIES StalenessEnds
