SPECIFICATION RelaySpec
CONSTANTS
    o1 = o1
    o2 = o2
    j1 = j1
    j2 = j2
    p1 = p1
    p2 = p2
    Calls = {c1, c2, c3}
    Bodies <- MCBodies
    TriggerReplies = {"ok", "silent", "permanent"}
    MaxAttempts = 2
    MaxRestarts = 1
    Operations = {"write_blob", "fetch_blob", "check_duplicate", "check_daily_limit",
                  "register_blob", "fetch_config", "get_transforma_config",
                  "audit_log", "report_metrics", "health_check"}
    Requests = {q1, q2}
    Flight = 1
    UserTokens = {j1, j2}
    NoJti = {}
    TokenTTL = 2
    CacheSize = 1
    MaxNow = 4
    Kids = {"k1", "k2"}
    FirstKeys = {"k1"}
    KeysTTL = 1
    KeysMaxNow = 4
    Uploads = {u1, u2, u3}
    Relays = {p1, p2}
    Sizes = {1, 2}
    Limit = 3
    Days = 2
    Releases <- MCReleases
    Broken = {"b2"}
    Fetches = {e1, e2}
    Nothing = Nothing
    Routes = {"ingest", "finalize", "status", "duplicate", "artifact", "webhook", "internal"}
    Credentials <- MCCredentials
    KeysKnown = FALSE
    ServiceTokens = TRUE
    Batches = {"b1", "b2"}
    Queued = {"b1"}
    Lists <- MCLists
    Contents = {"x", "y"}
    Tenants = {o1, o2}
    MaxCrashes = 1
SYMMETRY MCSymmetry
INVARIANTS TypesOK DuplicatesStopHere OnlySilenceIsAmbiguous CachesKeepUp QuotaNotOverdrawn TransactionStoredOnce AnswersStand
CHECK_DEADLOCK FALSE
