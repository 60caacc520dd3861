SPECIFICATION CoreSpec
CONSTANTS
    Calls = {r1, r2}
    Submissions <- MCSubmissions
    Directions = {"OUTBOUND", "INBOUND"}
    ServiceIds = {"s1", "s2"}
    Shown <- MCShown
    IrnOf <- MCIrnOf
    NoIrn = "none"
    MaxCrashes = 1
    Requests = {r1, r2}
    Editors = {r1, r2, e3}
    EntityFields = {"name", "note"}
    Values = {"a", "b"}
    Bodies <- MCBodies
    Window = 1
    MaxHour = 2
    NotDeleted = NotDeleted
    Files <- MCFiles
    Names <- MCNames
    Alike <- MCAlike
    SuffixRatio = 67
    Customers = {"c1", "c2"}
    KeysOf <- MCKeysOf
    Aliases <- MCAliases
    Buyers <- MCBuyers
    MaxWrites = 2
    StockItems = {"p1", "p2"}
    ProductKeysOf <- MCProductKeysOf
    ProductAliases <- MCProductAliases
    Lines <- MCLines
    MaxProductWrites = 1
    Uploads <- MCUploads
    Slots = 2
    FailureThreshold = 2
    SuccessThreshold = 2
    RecoveryTime = 1
    InvoiceIds = {1}
    InvoiceRows <- MCInvoiceRows
    ProductTypes = {"GOODS"}
    Companies = {"o1"}
    Questions <- MCQuestions
    AtFirst <- MCAtFirst
    Flight = 1
    DayLength = 2
    MaxReading = 4
    Downloads = {"d"}
    Types = {"compliance", "audit_trail"}
    Answered = {"compliance"}
    Retention = 0
    BatchSize = 1
    TTL = 1
    MaxEnriching = 1
    MaxUpkeep = 1

INVARIANTS TypesOK SourceDataSacred ToldIsTrue PreviewBacked RecoveryPromiseKept MatchedOnMerit NearNamesFound EnrichedInPlace ReportsHold
PROPERTY EditsLeaveTraces
CHECK_DEADLOCK FALSE
SYMMETRY CoreSymmetry
