--------------------------- MODULE CoreServices ----------------------------
(***************************************************************************)
(* The components of Core around its queue, side by side.  As modelled     *)
(* they share no state: what one leaves for another (a preview, a table, a *)
(* blob) is an input of that one in its own module.  So their              *)
(* interleavings add nothing, and each behaviour here runs one component,  *)
(* the one in focus, while the variables of the others are not used.       *)
(***************************************************************************)
EXTENDS Finalize

CONSTANTS
    Requests,                              \* calls of the components but Finalize and Entities
    Files,                                 \* Orchestrator
    Names, Alike, SuffixRatio,             \* Resolving, of customers
    Customers, KeysOf, Aliases, Buyers, MaxWrites,
    StockItems, ProductKeysOf, ProductAliases, Lines, MaxProductWrites,   \* and of products
    Editors, EntityFields, Values, Bodies, Window, MaxHour, NotDeleted, \* Entities
    Uploads, Slots, FailureThreshold, SuccessThreshold, RecoveryTime, MaxEnriching,  \* Enrichment
    InvoiceIds, InvoiceRows, ProductTypes, Companies, Questions, AtFirst,   \* Statistics
    Flight, DayLength, MaxReading,
    Downloads, Types, Answered,            \* Reports
    Retention, BatchSize, MaxUpkeep,       \* LedgerUpkeep
    TTL                                    \* of the caches of Statistics and LedgerUpkeep

VARIABLES
    focus,
    file, row, clock, run, previews, updates, blobStatus, deaths,
    table, known, aliases, buyers, next, resolved, resolving, writes,
    record, history, editing, lock, published, hour,
    invoices, out, step, flying, flagged, breaker, time,
    past, cache, reading,
    type, report, task, files, notified, events, old, download, mark, reads, lost,
    tick, write, number, stamp, committedAt, gone, wrongly, held, poll, prune

-----------------------------------------------------------------------------
(* The instances.                                                          *)

Previewing == INSTANCE Orchestrator WITH MaxDeaths <- MaxCrashes

Buying == INSTANCE Resolving WITH Batches <- Buyers, at <- resolving

Stocking == INSTANCE Resolving WITH
    Customers <- StockItems, KeysOf <- ProductKeysOf, Aliases <- ProductAliases,
    Batches <- Lines, MaxWrites <- MaxProductWrites, at <- resolving

Editing == INSTANCE Entities WITH
    Requests <- Editors, Fields <- EntityFields, request <- editing

Enriching == INSTANCE Enrichment WITH Files <- Uploads, MaxTime <- MaxEnriching

Figures == INSTANCE Statistics WITH
    Invoices <- InvoiceIds, Rows <- InvoiceRows, MaxTime <- MaxReading, request <- reading

Reporting == INSTANCE Reports WITH
    Asked <- Requests, Marks <- Requests, row <- report, crashes <- lost

Upkeep == INSTANCE LedgerUpkeep WITH
    Writes <- Requests, Polls <- Requests, MaxTime <- MaxUpkeep, time <- tick, since <- committedAt

\* What the proofs assume of the constants.
ASSUME CoreConstants ==
    /\ LegalConstants /\ Buying!LegalConstants /\ Stocking!LegalConstants
    /\ Editing!LegalConstants /\ Enriching!LegalConstants
    /\ Figures!LegalConstants /\ Upkeep!LegalConstants

-----------------------------------------------------------------------------
Components == {"finalize", "preview", "customers", "products", "entities", "enrich", "figures", "reports", "ledger"}

\* The value of a variable whose component is not in focus.
Unused == "unused"

CoreInit ==
    /\ focus \in Components
    /\ Init
    /\ Editing!Init
    /\ focus # "finalize" => edgeClient
    /\ focus # "entities" => record.fields = [x \in EntityFields |-> CHOOSE v \in Values : TRUE]
    /\ IF focus = "preview" THEN Previewing!Init ELSE
            /\ file = Unused /\ row = Unused /\ clock = Unused /\ run = Unused /\ previews = Unused
            /\ updates = Unused /\ blobStatus = Unused /\ deaths = Unused
    /\ CASE focus = "customers" -> Buying!Init
         [] focus = "products"  -> Stocking!Init
         [] OTHER ->
            /\ table = Unused /\ known = Unused /\ aliases = Unused /\ buyers = Unused
            /\ next = Unused /\ resolved = Unused /\ resolving = Unused /\ writes = Unused
    /\ IF focus = "enrich" THEN Enriching!Init ELSE
            /\ invoices = Unused /\ out = Unused /\ step = Unused /\ flying = Unused
            /\ flagged = Unused /\ breaker = Unused /\ time = Unused
    /\ IF focus = "figures" THEN Figures!Init ELSE
            /\ past = Unused /\ cache = Unused /\ reading = Unused
    /\ IF focus = "reports" THEN Reporting!Init ELSE
            /\ type = Unused /\ report = Unused /\ task = Unused /\ files = Unused
            /\ notified = Unused /\ events = Unused /\ old = Unused /\ download = Unused
            /\ mark = Unused /\ reads = Unused /\ lost = Unused
    /\ IF focus = "ledger" THEN Upkeep!Init ELSE
            /\ tick = Unused /\ write = Unused /\ number = Unused /\ stamp = Unused
            /\ committedAt = Unused /\ gone = Unused /\ wrongly = Unused /\ held = Unused
            /\ poll = Unused /\ prune = Unused

previewVars == <<file, row, clock, run, previews, updates, blobStatus, deaths>>
resolveVars == <<table, known, aliases, buyers, next, resolved, resolving, writes>>
entityVars  == <<record, history, editing, lock, published, hour>>
enrichVars  == <<invoices, out, step, flying, flagged, breaker, time>>
figureVars  == <<past, cache, reading>>
reportVars  == <<type, report, task, files, notified, events, old, download, mark, reads, lost>>
upkeepVars  == <<tick, write, number, stamp, committedAt, gone, wrongly, held, poll, prune>>

\* One action per component; the others keep still.
FinalizeStep ==
    /\ focus = "finalize" /\ Next
    /\ UNCHANGED <<previewVars, resolveVars, entityVars, enrichVars, figureVars, reportVars, upkeepVars>>
PreviewStep ==
    /\ focus = "preview" /\ Previewing!Next
    /\ UNCHANGED <<vars, resolveVars, entityVars, enrichVars, figureVars, reportVars, upkeepVars>>
ResolveStep ==
    /\ focus = "customers" /\ Buying!Next
    /\ UNCHANGED <<vars, previewVars, entityVars, enrichVars, figureVars, reportVars, upkeepVars>>
MatchStep ==
    /\ focus = "products" /\ Stocking!Next
    /\ UNCHANGED <<vars, previewVars, entityVars, enrichVars, figureVars, reportVars, upkeepVars>>
EditStep ==
    /\ focus = "entities" /\ Editing!Next
    /\ UNCHANGED <<vars, previewVars, resolveVars, enrichVars, figureVars, reportVars, upkeepVars>>
EnrichStep ==
    /\ focus = "enrich" /\ Enriching!Next
    /\ UNCHANGED <<vars, previewVars, resolveVars, entityVars, figureVars, reportVars, upkeepVars>>
CountStep ==
    /\ focus = "figures" /\ Figures!Next
    /\ UNCHANGED <<vars, previewVars, resolveVars, entityVars, enrichVars, reportVars, upkeepVars>>
ReportStep ==
    /\ focus = "reports" /\ Reporting!Next
    /\ UNCHANGED <<vars, previewVars, resolveVars, entityVars, enrichVars, figureVars, upkeepVars>>
UpkeepStep ==
    /\ focus = "ledger" /\ Upkeep!Next
    /\ UNCHANGED <<vars, previewVars, resolveVars, entityVars, enrichVars, figureVars, reportVars>>

CoreNext ==
    /\ \/ FinalizeStep \/ PreviewStep \/ ResolveStep \/ MatchStep \/ EditStep
       \/ EnrichStep \/ CountStep \/ ReportStep \/ UpkeepStep
    /\ UNCHANGED focus

coreVars == <<focus, vars, previewVars, resolveVars, entityVars, enrichVars, figureVars,
              reportVars, upkeepVars>>

CoreSpec == CoreInit /\ [][CoreNext]_coreVars

-----------------------------------------------------------------------------
(* What is checked, by its name in the component's module.                 *)

\* Every component keeps its types: each status, answer and flag is one that
\* its code knows.
TypesOK ==
    /\ focus = "finalize"  => TypeOK
    /\ focus = "preview"   => Previewing!TypeOK
    /\ focus = "customers" => Buying!TypeOK
    /\ focus = "products"  => Stocking!TypeOK
    /\ focus = "entities"  => Editing!TypeOK
    /\ focus = "enrich"    => Enriching!TypeOK
    /\ focus = "figures"   => Figures!TypeOK
    /\ focus = "reports"   => Reporting!TypeOK
    /\ focus = "ledger"    => Upkeep!TypeOK

\* Who promises a preview has one (PipelineOrchestrator).
PreviewBacked == focus = "preview" => Previewing!PreviewBacked
\* Edits and their history come together (update_entity).
EditsLeaveTraces == Editing!EditsLeaveTraces
\* Deleted records can be recovered as long as was said (cleanup_deleted).
RecoveryPromiseKept == Editing!RecoveryPromiseKept
\* Customers and products are chosen for what they are (Resolver).
MatchedOnMerit ==
    /\ focus = "customers" => Buying!MatchedOnMerit
    /\ focus = "products"  => Stocking!MatchedOnMerit
\* Nobody near is made anew, variants of deleted customers or not (Resolver).
NearNamesFound ==
    /\ focus = "customers" => Buying!NearNamesFound
    /\ focus = "products"  => Stocking!NearNamesFound
\* Enrichment adds and loses nothing silently (Enricher, CircuitBreaker).
EnrichedInPlace == focus = "enrich" => Enriching!EnrichedInPlace
\* Figures were true, announcements stay true, watermarks cover the ledger
\* (StatisticsCache, reports/service.py, EventLedger).
ReportsHold ==
    /\ focus = "figures" => Figures!FiguresWereTrue
    /\ focus = "reports" => Reporting!AnnouncementsStand
    /\ focus = "ledger"  => Upkeep!WatermarkCovers
=============================================================================
