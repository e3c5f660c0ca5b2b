---------------------------- MODULE Stocktaking -----------------------------
(***************************************************************************)
(* The count of an import with a check (ProductsService): what the file    *)
(* promises is scanned piece by piece, and the import comes in when        *)
(* somebody accepts the count.                                             *)
(*                                                                         *)
(* A count is an object in the memory of the server, found by the id the   *)
(* import keeps; counting anew puts another object there, under an id of   *)
(* its own after the file was checked anew, and a restart forgets it.  A   *)
(* scan and an acceptance find their object before an await and use it     *)
(* after it.  Of the import only what an acceptance reads and writes is    *)
(* here: a running commit shows as a request with the lock, and the steps  *)
(* of a rollback and of the rows of the table are in ProductImports.       *)
(*                                                                         *)
(* History: `told`, the units clerks were told they have scanned since the *)
(* count was made; `overtaken`, it was made anew while a request held the  *)
(* old object; commits and rollbacks of the import, `unrecorded` commits   *)
(* of which the import knows nothing, and `putBack`: a finished import was *)
(* cancelled or checked anew.                                              *)
(***************************************************************************)
EXTENDS Totals

CONSTANTS
    ImportItem, Scanner, Object, NoObject,
    Expected,        \* what the file says there is of each item
    MaxScans,        \* bound: scans, by all clerks
    MaxCounts,       \* bound: counts made of the import
    MaxCommits       \* bound

ASSUME StocktakingAssumption ==
    /\ IsFiniteSet(ImportItem) /\ ImportItem # {} /\ NoObject \notin Object
    /\ Expected \in [ImportItem -> Nat \ {0}]
    /\ {MaxScans, MaxCounts, MaxCommits} \subseteq Nat

VARIABLES
    counts,          \* the stocktaking objects: [scanned, accepted]
    counting,        \* STOCKTAKING_SESSIONS: the object under the id, or none
    earlier,         \* those under ids the import had before
    import,          \* ImportSession
    scanner,         \* requests between two awaits
    told, overtaken, scans, made, commits, rollbacks, unrecorded, putBack

scanHistory == <<told, overtaken, scans, made>>
importHistory == <<commits, rollbacks, unrecorded, putBack>>
stocktakingVars ==
    <<counts, counting, earlier, import, scanner, scanHistory, importHistory>>

Units == -MaxScans .. MaxScans
CountState == [scanned : [ImportItem -> Units], accepted : BOOLEAN]
NothingScanned == [i \in ImportItem |-> 0]
NewCount == [scanned |-> NothingScanned, accepted |-> FALSE]

(* `numbered`: stocktakingId is set; `saved`: the row says it is completed.
   "review" is every status in which it may be committed for the first time. *)
Imports == [status : {"review", "completed", "rolled_back", "cancelled"},
            result : BOOLEAN, numbered : BOOLEAN, saved : BOOLEAN]

ScanRequests == [step : {"idle", "scan", "accept", "commit", "importing", "applied"},
                 object : Object \cup {NoObject}, item : ImportItem,
                 quantity : {-1, 1}]
NoScan == [step |-> "idle", object |-> NoObject,
              item |-> CHOOSE i \in ImportItem : TRUE, quantity |-> 1]

\* The import is being reviewed, nobody counts yet.
StocktakingInit ==
    /\ counts = [o \in Object |-> NewCount]
    /\ counting = NoObject
    /\ earlier = {}
    /\ import = [status |-> "review", result |-> FALSE, numbered |-> FALSE, saved |-> TRUE]
    /\ scanner = [k \in Scanner |-> NoScan]
    /\ told = NothingScanned /\ overtaken = FALSE
    /\ scans = 0 /\ made = 0 /\ commits = 0 /\ rollbacks = 0
    /\ unrecorded = 0 /\ putBack = FALSE

-----------------------------------------------------------------------------
Held(current, others, requests) ==
    {current} \cup others \cup {requests[k].object : k \in Scanner}

\* What nobody refers to any more is forgotten.
Kept(objects) == [o \in Object |->
    IF o \in Held(counting', earlier', scanner') THEN objects[o] ELSE NewCount]

Answered(k) == scanner' = [scanner EXCEPT ![k] = NoScan]
Goto(k, step) == scanner' = [scanner EXCEPT ![k].step = step]

\* createImportInventory: the object is new, and so is the id if the import has none.
CreateCount ==
    /\ made < MaxCounts
    /\ counting' \in Object \ Held(counting, earlier, scanner)
    /\ earlier' = IF import.numbered THEN earlier ELSE earlier \cup ({counting} \ {NoObject})
    /\ import' = [import EXCEPT !.numbered = TRUE]
    /\ made' = made + 1
    /\ told' = NothingScanned
    /\ overtaken' = \E k \in Scanner : scanner[k].step # "idle"
    /\ UNCHANGED <<scanner, scans, importHistory>>
    /\ counts' = Kept(counts)

\* resolveStocktakingSession; then the context of the request is waited for.
Resolve(k, request) ==
    /\ scanner[k].step = "idle"
    /\ request.object \in earlier \cup ({counting} \ {NoObject})
    /\ scanner' = [scanner EXCEPT ![k] = request]
    /\ UNCHANGED <<counts, counting, earlier, import, scanHistory, importHistory>>

BeginScan(k, o, i, q) ==
    /\ scans + Cardinality({j \in Scanner : scanner[j].step = "scan"}) < MaxScans
    /\ Resolve(k, [step |-> "scan", object |-> o, item |-> i, quantity |-> q])

\* Mutant: the units are set and not added.
ScannedLast(count, i, q) == [count EXCEPT !.scanned[i] = q]

\* measurement_value may be negative: a piece scanned by mistake.
Scanned(count, i, q) == [count EXCEPT !.scanned[i] = @ + q]

\* setStocktakingProductByBarcode
Scan(k) ==
    LET o == scanner[k].object
        i == scanner[k].item
        q == scanner[k].quantity
    IN  /\ scanner[k].step = "scan"
        /\ scans < MaxScans
        /\ scans' = scans + 1
        /\ told' = IF o \in earlier THEN told ELSE [told EXCEPT ![i] = @ + q]
        /\ Answered(k)
        /\ UNCHANGED <<counting, earlier, import, overtaken, made, importHistory>>
        /\ counts' = Kept([counts EXCEPT ![o] = Scanned(@, i, q)])

-----------------------------------------------------------------------------
BeginAccept(k, o) == Resolve(k, [NoScan EXCEPT !.step = "accept", !.object = o])

\* acceptStocktakingImport: an accepted count is answered with the old result,
\* also when the import has been rolled back since.
Accept(k) ==
    /\ scanner[k].step = "accept"
    /\ IF counts[scanner[k].object].accepted /\ import.result
       THEN Answered(k) ELSE Goto(k, "commit")
    /\ UNCHANGED <<counting, earlier, import, scanHistory, importHistory>>
    /\ counts' = Kept(counts)

Committed == import.status = "completed" /\ import.result

\* IMPORT_COMMIT_LOCKS
Locked == \E k \in Scanner : scanner[k].step \in {"importing", "applied"}
Applied == \E k \in Scanner : scanner[k].step = "applied"

MarkAccepted(k) == counts' = Kept([counts EXCEPT ![scanner[k].object].accepted = TRUE])

\* commitImport with forceWithCheckAccept, whatever was scanned: a finished import
\* is answered and the count is marked,
CommitAnswered(k) ==
    /\ scanner[k].step = "commit" /\ Committed
    /\ Answered(k)
    /\ UNCHANGED <<counting, earlier, import, scanHistory, importHistory>>
    /\ MarkAccepted(k)

\* any other is locked and imported, whatever its status.
BeginCommit(k) ==
    /\ scanner[k].step = "commit" /\ ~Committed
    /\ ~Locked /\ commits < MaxCommits
    /\ import' = [import EXCEPT !.status = "review"]
    /\ Goto(k, "importing")
    /\ UNCHANGED <<counts, counting, earlier, scanHistory, importHistory>>

\* applyImportRows: one transaction.
ApplyCount(k) ==
    /\ scanner[k].step = "importing"
    /\ commits' = commits + 1
    /\ Goto(k, "applied")
    /\ UNCHANGED <<counts, counting, earlier, import, scanHistory, rollbacks, unrecorded,
                   putBack>>

(* The result is kept; the write of its row may fail, and then the request does,
   before it has marked the count. *)
FinishCommit(k, saved) ==
    /\ scanner[k].step = "applied"
    /\ import' = [import EXCEPT !.status = "completed", !.result = TRUE, !.saved = saved]
    /\ Answered(k)
    /\ UNCHANGED <<counting, earlier, scanHistory, importHistory>>
    /\ IF saved THEN MarkAccepted(k) ELSE counts' = Kept(counts)

(* The lock is somebody else's, a row is invalid or the transaction throws; or the
   goods are in and reading their variants throws. *)
CommitFails(k) ==
    /\ \/ scanner[k].step = "commit" /\ ~Committed /\ UNCHANGED unrecorded
       \/ scanner[k].step = "importing" /\ UNCHANGED unrecorded
       \/ scanner[k].step = "applied" /\ unrecorded' = unrecorded + 1
    /\ Answered(k)
    /\ UNCHANGED <<counting, earlier, import, scanHistory, commits, rollbacks, putBack>>
    /\ counts' = Kept(counts)

\* rollbackImport keeps the result; the count knows nothing of it.
RollbackCounted ==
    /\ import.status = "completed"
    /\ import' = [import EXCEPT !.status = "rolled_back", !.saved = TRUE]
    /\ rollbacks' = rollbacks + 1
    /\ UNCHANGED <<counts, counting, earlier, scanner, scanHistory, commits, unrecorded,
                   putBack>>

\* The status is written over, whatever it is.
WriteStatus(changed) ==
    /\ import' = changed
    /\ putBack' = (putBack \/ import.status = "completed")
    /\ UNCHANGED <<counts, counting, earlier, scanner, scanHistory, commits, rollbacks,
                   unrecorded>>

\* cancelImport
CancelCounted == WriteStatus([import EXCEPT !.status = "cancelled", !.saved = TRUE])

\* validateExcelImport: a new session, which keeps the result and not the id of the
\* count.  Bound: no acceptance is under way, which ProductImports interleaves.
CheckAnew ==
    /\ \A k \in Scanner : scanner[k].step \in {"idle", "scan"}
    /\ WriteStatus([import EXCEPT !.status = "review", !.numbered = FALSE, !.saved = TRUE])

\* The server stops: counts and requests are gone, the import is what its row says,
\* and healed if that is importing.
ForgetCounts ==
    /\ counting # NoObject
    /\ counting' = NoObject /\ earlier' = {}
    /\ counts' = [o \in Object |-> NewCount]
    /\ scanner' = [k \in Scanner |-> NoScan]
    /\ told' = NothingScanned /\ overtaken' = FALSE
    /\ import' = IF import.saved THEN import
                 ELSE [import EXCEPT !.status = "review", !.saved = TRUE]
    /\ unrecorded' = IF Applied \/ ~import.saved THEN unrecorded + 1 ELSE unrecorded
    /\ UNCHANGED <<scans, made, commits, rollbacks, putBack>>

StocktakingNext ==
    \/ CreateCount \/ RollbackCounted \/ CancelCounted \/ CheckAnew \/ ForgetCounts
    \/ \E k \in Scanner :
        \/ \E o \in Object :
              \/ \E i \in ImportItem, q \in {-1, 1} : BeginScan(k, o, i, q)
              \/ BeginAccept(k, o)
        \/ Scan(k) \/ Accept(k)
        \/ CommitAnswered(k) \/ BeginCommit(k) \/ ApplyCount(k) \/ CommitFails(k)
        \/ \E saved \in BOOLEAN : FinishCommit(k, saved)

StocktakingSpec == StocktakingInit /\ [][StocktakingNext]_stocktakingVars

-----------------------------------------------------------------------------
(* What the screen shows of a count. *)
Missing(o) == [i \in ImportItem |->
    IF counts[o].scanned[i] < Expected[i]
    THEN Expected[i] - counts[o].scanned[i] ELSE 0]

\* shortage_sum_supply, at a price of one
Shortage(o) == SumOver(Missing(o), ImportItem)

\* Type "ok" in the list
Found(o, i) == counts[o].scanned[i] > 0

\* The list of type "scanned" and total_scanned_rows
ScannedRows(o) == {i \in ImportItem : Found(o, i)}

StocktakingTypeOK ==
    /\ counts \in [Object -> CountState]
    /\ counting \in Object \cup {NoObject}
    /\ earlier \subseteq Object
    /\ import \in Imports
    /\ scanner \in [Scanner -> ScanRequests]
    /\ told \in [ImportItem -> Units] /\ {overtaken, putBack} \subseteq BOOLEAN
    /\ {scans, made, commits, rollbacks, unrecorded} \subseteq Nat

(* What clerks were told they have scanned is what the count shows, and nothing
   is missing only when every item was scanned in full: too much of one item
   does not make up for another.  That fails only for a count that was made anew
   while somebody was scanning.  An accepted count has brought its import in; and
   whoever accepts, in whatever order, the import comes in once, and once more for
   every rollback and every commit that left no record, unless a finished import is
   cancelled or checked anew, which the code does not refuse
   (products.service.ts:2159, 2266, 2331, 2486). *)
CountShowsScans ==
    counting # NoObject =>
        /\ ~overtaken =>
            /\ counts[counting].scanned = told
            /\ ScannedRows(counting) = {i \in ImportItem : told[i] > 0}
            /\ Shortage(counting) = 0 <=> \A i \in ImportItem : told[i] >= Expected[i]
        /\ counts[counting].accepted => import.result /\ commits > 0
        /\ ~putBack => commits <= rollbacks + unrecorded + 1

=============================================================================
