--------------------------- MODULE ProductImports ---------------------------
(***************************************************************************)
(* One import of goods from a file (ProductsService): a session object in  *)
(* the memory of the server, its row in ProductImportSession, the commit   *)
(* that adds the goods to the shop and the rollback that takes them away.  *)
(*                                                                         *)
(* A handler runs without interruption up to an await; every await is a    *)
(* step, so handlers interleave there.  A session that is not in memory is *)
(* loaded from its row, and two handlers may load it at once.  The server  *)
(* may stop at any time: memory, locks and running handlers are gone, rows *)
(* stay.  The file is one unit of one product.                             *)
(*                                                                         *)
(* `writing` of a handler is the row it is about to write; the write may   *)
(* fail.  History: `purchased` and `reverted` units of the movements made  *)
(* under the id of the import, `rollbacks`, `unrecorded` commits that have *)
(* failed with their goods in, and `disturbed`: somebody has put the       *)
(* import back, a commit works on an object that another request has       *)
(* replaced, or the server has forgotten the import.                       *)
(***************************************************************************)
EXTENDS Naturals, FiniteSets

CONSTANTS
    ImportRequest, Object, NoObject,
    ShopStock,       \* units of the product in the shop before the import
    MaxImports,      \* bound: commits that reach the stock
    MaxRequests,     \* bound: requests other than a look
    MaxCrashes       \* bound: restarts of the server

ASSUME ImportAssumption ==
    /\ Object # {} /\ NoObject \notin Object
    /\ ShopStock \in Nat /\ MaxImports \in Nat /\ MaxRequests \in Nat
    /\ MaxCrashes \in Nat

VARIABLES
    heap,        \* the session objects
    mem,         \* IMPORT_SESSIONS: the object under the id of the import
    row,         \* ProductImportSession
    locked,      \* IMPORT_COMMIT_LOCKS
    handler,
    importStock, \* ProductStock of the product in the shop
    purchased, reverted, rollbacks, unrecorded, requests, crashes, disturbed

server == <<heap, mem, locked, handler>>
importHistory ==
    <<purchased, reverted, rollbacks, unrecorded, requests, crashes, disturbed>>
importVars == <<server, row, importStock, importHistory>>

ImportStatus == {"draft", "preview_ready", "importing", "completed",
                 "cancelled", "rolled_back"}
Sessions == [status : ImportStatus, result : BOOLEAN]
Drafted == [status |-> "draft", result |-> FALSE]

Ops == {"look", "commit", "rollback", "cancel", "validate", "stocktaking"}
Steps == {"idle", "loading", "found", "begun", "applied", "reverting", "locking",
          "taken", "writing"}
Handlers == [op : Ops, step : Steps, object : Object \cup {NoObject},
             record : Sessions,     \* the row read, or the row to write
             revert : Nat]
Resting == [op |-> "look", step |-> "idle", object |-> NoObject,
            record |-> Drafted, revert |-> 0]

\* importWithoutCheck: the goods come in at once, under a new id, and then the
\* object and its row are made.
BroughtIn == [status |-> "completed", result |-> TRUE]

\* createImportDraft or importWithoutCheck: the object and its row.
ImportInit ==
    /\ mem = CHOOSE o \in Object : TRUE
    /\ row \in {Drafted, BroughtIn}
    /\ heap = [o \in Object |-> IF o = mem THEN row ELSE Drafted]
    /\ locked = FALSE
    /\ handler = [h \in ImportRequest |-> Resting]
    /\ purchased = IF row = BroughtIn THEN 1 ELSE 0
    /\ importStock = ShopStock + purchased
    /\ reverted = 0 /\ rollbacks = 0 /\ unrecorded = 0
    /\ requests = 0 /\ crashes = 0
    /\ disturbed = FALSE

-----------------------------------------------------------------------------
At(h, op, step) == handler[h].op = op /\ handler[h].step = step
Goto(h, step) == handler' = [handler EXCEPT ![h].step = step]
Used(memory, handlers) == {memory} \cup {handlers[h].object : h \in ImportRequest}

\* What nobody refers to any more is forgotten.
Collected(sessions, memory, handlers) ==
    [o \in Object |-> IF o \in Used(memory, handlers) THEN sessions[o] ELSE Drafted]

End(h) ==
    /\ handler' = [handler EXCEPT ![h] = Resting]
    /\ heap' = Collected(heap, mem, handler')

\* The handler sets fields of its object and starts to write it to its row.
Save(h, session) ==
    /\ heap' = [heap EXCEPT ![handler[h].object] = session]
    /\ handler' = [handler EXCEPT ![h].step = "writing", ![h].record = session]

\* Mutant: nobody looks after a session that was left importing.
HealedNever(session) == session

(* healStuckImportingSession: importing with no commit running goes back to
   the review; the write of its row is not waited for, and may be lost. *)
Healed(session) ==
    IF session.status = "importing" /\ ~locked
    THEN [session EXCEPT !.status = "preview_ready"] ELSE session

Heal(o, session) ==
    /\ heap' = Collected([heap EXCEPT ![o] = Healed(session)], mem', handler')
    /\ row' \in {row, IF Healed(session) = session THEN row ELSE Healed(session)}

\* rollbackImport looks at the status at once, the others after another await.
Admitted(op, session) == op = "rollback" => session.status = "completed"

FoundBy(h, op, o, session) ==
    handler' = [handler EXCEPT ![h] =
        IF op = "look" \/ ~Admitted(op, session) THEN Resting
        ELSE [Resting EXCEPT !.op = op, !.object = o, !.step = "found"]]

\* resolveImportSessionFromStore finds the object in memory.
LookUp(h, op) ==
    /\ handler[h].step = "idle"
    /\ mem # NoObject
    /\ UNCHANGED mem
    /\ FoundBy(h, op, mem, Healed(heap[mem]))
    /\ Heal(mem, heap[mem])
    /\ UNCHANGED <<locked, importStock, purchased, reverted, rollbacks, unrecorded,
                   crashes, disturbed>>

\* or reads its row
StartLoad(h, op) ==
    /\ handler[h].step = "idle"
    /\ mem = NoObject
    /\ handler' = [handler EXCEPT ![h] =
            [Resting EXCEPT !.op = op, !.step = "loading", !.record = row]]
    /\ UNCHANGED <<heap, mem, locked, row, importStock,
                   purchased, reverted, rollbacks, unrecorded, crashes, disturbed>>

Unused == Object \ Used(mem, handler)

\* and puts a new object into memory, over one that another has put there.
FinishLoad(h) ==
    LET o == CHOOSE x \in Unused : TRUE
    IN  /\ handler[h].step = "loading"
        /\ Unused # {}
        /\ mem' = o
        /\ FoundBy(h, handler[h].op, o, Healed(handler[h].record))
        /\ Heal(o, handler[h].record)
        /\ disturbed' = (disturbed \/ mem # NoObject)
        /\ UNCHANGED <<locked, importStock,
                       purchased, reverted, rollbacks, unrecorded, requests, crashes>>

\* persistImportSession; it ends every handler, and a commit drops its lock.
WriteRow(h) ==
    /\ handler[h].step = "writing"
    /\ row' = handler[h].record
    /\ IF handler[h].op = "commit" /\ handler[h].record.status = "importing"
       THEN Goto(h, "begun") /\ UNCHANGED <<heap, locked>>
       ELSE End(h) /\ locked' = (locked /\ handler[h].op \notin {"commit", "rollback"})
    /\ UNCHANGED <<mem, importStock, importHistory>>

\* The write fails: the handler throws, its finally drops the lock.
WriteFails(h) ==
    /\ handler[h].step = "writing"
    /\ End(h)
    /\ locked' = (locked /\ handler[h].op \notin {"commit", "rollback"})
    /\ UNCHANGED <<mem, row, importStock, importHistory>>

-----------------------------------------------------------------------------
\* Mutant: only a commit that is recorded is seen.
CommitRefusedLate(session) == session.status = "completed" /\ session.result

CommitRefused(session) ==
    \/ session.status = "completed" /\ session.result    \* idempotent answer
    \/ locked

\* commitImport; an import with a check comes here from acceptStocktakingImport.
BeginCommit(h) ==
    LET o == handler[h].object
    IN  /\ At(h, "commit", "found")
        /\ IF CommitRefused(heap[o])
           THEN End(h) /\ UNCHANGED locked
           ELSE locked' = TRUE /\ Save(h, [heap[o] EXCEPT !.status = "importing"])
        /\ disturbed' = (disturbed \/ o # mem)
        /\ UNCHANGED <<mem, row, importStock,
                       purchased, reverted, rollbacks, unrecorded, requests, crashes>>

\* applyImportRows: one transaction.
ApplyRows(h) ==
    /\ At(h, "commit", "begun")
    /\ purchased < MaxImports
    /\ purchased' = purchased + 1
    /\ importStock' = importStock + 1
    /\ Goto(h, "applied")
    /\ UNCHANGED <<heap, mem, locked, row,
                   reverted, rollbacks, unrecorded, requests, crashes, disturbed>>

Unlock == locked' = FALSE

\* The catch and the finally of a commit that throws: back to the review.
GiveUp(h) ==
    LET o == handler[h].object
    IN  IF heap[o].status = "importing"
        THEN Save(h, [heap[o] EXCEPT !.status = "preview_ready"]) /\ UNCHANGED locked
        ELSE End(h) /\ Unlock

\* A row is invalid or the transaction throws.
ApplyFails(h) ==
    /\ At(h, "commit", "begun")
    /\ GiveUp(h)
    /\ UNCHANGED <<mem, row, importStock, importHistory>>

\* The transaction is done, and reading the variants throws: the goods are in.
ReadingFails(h) ==
    /\ At(h, "commit", "applied")
    /\ GiveUp(h)
    /\ unrecorded' = unrecorded + 1
    /\ UNCHANGED <<mem, row, importStock, purchased, reverted, rollbacks, requests, crashes,
                   disturbed>>

\* The variants that were imported are read; then the result is kept.
FinishCommit(h) ==
    /\ At(h, "commit", "applied")
    /\ Save(h, [status |-> "completed", result |-> TRUE])
    /\ UNCHANGED <<mem, locked, row, importStock, importHistory>>

-----------------------------------------------------------------------------
\* rollbackImport reads what the import has brought in.
ReadMovements(h) ==
    /\ At(h, "rollback", "found")
    /\ IF purchased = 0 \/ purchased > importStock
       THEN End(h)
       ELSE /\ handler' = [handler EXCEPT ![h].step = "reverting", ![h].revert = purchased]
            /\ UNCHANGED heap
    /\ UNCHANGED <<mem, locked, row, importStock, importHistory>>

\* The lock is taken, the status is not looked at again.
LockRollback(h) ==
    /\ At(h, "rollback", "reverting")
    /\ IF locked THEN End(h) /\ UNCHANGED locked
                 ELSE Goto(h, "locking") /\ locked' = TRUE /\ UNCHANGED heap
    /\ UNCHANGED <<mem, row, importStock, importHistory>>

\* Mutant: goods sold meanwhile are not missed.
GoneUnchecked(units) == FALSE

Gone(units) == units > importStock

\* The transaction; it throws when the goods are gone.
TakeBack(h) ==
    LET units == handler[h].revert
    IN  /\ At(h, "rollback", "locking")
        /\ IF Gone(units)
           THEN End(h) /\ Unlock /\ UNCHANGED <<importStock, reverted, rollbacks>>
           ELSE /\ importStock' = importStock - units
                /\ reverted' = reverted + units
                /\ rollbacks' = rollbacks + 1
                /\ Goto(h, "taken")
                /\ UNCHANGED <<heap, locked>>
        /\ UNCHANGED <<mem, row, purchased, unrecorded, requests, crashes, disturbed>>

FinishRollback(h) ==
    /\ At(h, "rollback", "taken")
    /\ Save(h, [status |-> "rolled_back", result |-> TRUE])
    /\ UNCHANGED <<mem, locked, row, importStock, importHistory>>

-----------------------------------------------------------------------------
\* Imports that are out again, or that no session tells of.
Released == rollbacks + unrecorded

\* The status is set whatever it is: a finished or running import is put back.
PutBack == disturbed' = (disturbed \/ locked \/ purchased > Released)

CancelImport(h) ==
    /\ At(h, "cancel", "found")
    /\ Save(h, [heap[handler[h].object] EXCEPT !.status = "cancelled"])
    /\ PutBack
    /\ UNCHANGED <<mem, locked, row, importStock,
                   purchased, reverted, rollbacks, unrecorded, requests, crashes>>

\* validateExcelImport of a known import: a new object takes its place.
ValidateImport(h) ==
    LET o == CHOOSE x \in Unused : TRUE
        new == [heap[handler[h].object] EXCEPT !.status = "preview_ready"]
    IN  /\ At(h, "validate", "found")
        /\ Unused # {}
        /\ mem' = o
        /\ handler' = [handler EXCEPT ![h].step = "writing", ![h].object = o, ![h].record = new]
        /\ heap' = Collected([heap EXCEPT ![o] = new], mem', handler')
        /\ PutBack
        /\ UNCHANGED <<locked, row, importStock,
                       purchased, reverted, rollbacks, unrecorded, requests, crashes>>

\* createImportInventory: the count lives in memory only.
CreateInventory(h) ==
    /\ At(h, "stocktaking", "found")
    /\ Save(h, heap[handler[h].object])
    /\ UNCHANGED <<mem, locked, row, importStock, importHistory>>

\* The server stops and starts: what the rows do not say is forgotten.
Restart ==
    /\ crashes < MaxCrashes
    /\ crashes' = crashes + 1
    /\ mem' = NoObject /\ locked' = FALSE
    /\ heap' = [o \in Object |-> Drafted]
    /\ handler' = [h \in ImportRequest |-> Resting]
    /\ disturbed' = (disturbed \/ (row.status = "completed") # (purchased > Released))
    /\ UNCHANGED <<row, importStock, purchased, reverted, rollbacks, unrecorded, requests>>

\* One of the goods is sold.
SellImported ==
    /\ importStock > 0
    /\ importStock' = importStock - 1
    /\ UNCHANGED <<server, row, importHistory>>

Ask(h, op) ==
    /\ op = "look" \/ requests < MaxRequests
    /\ requests' = IF op = "look" THEN requests ELSE requests + 1
    /\ LookUp(h, op) \/ StartLoad(h, op)

\* What a running handler does next.
Proceed(h) ==
    \/ FinishLoad(h) \/ WriteRow(h) \/ WriteFails(h)
    \/ BeginCommit(h) \/ ApplyRows(h) \/ ApplyFails(h)
    \/ ReadingFails(h) \/ FinishCommit(h)
    \/ ReadMovements(h) \/ LockRollback(h) \/ TakeBack(h) \/ FinishRollback(h)
    \/ CancelImport(h) \/ ValidateImport(h) \/ CreateInventory(h)

ImportNext ==
    \/ \E h \in ImportRequest :
        \/ \E op \in Ops : Ask(h, op)
        \/ Proceed(h)
    \/ Restart \/ SellImported

(* A running handler is not put off for ever. *)
ImportFairness == \A h \in ImportRequest : WF_importVars(Proceed(h))

ImportSpec == ImportInit /\ [][ImportNext]_importVars /\ ImportFairness

-----------------------------------------------------------------------------
ImportTypeOK ==
    /\ heap \in [Object -> Sessions]
    /\ mem \in Object \cup {NoObject}
    /\ row \in Sessions
    /\ {locked, disturbed} \subseteq BOOLEAN
    /\ handler \in [ImportRequest -> Handlers]
    /\ {importStock, purchased, reverted, rollbacks, unrecorded, requests, crashes} \subseteq Nat

(* The goods of an import come in once, and once more for every rollback and for
   every commit that threw between its transaction and its result, as long as
   nobody cancels or checks it anew after its commit, two handlers do not load it
   at once, and the server does not stop between the stock and the row
   (products.service.ts:2316, 2455, 2727). *)
ImportedOnce == ~disturbed => purchased <= Released + 1

Importing == LET now == IF mem = NoObject THEN row ELSE heap[mem]
             IN  now.status = "importing"

(* The lock of a commit or a rollback is always given back; and if somebody goes
   on asking for the import, it does not stay importing, whatever fails and
   whenever the server stops.  No job asks, so the second half is said under that
   condition and not of every behaviour (products.service.ts:2467, 2717). *)
ImportEnds ==
    /\ locked ~> ~locked
    /\ WF_importVars(\E h \in ImportRequest : Ask(h, "look")) => (Importing ~> ~Importing)

(* A rollback takes back no more than the import has brought in. *)
RevertedWithinImport == reverted <= purchased

=============================================================================
