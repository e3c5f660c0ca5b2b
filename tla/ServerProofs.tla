----------------------------- MODULE ServerProofs -----------------------------
(***************************************************************************)
(* An import comes in once and a paid month counts, for any number of      *)
(* requests, session objects, restarts, clerks and employees.              *)
(*                                                                         *)
(* The import: ImportedOnce rests on a lock that one handler at a time     *)
(* holds (OneUnderLock), on what each holder knows (CommitsHold,           *)
(* RollbacksHold), and on the session in memory telling that the goods are *)
(* in (GoodsAreTold), which is what refuses a second commit.               *)
(*                                                                         *)
(* The subscription: while nothing crossed, whoever is under way has read  *)
(* the subscription as it stands (PaidBefore).                             *)
(***************************************************************************)
EXTENDS MCServer, FiniteSetTheorems, TLAPS

USE DEF Released

\* A commit from its lock on, a rollback likewise.
CommitSteps == {"writing", "begun", "applied"}
RollbackSteps == {"locking", "taken", "writing"}
Locking(q) == \/ q.op = "commit" /\ q.step \in CommitSteps
              \/ q.op = "rollback" /\ q.step \in RollbackSteps

\* What a session says: a result comes with completion; who has found the
\* import holds its object; whoever works under the lock does so alone.
ResultsKept ==
    /\ row.status = "completed" => row.result
    /\ \A o \in Object : heap[o].status = "completed" => heap[o].result
    /\ \A h \in ImportRequest : handler[h].record.status = "completed" => handler[h].record.result
ObjectsHeld ==
    \A h \in ImportRequest : handler[h].step \notin {"idle", "loading"} => handler[h].object \in Object
OneUnderLock ==
    /\ \A h \in ImportRequest : Locking(handler[h]) => locked
    /\ \A h, g \in ImportRequest : Locking(handler[h]) /\ Locking(handler[g]) => h = g

\* Goods that are in are told by a finished session, or by the commit that is
\* about to finish it.
GoodsAreTold ==
    mem # NoObject /\ purchased > Released =>
        \/ heap[mem].status = "completed"
        \/ \E h \in ImportRequest : handler[h].op = "commit" /\ handler[h].step = "applied"

CommitsHold ==
    \A h \in ImportRequest : handler[h].op = "commit" /\ handler[h].step \in CommitSteps =>
        /\ mem # NoObject /\ handler[h].object = mem
        /\ handler[h].step = "begun" => purchased <= Released
        /\ handler[h].step = "writing" /\ handler[h].record.status = "importing" =>
               purchased <= Released

RollbacksHold ==
    \A h \in ImportRequest :
        handler[h].op = "rollback" /\ handler[h].step \in {"taken", "writing"} =>
            purchased <= Released

\* After a restart, until somebody has loaded the session.
NothingLoaded ==
    mem = NoObject =>
        /\ ~locked
        /\ \A h \in ImportRequest : /\ handler[h].step \in {"idle", "loading"}
                                    /\ handler[h].step = "loading" => handler[h].record = row
        /\ purchased > Released => row.status = "completed"

Undisturbed ==
    /\ ImportedOnce
    /\ ~disturbed => GoodsAreTold /\ CommitsHold /\ RollbacksHold /\ NothingLoaded

Consistent == ImportTypeOK /\ ResultsKept /\ ObjectsHeld /\ OneUnderLock
ImportInv == Consistent /\ Undisturbed

\* The types one by one, as the provers want them.
LEMMA ImportTypes ==
    ImportTypeOK <=> /\ heap \in [Object -> Sessions]
                     /\ mem \in Object \cup {NoObject}
                     /\ row \in Sessions
                     /\ locked \in BOOLEAN /\ disturbed \in BOOLEAN
                     /\ handler \in [ImportRequest -> Handlers]
                     /\ importStock \in Nat /\ purchased \in Nat /\ reverted \in Nat
                     /\ rollbacks \in Nat /\ unrecorded \in Nat /\ requests \in Nat /\ crashes \in Nat
BY DEF ImportTypeOK

LEMMA RestingFacts ==
    /\ Drafted \in Sessions /\ BroughtIn \in Sessions
    /\ Resting \in Handlers /\ Resting.op = "look" /\ Resting.step = "idle"
    /\ Drafted.status = "draft" /\ Resting.record = Drafted /\ ~Locking(Resting)
BY DEF Drafted, BroughtIn, Sessions, ImportStatus, Resting, Handlers, Ops, Steps, Locking

LEMMA ImportBegins == ImportInit => ImportInv
<1> SUFFICES ASSUME ImportInit PROVE ImportInv
  OBVIOUS
<1>1. mem \in Object /\ mem # NoObject
  BY ImportAssumption DEF ImportInit
<1>2. /\ row \in Sessions /\ heap \in [Object -> Sessions]
      /\ handler \in [ImportRequest -> Handlers]
  BY RestingFacts DEF ImportInit
<1>3. \A h \in ImportRequest : handler[h] = Resting
  BY DEF ImportInit
<1>4. /\ (row = Drafted /\ purchased = 0) \/ (row = BroughtIn /\ purchased = 1)
      /\ heap[mem] = row /\ BroughtIn.status = "completed" /\ BroughtIn.result
      /\ \A o \in Object : heap[o] = row \/ heap[o] = Drafted
  BY <1>1 DEF ImportInit, BroughtIn, Drafted
<1>5. importStock \in Nat
  BY <1>4, ImportAssumption DEF ImportInit
<1>6. ImportTypeOK
  <2>1. /\ locked \in BOOLEAN /\ disturbed \in BOOLEAN /\ purchased \in Nat /\ reverted \in Nat
        /\ rollbacks \in Nat /\ unrecorded \in Nat /\ requests \in Nat /\ crashes \in Nat
    BY <1>4 DEF ImportInit
  <2> QED BY <1>1, <1>2, <1>5, <2>1 DEF ImportTypeOK
<1>7. ResultsKept /\ ObjectsHeld /\ OneUnderLock
  BY <1>3, <1>4, RestingFacts DEF ResultsKept, ObjectsHeld, OneUnderLock
<1>8. rollbacks = 0 /\ unrecorded = 0
  BY DEF ImportInit
<1>9. ImportedOnce /\ GoodsAreTold
  BY <1>4, <1>8, RestingFacts DEF ImportedOnce, GoodsAreTold
<1>10. CommitsHold /\ RollbacksHold /\ NothingLoaded
  BY <1>1, <1>3, RestingFacts DEF CommitsHold, RollbacksHold, NothingLoaded
<1> QED BY <1>6, <1>7, <1>9, <1>10 DEF ImportInv, Consistent, Undisturbed

\* A handler moves on: what must be so for the rest to stay as it is.
LEMMA MoveKeeps ==
    ASSUME Consistent, NEW h \in ImportRequest, NEW new \in Handlers,
           handler' = [handler EXCEPT ![h] = new],
           new.step \notin {"idle", "loading"} => new.object \in Object,
           new.record.status = "completed" => new.record.result,
           heap' \in [Object -> Sessions],
           \A o \in Object : heap'[o].status = "completed" => heap'[o].result,
           mem' \in Object \cup {NoObject},
           row' \in Sessions, row'.status = "completed" => row'.result,
           locked' \in BOOLEAN, disturbed' \in BOOLEAN,
           Locking(new) => locked' /\ (Locking(handler[h]) \/ ~locked),
           ~Locking(new) => locked' = locked \/ Locking(handler[h]),
           importStock' \in Nat, purchased' \in Nat, reverted' \in Nat,
           rollbacks' \in Nat, unrecorded' \in Nat, requests' \in Nat, crashes' \in Nat
    PROVE  Consistent'
<1>1. handler \in [ImportRequest -> Handlers]
  BY ImportTypes DEF Consistent
<1>2. \A g \in ImportRequest : handler'[g] = IF g = h THEN new ELSE handler[g]
  BY <1>1
<1>3. handler' \in [ImportRequest -> Handlers]
  BY <1>1
<1>4. ImportTypeOK'
  BY <1>3 DEF ImportTypeOK
<1>5. ResultsKept'
  BY <1>2 DEF Consistent, ResultsKept
<1>6. ObjectsHeld'
  BY <1>2 DEF Consistent, ObjectsHeld
<1>7. ASSUME NEW g \in ImportRequest, Locking(handler'[g]) PROVE locked'
  BY <1>2, <1>7 DEF Consistent, OneUnderLock
<1>8. ASSUME NEW f \in ImportRequest, NEW g \in ImportRequest,
             Locking(handler'[f]), Locking(handler'[g]) PROVE f = g
  BY <1>2, <1>8 DEF Consistent, OneUnderLock
<1>9. OneUnderLock'
  BY <1>7, <1>8 DEF OneUnderLock, Locking
<1> QED BY <1>4, <1>5, <1>6, <1>9 DEF Consistent

LEMMA CollectedFacts ==
    ASSUME NEW sessions \in [Object -> Sessions], NEW memory, NEW handlers
    PROVE  /\ Collected(sessions, memory, handlers) \in [Object -> Sessions]
           /\ \A o \in Object : \/ Collected(sessions, memory, handlers)[o] = sessions[o]
                               \/ Collected(sessions, memory, handlers)[o] = Drafted
           /\ memory \in Object =>
                  Collected(sessions, memory, handlers)[memory] = sessions[memory]
BY RestingFacts DEF Collected, Used

\* What a handler that ends leaves.
LEMMA EndFacts ==
    ASSUME Consistent, NEW h \in ImportRequest, End(h)
    PROVE  /\ handler' = [handler EXCEPT ![h] = Resting]
           /\ heap' \in [Object -> Sessions]
           /\ \A o \in Object : heap'[o].status = "completed" => heap'[o].result
           /\ mem \in Object => heap'[mem] = heap[mem]
<1>1. heap \in [Object -> Sessions] /\ heap' = Collected(heap, mem, handler')
  BY ImportTypes DEF Consistent, End
<1>2. /\ heap' \in [Object -> Sessions]
      /\ \A o \in Object : heap'[o] = heap[o] \/ heap'[o] = Drafted
      /\ mem \in Object => heap'[mem] = heap[mem]
  BY <1>1, CollectedFacts
<1>3. \A o \in Object : heap'[o].status = "completed" => heap'[o].result
  BY <1>2, RestingFacts DEF Consistent, ResultsKept
<1> QED BY <1>2, <1>3 DEF End

\* What a handler that saves leaves.
LEMMA SaveFacts ==
    ASSUME Consistent, NEW h \in ImportRequest, NEW session \in Sessions,
           session.status = "completed" => session.result,
           handler[h].step \notin {"idle", "loading"}, Save(h, session)
    PROVE  LET new == [handler[h] EXCEPT !.step = "writing", !.record = session]
           IN  /\ new \in Handlers /\ handler' = [handler EXCEPT ![h] = new]
               /\ new.step = "writing" /\ new.record = session
               /\ new.op = handler[h].op /\ new.object = handler[h].object
               /\ new.object \in Object
               /\ heap' \in [Object -> Sessions]
               /\ \A o \in Object : heap'[o] = IF o = handler[h].object THEN session ELSE heap[o]
               /\ \A o \in Object : heap'[o].status = "completed" => heap'[o].result
<1> DEFINE new == [handler[h] EXCEPT !.step = "writing", !.record = session]
<1>1. /\ heap \in [Object -> Sessions] /\ handler \in [ImportRequest -> Handlers]
      /\ handler[h] \in Handlers /\ handler[h].object \in Object
  BY ImportTypes DEF Consistent, ObjectsHeld
<1>2. /\ new \in Handlers /\ new.step = "writing" /\ new.record = session
      /\ new.op = handler[h].op /\ new.object = handler[h].object
  BY <1>1 DEF Handlers, Steps
<1>3. handler' = [handler EXCEPT ![h] = new]
  BY <1>1 DEF Save
<1>4. heap' \in [Object -> Sessions]
  BY <1>1 DEF Save
<1>5. \A o \in Object : heap'[o] = IF o = handler[h].object THEN session ELSE heap[o]
  BY <1>1 DEF Save
<1>6. \A o \in Object : heap'[o].status = "completed" => heap'[o].result
  BY <1>5 DEF Consistent, ResultsKept
<1> QED BY <1>1, <1>2, <1>3, <1>4, <1>5, <1>6

\* Healing touches no session but one that was left importing.
LEMMA HealedFacts ==
    ASSUME NEW session \in Sessions, session.status = "completed" => session.result
    PROVE  /\ Healed(session) \in Sessions
           /\ Healed(session).status = "completed" => Healed(session).result
           /\ session.status = "completed" => Healed(session) = session
BY DEF Healed, Sessions, ImportStatus

\* A handler has found its object, and may go on.
LEMMA FoundFacts ==
    ASSUME NEW h \in ImportRequest, NEW op \in Ops, NEW o \in Object, NEW session,
           FoundBy(h, op, o, session)
    PROVE  \E new \in Handlers :
               /\ handler' = [handler EXCEPT ![h] = new]
               /\ new.step \in {"idle", "found"} /\ new.record = Drafted
               /\ new.step # "idle" => new.object = o
               /\ ~Locking(new)
<1> DEFINE found == [Resting EXCEPT !.op = op, !.object = o, !.step = "found"]
<1>1. /\ found \in Handlers /\ found.step = "found" /\ found.object = o
      /\ found.record = Drafted
  BY DEF Resting, Handlers, Steps, Drafted, Sessions, ImportStatus
<1>2. ~Locking(found)
  BY <1>1 DEF Locking, CommitSteps, RollbackSteps
<1>3. handler' = [handler EXCEPT ![h] = Resting] \/ handler' = [handler EXCEPT ![h] = found]
  BY DEF FoundBy
<1> QED BY <1>1, <1>2, <1>3, RestingFacts

LEMMA HealFacts ==
    ASSUME Consistent, NEW o \in Object, NEW session \in Sessions, mem' = o,
           session.status = "completed" => session.result,
           Heal(o, session)
    PROVE  /\ heap' \in [Object -> Sessions] /\ row' \in Sessions
           /\ row'.status = "completed" => row'.result
           /\ \A x \in Object : heap'[x].status = "completed" => heap'[x].result
           /\ heap'[o] = Healed(session)
<1> DEFINE sessions == [heap EXCEPT ![o] = Healed(session)]
<1>1. heap \in [Object -> Sessions] /\ row \in Sessions
  BY ImportTypes DEF Consistent
<1>2. Healed(session) \in Sessions /\ (Healed(session).status = "completed" => Healed(session).result)
  BY HealedFacts
<1>3. sessions \in [Object -> Sessions]
  BY <1>1, <1>2
<1>4. heap' = Collected(sessions, mem', handler')
  BY DEF Heal
<1>5. /\ heap' \in [Object -> Sessions]
      /\ \A x \in Object : heap'[x] = sessions[x] \/ heap'[x] = Drafted
      /\ heap'[o] = sessions[o]
  <2> HIDE DEF sessions
  <2> QED BY <1>3, <1>4, CollectedFacts
<1>6. \A x \in Object : sessions[x].status = "completed" => sessions[x].result
  BY <1>1, <1>2 DEF Consistent, ResultsKept
<1>7. \A x \in Object : heap'[x].status = "completed" => heap'[x].result
  <2> HIDE DEF sessions
  <2> QED BY <1>5, <1>6, RestingFacts
<1>8. row' = row \/ row' = Healed(session)
  BY DEF Heal
<1>9. row' \in Sessions /\ (row'.status = "completed" => row'.result)
  BY <1>1, <1>2, <1>8 DEF Consistent, ResultsKept
<1>10. heap'[o] = Healed(session)
  BY <1>1, <1>5
<1> QED BY <1>5, <1>7, <1>9, <1>10

LEMMA HandlersTyped ==
    ASSUME Consistent, NEW h \in ImportRequest
    PROVE  /\ handler \in [ImportRequest -> Handlers] /\ handler[h] \in Handlers
           /\ handler[h].op \in Ops /\ handler[h].step \in Steps /\ handler[h].record \in Sessions
           /\ handler[h].record.status = "completed" => handler[h].record.result
BY ImportTypes DEF Consistent, Handlers, ResultsKept

\* Whoever has found the import works on an import that is in memory.
LEMMA ImportInMemory ==
    ASSUME ImportInv, NEW h \in ImportRequest, handler[h].step \notin {"idle", "loading"}
    PROVE  ~disturbed => mem \in Object /\ mem # NoObject
BY ImportTypes DEF ImportInv, Consistent, Undisturbed, NothingLoaded

\* A step counts at most one commit that failed with its goods in.
AtMostOneUnrecorded == unrecorded' = unrecorded \/ unrecorded' = unrecorded + 1

LEMMA StillWithin ==
    \A goods, before, after \in Nat :
        before <= after /\ goods <= before + 1 => goods <= after + 1
OBVIOUS

LEMMA ReleasedGrows ==
    ASSUME Consistent, rollbacks' = rollbacks \/ rollbacks' = rollbacks + 1, AtMostOneUnrecorded
    PROVE  /\ purchased \in Nat /\ Released \in Nat /\ Released' \in Nat
           /\ Released <= Released'
<1>1. purchased \in Nat /\ rollbacks \in Nat /\ unrecorded \in Nat
  BY ImportTypes DEF Consistent
<1>2. Released = rollbacks + unrecorded /\ Released' = rollbacks' + unrecorded'
  BY DEF Released
<1> QED BY <1>1, <1>2 DEF AtMostOneUnrecorded

\* A handler that works without the lock, or gives it back, breaks nothing.
LEMMA QuietKeeps ==
    ASSUME ImportInv, NEW h \in ImportRequest, NEW new \in Handlers,
           handler' = [handler EXCEPT ![h] = new],
           ~disturbed' /\ handler[h].op = "commit" /\ handler[h].step = "applied" =>
               purchased' <= Released',
           ~Locking(new),
           mem' = mem, ~disturbed' => ~disturbed /\ mem # NoObject,
           ~disturbed' /\ purchased > Released /\ heap[mem].status = "completed" =>
               heap'[mem].status = "completed",
           UNCHANGED <<purchased, rollbacks>>, AtMostOneUnrecorded
    PROVE  Undisturbed'
<1>0. /\ purchased \in Nat /\ Released \in Nat /\ purchased' = purchased
      /\ purchased' \in Nat
      /\ Released' \in Nat /\ Released <= Released'
  <2> HIDE DEF Released
  <2> QED BY ReleasedGrows DEF ImportInv
<1> HIDE DEF Released
<1>1. /\ Undisturbed /\ handler \in [ImportRequest -> Handlers]
      /\ \A g \in ImportRequest : handler'[g] = IF g = h THEN new ELSE handler[g]
  BY ImportTypes DEF ImportInv, Consistent
<1>2. ImportedOnce'
  <2> SUFFICES ASSUME ~disturbed' PROVE purchased' <= Released' + 1
    BY DEF ImportedOnce
  <2>1. purchased <= Released + 1
    BY <1>1 DEF Undisturbed, ImportedOnce
  <2> QED BY <1>0, <2>1, StillWithin
<1> SUFFICES ASSUME ~disturbed' PROVE (GoodsAreTold /\ CommitsHold /\ RollbacksHold /\ NothingLoaded)'
  BY <1>2 DEF Undisturbed
<1>3. GoodsAreTold /\ CommitsHold /\ RollbacksHold
  BY <1>1 DEF Undisturbed
<1>4. GoodsAreTold'
  BY <1>0, <1>1, <1>3 DEF GoodsAreTold
<1>5. CommitsHold'
  BY <1>0, <1>1, <1>3 DEF CommitsHold, Locking
<1>6. RollbacksHold'
  BY <1>0, <1>1, <1>3 DEF RollbacksHold, Locking, RollbackSteps
<1>7. NothingLoaded'
  BY DEF NothingLoaded
<1> QED BY <1>4, <1>5, <1>6, <1>7

\* A handler that takes the lock or keeps it: nobody else has it.
LEMMA LockedKeeps ==
    ASSUME ImportInv, NEW h \in ImportRequest, NEW new \in Handlers,
           handler' = [handler EXCEPT ![h] = new],
           Locking(new), Locking(handler[h]) \/ ~locked,
           mem' = mem, ~disturbed' => ~disturbed /\ mem # NoObject,
           ~disturbed' => purchased' <= Released' + 1,
           ~disturbed' /\ purchased' > Released' =>
               heap'[mem].status = "completed" \/ (new.op = "commit" /\ new.step = "applied"),
           ~disturbed' /\ new.op = "commit" => new.object = mem,
           ~disturbed' /\ new.op = "commit" /\ new.step = "begun" => purchased' <= Released',
           ~disturbed' /\ new.op = "commit" /\ new.step = "writing"
               /\ new.record.status = "importing" => purchased' <= Released',
           ~disturbed' /\ new.op = "rollback" /\ new.step \in {"taken", "writing"} =>
               purchased' <= Released'
    PROVE  Undisturbed'
<1>1. /\ OneUnderLock /\ handler \in [ImportRequest -> Handlers]
      /\ \A g \in ImportRequest : handler'[g] = IF g = h THEN new ELSE handler[g]
  BY ImportTypes DEF ImportInv, Consistent
<1>2. \A g \in ImportRequest : g # h => ~Locking(handler'[g])
  BY <1>1 DEF OneUnderLock
<1> SUFFICES ASSUME ~disturbed'
             PROVE  (ImportedOnce /\ GoodsAreTold /\ CommitsHold /\ RollbacksHold /\ NothingLoaded)'
  BY DEF Undisturbed, ImportedOnce
<1>3. ImportedOnce' /\ NothingLoaded'
  BY DEF ImportedOnce, NothingLoaded
<1>4. GoodsAreTold'
  BY <1>1 DEF GoodsAreTold
<1>5. CommitsHold'
  <2> SUFFICES ASSUME NEW g \in ImportRequest,
                      handler'[g].op = "commit", handler'[g].step \in CommitSteps
               PROVE  /\ mem' # NoObject /\ handler'[g].object = mem'
                      /\ handler'[g].step = "begun" => purchased' <= Released'
                      /\ handler'[g].step = "writing" /\ handler'[g].record.status = "importing" =>
                             purchased' <= Released'
    BY DEF CommitsHold, CommitSteps
  <2>1. g = h
    BY <1>2 DEF Locking
  <2> QED BY <1>1, <2>1
<1>6. RollbacksHold'
  BY <1>1, <1>2 DEF RollbacksHold, Locking, RollbackSteps
<1> QED BY <1>3, <1>4, <1>5, <1>6

LEMMA LookUpKeeps ==
    ASSUME ImportInv, NEW h \in ImportRequest, NEW op \in Ops,
           requests' \in Nat, LookUp(h, op)
    PROVE  ImportInv'
<1>1. /\ mem \in Object /\ mem # NoObject /\ mem' = mem /\ handler[h].step = "idle"
      /\ heap[mem] \in Sessions
      /\ FoundBy(h, op, mem, Healed(heap[mem])) /\ Heal(mem, heap[mem])
      /\ UNCHANGED <<locked, importStock, purchased, reverted, rollbacks, unrecorded, crashes, disturbed>>
  BY ImportTypes DEF ImportInv, Consistent, LookUp
<1>2. heap[mem].status = "completed" => heap[mem].result
  BY <1>1 DEF ImportInv, Consistent, ResultsKept
<1>3. PICK new \in Handlers :
          /\ handler' = [handler EXCEPT ![h] = new]
          /\ new.step \in {"idle", "found"} /\ new.record = Drafted
          /\ new.step # "idle" => new.object = mem
          /\ ~Locking(new)
  BY <1>1, FoundFacts
<1>4. /\ heap' \in [Object -> Sessions] /\ row' \in Sessions
      /\ row'.status = "completed" => row'.result
      /\ \A x \in Object : heap'[x].status = "completed" => heap'[x].result
      /\ heap'[mem] = Healed(heap[mem])
  BY <1>1, <1>2, HealFacts DEF ImportInv
<1>5. ~Locking(handler[h])
  BY <1>1 DEF Locking, CommitSteps, RollbackSteps
<1>6. Consistent'
  BY <1>1, <1>3, <1>4, <1>5, MoveKeeps, RestingFacts, ImportTypes DEF ImportInv, Consistent
<1>7. heap[mem].status = "completed" => heap'[mem].status = "completed"
  BY <1>1, <1>2, <1>4, HealedFacts
<1>8. Undisturbed'
  BY <1>1, <1>3, <1>7, QuietKeeps DEF AtMostOneUnrecorded
<1> QED BY <1>6, <1>8 DEF ImportInv

LEMMA StartLoadKeeps ==
    ASSUME ImportInv, NEW h \in ImportRequest, NEW op \in Ops,
           requests' \in Nat, StartLoad(h, op)
    PROVE  ImportInv'
<1> DEFINE new == [Resting EXCEPT !.op = op, !.step = "loading", !.record = row]
<1>1. /\ handler[h].step = "idle" /\ mem = NoObject
      /\ handler' = [handler EXCEPT ![h] = new]
      /\ UNCHANGED <<heap, mem, locked, row, importStock, purchased, reverted, rollbacks, unrecorded,
                     crashes, disturbed>>
  BY DEF StartLoad
<1>2. ImportTypeOK
  BY DEF ImportInv, Consistent
<1>3. new \in Handlers /\ new.step = "loading" /\ new.record = row
  BY <1>2, ImportTypes DEF Resting, Handlers, Ops, Steps
<1>4. ~Locking(new) /\ ~Locking(handler[h])
  BY <1>1, <1>3 DEF Locking, CommitSteps, RollbackSteps
<1>5. /\ row.status = "completed" => row.result
      /\ \A x \in Object : heap[x].status = "completed" => heap[x].result
  BY DEF ImportInv, Consistent, ResultsKept
<1>6. Consistent'
  <2> HIDE DEF new
  <2> QED BY <1>1, <1>2, <1>3, <1>4, <1>5, MoveKeeps, ImportTypes DEF ImportInv
<1>7. \A g \in ImportRequest : handler'[g] = IF g = h THEN new ELSE handler[g]
  BY <1>1, <1>2, ImportTypes
<1>8. Undisturbed'
  <2> HIDE DEF new
  <2>1. Undisturbed
    BY DEF ImportInv
  <2>2. ImportedOnce'
    BY <1>1, <2>1 DEF Undisturbed, ImportedOnce
  <2>3. GoodsAreTold'
    BY <1>1 DEF GoodsAreTold
  <2>4. ~disturbed => CommitsHold'
    BY <1>1, <1>3, <1>7, <2>1 DEF Undisturbed, NothingLoaded, CommitsHold, CommitSteps
  <2>5. ~disturbed => RollbacksHold'
    BY <1>1, <1>3, <1>7, <2>1 DEF Undisturbed, NothingLoaded, RollbacksHold
  <2>6. ~disturbed => NothingLoaded'
    BY <1>1, <1>3, <1>7, <2>1 DEF Undisturbed, NothingLoaded
  <2> QED BY <1>1, <2>2, <2>3, <2>4, <2>5, <2>6 DEF Undisturbed
<1> QED BY <1>6, <1>8 DEF ImportInv

LEMMA FinishLoadKeeps ==
    ASSUME ImportInv, NEW h \in ImportRequest, FinishLoad(h) PROVE ImportInv'
<1> DEFINE o == CHOOSE x \in Unused : TRUE
           record == handler[h].record
<1>1. ImportTypeOK
  BY DEF ImportInv, Consistent
<1>2. /\ o \in Object /\ mem' = o /\ handler[h].step = "loading"
      /\ FoundBy(h, handler[h].op, o, Healed(record)) /\ Heal(o, record)
      /\ disturbed' = (disturbed \/ mem # NoObject)
      /\ UNCHANGED <<locked, importStock, purchased, reverted, rollbacks, unrecorded, requests, crashes>>
  BY DEF FinishLoad, Unused
<1>3. /\ handler \in [ImportRequest -> Handlers] /\ handler[h].op \in Ops /\ record \in Sessions
      /\ o # NoObject
  BY <1>1, <1>2, ImportTypes, ImportAssumption DEF Handlers
<1>4. record.status = "completed" => record.result
  BY DEF ImportInv, Consistent, ResultsKept
<1> HIDE DEF o, record
<1>5. PICK new \in Handlers :
          /\ handler' = [handler EXCEPT ![h] = new]
          /\ new.step \in {"idle", "found"} /\ new.record = Drafted
          /\ new.step # "idle" => new.object = o
          /\ ~Locking(new)
  BY <1>2, <1>3, FoundFacts
<1>6. /\ heap' \in [Object -> Sessions] /\ row' \in Sessions
      /\ row'.status = "completed" => row'.result
      /\ \A x \in Object : heap'[x].status = "completed" => heap'[x].result
      /\ heap'[o] = Healed(record)
  BY <1>2, <1>3, <1>4, HealFacts DEF ImportInv
<1>7. ~Locking(handler[h])
  BY <1>2 DEF Locking, CommitSteps, RollbackSteps
<1>8. disturbed' \in BOOLEAN
  BY <1>1, <1>2, ImportTypes
<1>9. Consistent'
  BY <1>1, <1>2, <1>5, <1>6, <1>7, <1>8, MoveKeeps, RestingFacts, ImportTypes DEF ImportInv
<1>10. \A g \in ImportRequest : handler'[g] = IF g = h THEN new ELSE handler[g]
  BY <1>3, <1>5
<1>11. ASSUME ~disturbed'
       PROVE  (ImportedOnce /\ GoodsAreTold /\ CommitsHold /\ RollbacksHold /\ NothingLoaded)'
  <2>1. /\ ~disturbed /\ mem = NoObject /\ ImportedOnce /\ NothingLoaded
    BY <1>2, <1>11 DEF ImportInv, Undisturbed
  <2>2. record = row /\ (purchased > Released => row.status = "completed")
    BY <1>2, <2>1 DEF NothingLoaded, record
  <2>3. purchased > Released => heap'[o].status = "completed"
    BY <1>3, <1>4, <1>6, <2>2, HealedFacts
  <2>4. GoodsAreTold'
    BY <1>2, <2>3 DEF GoodsAreTold
  <2>5. \A g \in ImportRequest : handler'[g].step \in {"idle", "loading", "found"}
    BY <1>5, <1>10, <2>1 DEF NothingLoaded
  <2>6. CommitsHold' /\ RollbacksHold'
    BY <2>5 DEF CommitsHold, RollbacksHold, CommitSteps
  <2>7. NothingLoaded'
    BY <1>2, <1>3 DEF NothingLoaded
  <2>8. ImportedOnce'
    BY <1>2, <2>1 DEF ImportedOnce
  <2> QED BY <2>4, <2>6, <2>7, <2>8
<1>12. Undisturbed'
  BY <1>11 DEF Undisturbed, ImportedOnce
<1> QED BY <1>9, <1>12 DEF ImportInv

\* A handler at its end, with or without its lock.
LEMMA EndKeeps ==
    ASSUME ImportInv, NEW h \in ImportRequest, End(h),
           handler[h].step \notin {"idle", "loading"},
           ~disturbed' /\ handler[h].op = "commit" /\ handler[h].step = "applied" =>
               purchased' <= Released',
           mem' = mem, row' \in Sessions, row'.status = "completed" => row'.result,
           locked' = locked \/ (locked' = FALSE /\ Locking(handler[h])),
           disturbed' \in BOOLEAN, disturbed => disturbed',
           UNCHANGED <<importStock, purchased, reverted, rollbacks, requests, crashes>>,
           AtMostOneUnrecorded
    PROVE  ImportInv'
<1>1. ImportTypeOK /\ Consistent
  BY DEF ImportInv, Consistent
<1>2. /\ handler' = [handler EXCEPT ![h] = Resting]
      /\ heap' \in [Object -> Sessions]
      /\ \A o \in Object : heap'[o].status = "completed" => heap'[o].result
      /\ mem \in Object => heap'[mem] = heap[mem]
  BY <1>1, EndFacts
<1>3. Consistent'
  <2>1. unrecorded' \in Nat
    BY <1>1, ImportTypes DEF AtMostOneUnrecorded
  <2> QED BY <1>1, <1>2, <2>1, MoveKeeps, RestingFacts, ImportTypes
<1>4. ~disturbed => mem \in Object /\ mem # NoObject
  BY ImportInMemory
<1>5. Undisturbed'
  BY <1>2, <1>4, RestingFacts, QuietKeeps DEF AtMostOneUnrecorded
<1> QED BY <1>3, <1>5 DEF ImportInv

LEMMA WriteFailsKeeps ==
    ASSUME ImportInv, NEW h \in ImportRequest, WriteFails(h) PROVE ImportInv'
<1>1. ImportTypeOK /\ Consistent
  BY DEF ImportInv, Consistent
<1>2. /\ handler[h].step = "writing" /\ End(h)
      /\ locked' = (locked /\ handler[h].op \notin {"commit", "rollback"})
      /\ mem' = mem /\ row' = row /\ disturbed' = disturbed
      /\ UNCHANGED <<importStock, purchased, reverted, rollbacks, unrecorded, requests, crashes>>
  BY DEF WriteFails, importHistory
<1>3. locked' = locked \/ (locked' = FALSE /\ Locking(handler[h]))
  BY <1>1, <1>2, ImportTypes DEF Locking, CommitSteps, RollbackSteps
<1>4. row \in Sessions /\ (row.status = "completed" => row.result) /\ disturbed \in BOOLEAN
  BY <1>1, ImportTypes DEF Consistent, ResultsKept
<1> QED BY <1>2, <1>3, <1>4, EndKeeps DEF AtMostOneUnrecorded

LEMMA WriteRowKeeps ==
    ASSUME ImportInv, NEW h \in ImportRequest, WriteRow(h) PROVE ImportInv'
<1> DEFINE new == [handler[h] EXCEPT !.step = "begun"]
<1>1. ImportTypeOK /\ Consistent
  BY DEF ImportInv, Consistent
<1>2. /\ handler[h].step = "writing" /\ row' = handler[h].record
      /\ mem' = mem /\ disturbed' = disturbed
      /\ UNCHANGED <<importStock, purchased, reverted, rollbacks, unrecorded, requests, crashes>>
  BY DEF WriteRow, importHistory
<1>3. /\ handler[h] \in Handlers /\ row' \in Sessions
      /\ row'.status = "completed" => row'.result
      /\ disturbed' \in BOOLEAN
  BY <1>1, <1>2, HandlersTyped, ImportTypes
<1>4. CASE handler[h].op = "commit" /\ handler[h].record.status = "importing"
  <2>1. handler' = [handler EXCEPT ![h] = new] /\ heap' = heap /\ locked' = locked
    BY <1>1, <1>4, HandlersTyped DEF WriteRow, Goto
  <2>2. /\ new \in Handlers /\ new.op = "commit" /\ new.step = "begun"
        /\ new.object = handler[h].object /\ new.record = handler[h].record
    BY <1>3, <1>4 DEF Handlers, Steps
  <2>3. Locking(new) /\ Locking(handler[h])
    BY <1>2, <1>4, <2>2 DEF Locking, CommitSteps
  <2>4. /\ new.object \in Object /\ locked
        /\ \A o \in Object : heap[o].status = "completed" => heap[o].result
    BY <1>1, <1>2, <2>2, <2>3 DEF Consistent, ObjectsHeld, OneUnderLock, ResultsKept
  <2> HIDE DEF new
  <2>5. Consistent'
    BY <1>1, <1>2, <1>3, <2>1, <2>2, <2>3, <2>4, <1>4, MoveKeeps, ImportTypes
  <2>6. ~disturbed => /\ mem # NoObject /\ handler[h].object = mem /\ purchased <= Released
                      /\ purchased <= Released + 1
    BY <1>2, <1>4 DEF ImportInv, Undisturbed, CommitsHold, CommitSteps, ImportedOnce
  <2>7. purchased \in Nat /\ rollbacks \in Nat /\ unrecorded \in Nat
    BY <1>1, ImportTypes
  <2>8. /\ new.op # "rollback" /\ new.step \notin {"applied", "writing"}
        /\ ~disturbed' => /\ ~disturbed /\ mem # NoObject /\ new.object = mem
                          /\ purchased' <= Released' /\ purchased' <= Released' + 1
                          /\ ~(purchased' > Released')
    BY <1>2, <2>2, <2>6, <2>7
  <2>9. Undisturbed'
    BY <1>2, <2>1, <2>2, <2>3, <2>8, LockedKeeps
  <2> QED BY <2>5, <2>9 DEF ImportInv
<1>5. CASE ~(handler[h].op = "commit" /\ handler[h].record.status = "importing")
  <2>1. End(h) /\ locked' = (locked /\ handler[h].op \notin {"commit", "rollback"})
    BY <1>5 DEF WriteRow
  <2>2. locked' = locked \/ (locked' = FALSE /\ Locking(handler[h]))
    BY <1>1, <1>2, <2>1, ImportTypes DEF Locking, CommitSteps, RollbackSteps
  <2> QED BY <1>2, <1>3, <2>1, <2>2, EndKeeps DEF AtMostOneUnrecorded
<1> QED BY <1>4, <1>5

\* What a session that is saved tells of the goods that are in.
LEMMA SaveUnderLockKeeps ==
    ASSUME ImportInv, NEW h \in ImportRequest, NEW session \in Sessions,
           session.status = "completed" => session.result,
           handler[h].step \notin {"idle", "loading"}, handler[h].op \in {"commit", "rollback"},
           Save(h, session), Locking(handler[h]) \/ ~locked, locked' = TRUE,
           mem' = mem, row' = row, disturbed' \in BOOLEAN, disturbed => disturbed',
           ~disturbed' /\ handler[h].op = "commit" => handler[h].object = mem,
           ~disturbed' /\ handler[h].op = "commit" /\ session.status = "importing" =>
               purchased' <= Released',
           ~disturbed' /\ session.status # "completed" => purchased' <= Released',
           ~disturbed' /\ session.status = "completed" => handler[h].op = "commit",
           UNCHANGED <<importStock, purchased, reverted, rollbacks, requests, crashes>>,
           AtMostOneUnrecorded
    PROVE  ImportInv'
<1> HIDE DEF Released
<1> DEFINE new == [handler[h] EXCEPT !.step = "writing", !.record = session]
<1>1. ImportTypeOK /\ Consistent
  BY DEF ImportInv, Consistent
<1>2. /\ new \in Handlers /\ handler' = [handler EXCEPT ![h] = new]
      /\ new.step = "writing" /\ new.record = session
      /\ new.op = handler[h].op /\ new.object = handler[h].object
      /\ new.object \in Object
      /\ heap' \in [Object -> Sessions]
      /\ \A o \in Object : heap'[o] = IF o = handler[h].object THEN session ELSE heap[o]
      /\ \A o \in Object : heap'[o].status = "completed" => heap'[o].result
  BY <1>1, SaveFacts
<1> HIDE DEF new
<1>3. Locking(new)
  BY <1>2 DEF Locking, CommitSteps, RollbackSteps
<1>4. row \in Sessions /\ (row.status = "completed" => row.result)
  BY <1>1, ImportTypes DEF Consistent, ResultsKept
<1>5. /\ purchased \in Nat /\ Released \in Nat /\ purchased' = purchased
      /\ purchased' \in Nat
      /\ Released' \in Nat /\ Released <= Released' /\ unrecorded' \in Nat
  BY <1>1, ReleasedGrows, ImportTypes DEF AtMostOneUnrecorded
<1>6. Consistent'
  BY <1>1, <1>2, <1>3, <1>4, <1>5, MoveKeeps, ImportTypes
<1>7. ~disturbed => mem \in Object /\ mem # NoObject /\ purchased <= Released + 1
  BY ImportInMemory DEF ImportInv, Undisturbed, ImportedOnce
<1>8. ~disturbed' => ~disturbed /\ mem # NoObject /\ purchased' <= Released' + 1
  BY <1>5, <1>7, StillWithin
<1>9. ~disturbed' /\ purchased' > Released' => heap'[mem].status = "completed"
  BY <1>2, <1>5, <1>7
<1>10. ~disturbed' /\ new.op = "commit" =>
          new.object = mem /\ (new.record.status = "importing" => purchased' <= Released')
  BY <1>2
<1>11. ~disturbed' /\ new.op = "rollback" => purchased' <= Released'
  BY <1>2
<1>12. Undisturbed'
  BY <1>2, <1>3, <1>8, <1>9, <1>10, <1>11, LockedKeeps
<1> QED BY <1>6, <1>12 DEF ImportInv

LEMMA StatusFacts ==
    ASSUME NEW session \in Sessions, NEW status \in ImportStatus
    PROVE  /\ [session EXCEPT !.status = status] \in Sessions
           /\ [session EXCEPT !.status = status].status = status
BY DEF Sessions

\* A commit begins when nothing is in: a finished session refuses it.
LEMMA BeginCommitKeeps ==
    ASSUME ImportInv, NEW h \in ImportRequest, BeginCommit(h) PROVE ImportInv'
<1> DEFINE o == handler[h].object
           session == [heap[o] EXCEPT !.status = "importing"]
<1>1. ImportTypeOK /\ Consistent
  BY DEF ImportInv, Consistent
<1>2. /\ handler[h].op = "commit" /\ handler[h].step = "found"
      /\ disturbed' = (disturbed \/ o # mem)
      /\ mem' = mem /\ row' = row
      /\ UNCHANGED <<importStock, purchased, reverted, rollbacks, unrecorded, requests, crashes>>
  BY DEF BeginCommit, At
<1>3. /\ row \in Sessions /\ (row.status = "completed" => row.result)
      /\ disturbed' \in BOOLEAN /\ (disturbed => disturbed') /\ locked \in BOOLEAN
  BY <1>1, <1>2, ImportTypes DEF Consistent, ResultsKept
<1>4. CASE CommitRefused(heap[o])
  <2>1. End(h) /\ locked' = locked
    BY <1>4 DEF BeginCommit
  <2> QED BY <1>2, <1>3, <2>1, EndKeeps DEF AtMostOneUnrecorded
<1>5. CASE ~CommitRefused(heap[o])
  <2>1. locked' = TRUE /\ Save(h, session)
    BY <1>5 DEF BeginCommit
  <2>2. o \in Object /\ heap[o] \in Sessions /\ (heap[o].status = "completed" => heap[o].result)
    BY <1>1, <1>2, ImportTypes DEF Consistent, ObjectsHeld, ResultsKept
  <2>3. session \in Sessions /\ session.status = "importing"
    BY <2>2, StatusFacts DEF ImportStatus
  <2>4. ~locked /\ heap[o].status # "completed"
    BY <1>5, <2>2 DEF CommitRefused
  <2>5. \A g \in ImportRequest : ~(handler[g].op = "commit" /\ handler[g].step = "applied")
    BY <1>1, <2>4 DEF Consistent, OneUnderLock, Locking, CommitSteps
  <2>6. purchased \in Nat /\ rollbacks \in Nat /\ unrecorded \in Nat
    BY <1>1, ImportTypes
  <2>7. ASSUME ~disturbed' PROVE o = mem /\ purchased <= Released
    <3>1. o = mem /\ GoodsAreTold /\ mem # NoObject
      BY <1>2, <2>7, ImportInMemory DEF ImportInv, Undisturbed
    <3> QED BY <2>4, <2>5, <2>6, <3>1 DEF GoodsAreTold
  <2> HIDE DEF session, o
  <2>8. handler[h].object = o
    BY DEF o
  <2> QED BY <1>2, <1>3, <2>1, <2>3, <2>4, <2>7, <2>8, SaveUnderLockKeeps DEF AtMostOneUnrecorded
<1> QED BY <1>4, <1>5

\* The stock: under the lock, and once.
LEMMA ApplyRowsKeeps ==
    ASSUME ImportInv, NEW h \in ImportRequest, ApplyRows(h) PROVE ImportInv'
<1> DEFINE new == [handler[h] EXCEPT !.step = "applied"]
<1>1. ImportTypeOK /\ Consistent
  BY DEF ImportInv, Consistent
<1>2. /\ handler[h].op = "commit" /\ handler[h].step = "begun"
      /\ purchased' = purchased + 1 /\ importStock' = importStock + 1
      /\ UNCHANGED <<heap, mem, locked, row, reverted, rollbacks, unrecorded, requests, crashes, disturbed>>
  BY DEF ApplyRows, At
<1>3. /\ handler[h] \in Handlers /\ handler \in [ImportRequest -> Handlers]
      /\ handler[h].record.status = "completed" => handler[h].record.result
  BY <1>1, HandlersTyped
<1>4. handler' = [handler EXCEPT ![h] = new]
  BY <1>3 DEF ApplyRows, Goto
<1>5. /\ new \in Handlers /\ new.op = "commit" /\ new.step = "applied"
      /\ new.object = handler[h].object /\ new.record = handler[h].record
  BY <1>2, <1>3 DEF Handlers, Steps
<1> HIDE DEF new
<1>6. Locking(new) /\ Locking(handler[h])
  BY <1>2, <1>5 DEF Locking, CommitSteps
<1>7. /\ new.object \in Object /\ locked
      /\ \A o \in Object : heap[o].status = "completed" => heap[o].result
      /\ row.status = "completed" => row.result
  BY <1>1, <1>2, <1>5, <1>6 DEF Consistent, ObjectsHeld, OneUnderLock, ResultsKept
<1>8. purchased \in Nat /\ rollbacks \in Nat /\ unrecorded \in Nat /\ purchased' \in Nat /\ importStock' \in Nat
  BY <1>1, <1>2, ImportTypes
<1>9. Consistent'
  BY <1>1, <1>2, <1>3, <1>4, <1>5, <1>6, <1>7, <1>8, MoveKeeps, ImportTypes
<1>10. ~disturbed => mem # NoObject /\ handler[h].object = mem /\ purchased <= Released
  BY <1>2 DEF ImportInv, Undisturbed, CommitsHold, CommitSteps
<1>11. ~disturbed' => /\ ~disturbed /\ mem # NoObject /\ new.object = mem
                      /\ purchased' <= Released' + 1
  BY <1>2, <1>5, <1>8, <1>10
<1>12. Undisturbed'
  BY <1>2, <1>4, <1>5, <1>6, <1>11, LockedKeeps
<1> QED BY <1>9, <1>12 DEF ImportInv

\* A commit that throws, before its transaction or after it.
LEMMA GiveUpKeeps ==
    ASSUME ImportInv, NEW h \in ImportRequest, GiveUp(h),
           handler[h].op = "commit", handler[h].step \in {"begun", "applied"},
           ~disturbed => purchased' <= Released',
           UNCHANGED <<mem, row, importStock, purchased, reverted, rollbacks, requests, crashes,
                       disturbed>>,
           AtMostOneUnrecorded
    PROVE  ImportInv'
<1> DEFINE o == handler[h].object
           session == [heap[o] EXCEPT !.status = "preview_ready"]
<1>1. ImportTypeOK /\ Consistent
  BY DEF ImportInv, Consistent
<1>2. /\ mem' = mem /\ row' = row /\ disturbed' = disturbed
      /\ UNCHANGED <<importStock, purchased, reverted, rollbacks, requests, crashes>>
      /\ handler[h].step \notin {"idle", "loading"}
  OBVIOUS
<1>3. /\ row \in Sessions /\ (row.status = "completed" => row.result)
      /\ disturbed \in BOOLEAN /\ locked \in BOOLEAN
  BY <1>1, ImportTypes DEF Consistent, ResultsKept
<1>4. Locking(handler[h]) /\ locked
  BY <1>1 DEF Locking, CommitSteps, Consistent, OneUnderLock
<1>5. CASE heap[o].status = "importing"
  <2>1. Save(h, session) /\ locked' = TRUE
    BY <1>3, <1>4, <1>5 DEF GiveUp
  <2>2. o \in Object /\ heap[o] \in Sessions
    BY <1>1, <1>2, ImportTypes DEF Consistent, ObjectsHeld
  <2>3. session \in Sessions /\ session.status = "preview_ready"
    BY <2>2, StatusFacts DEF ImportStatus
  <2>4. ~disturbed => handler[h].object = mem
    BY DEF ImportInv, Undisturbed, CommitsHold, CommitSteps
  <2> HIDE DEF session, o
  <2> QED BY <1>2, <1>3, <1>4, <2>1, <2>3, <2>4, SaveUnderLockKeeps DEF AtMostOneUnrecorded
<1>6. CASE heap[o].status # "importing"
  <2>1. End(h) /\ locked' = FALSE /\ disturbed' \in BOOLEAN /\ (disturbed => disturbed')
    BY <1>2, <1>3, <1>6 DEF GiveUp, Unlock
  <2>2. ~disturbed' /\ handler[h].op = "commit" /\ handler[h].step = "applied" =>
            purchased' <= Released'
    BY <1>2
  <2> HIDE DEF Released
  <2> QED BY <1>2, <1>3, <1>4, <2>1, <2>2, EndKeeps
<1> QED BY <1>5, <1>6

LEMMA ApplyFailsKeeps ==
    ASSUME ImportInv, NEW h \in ImportRequest, ApplyFails(h) PROVE ImportInv'
<1>1. /\ handler[h].op = "commit" /\ handler[h].step = "begun" /\ GiveUp(h)
      /\ UNCHANGED <<mem, row, importStock, purchased, reverted, rollbacks, requests, crashes,
                     disturbed>>
      /\ unrecorded' = unrecorded
  BY DEF ApplyFails, At, importHistory
<1>2. ~disturbed => purchased' <= Released'
  BY <1>1 DEF ImportInv, Undisturbed, CommitsHold, CommitSteps
<1> QED BY <1>1, <1>2, GiveUpKeeps DEF AtMostOneUnrecorded

LEMMA ReadingFailsKeeps ==
    ASSUME ImportInv, NEW h \in ImportRequest, ReadingFails(h) PROVE ImportInv'
<1>1. /\ handler[h].op = "commit" /\ handler[h].step = "applied" /\ GiveUp(h)
      /\ UNCHANGED <<mem, row, importStock, purchased, reverted, rollbacks, requests, crashes,
                     disturbed>>
      /\ unrecorded' = unrecorded + 1
  BY DEF ReadingFails, At
<1>2. purchased \in Nat /\ rollbacks \in Nat /\ unrecorded \in Nat
  BY ImportTypes DEF ImportInv, Consistent
<1>3. ~disturbed => purchased' <= Released'
  BY <1>1, <1>2 DEF ImportInv, Undisturbed, ImportedOnce
<1> QED BY <1>1, <1>3, GiveUpKeeps DEF AtMostOneUnrecorded

LEMMA FinishCommitKeeps ==
    ASSUME ImportInv, NEW h \in ImportRequest, FinishCommit(h) PROVE ImportInv'
<1> DEFINE session == [status |-> "completed", result |-> TRUE]
<1>1. ImportTypeOK /\ Consistent
  BY DEF ImportInv, Consistent
<1>2. /\ handler[h].op = "commit" /\ handler[h].step = "applied" /\ Save(h, session)
      /\ mem' = mem /\ row' = row /\ disturbed' = disturbed /\ locked' = locked
      /\ UNCHANGED <<importStock, purchased, reverted, rollbacks, unrecorded, requests, crashes>>
  BY DEF FinishCommit, At, importHistory
<1>3. session \in Sessions /\ session.status = "completed" /\ session.result
  BY DEF Sessions, ImportStatus
<1>4. Locking(handler[h]) /\ locked
  BY <1>1, <1>2 DEF Locking, CommitSteps, Consistent, OneUnderLock
<1>5. locked' = TRUE /\ disturbed \in BOOLEAN
  BY <1>1, <1>2, <1>4, ImportTypes
<1>6. ~disturbed => handler[h].object = mem
  BY <1>2 DEF ImportInv, Undisturbed, CommitsHold, CommitSteps
<1> HIDE DEF session
<1> QED BY <1>2, <1>3, <1>4, <1>5, <1>6, SaveUnderLockKeeps DEF AtMostOneUnrecorded

LEMMA ReadMovementsKeeps ==
    ASSUME ImportInv, NEW h \in ImportRequest, ReadMovements(h) PROVE ImportInv'
<1> DEFINE new == [handler[h] EXCEPT !.step = "reverting", !.revert = purchased]
<1>1. ImportTypeOK /\ Consistent
  BY DEF ImportInv, Consistent
<1>2. /\ handler[h].op = "rollback" /\ handler[h].step = "found"
      /\ mem' = mem /\ row' = row /\ disturbed' = disturbed /\ locked' = locked
      /\ UNCHANGED <<importStock, purchased, reverted, rollbacks, unrecorded, requests, crashes>>
  BY DEF ReadMovements, At, importHistory
<1>3. /\ row \in Sessions /\ (row.status = "completed" => row.result)
      /\ disturbed \in BOOLEAN /\ purchased \in Nat
  BY <1>1, ImportTypes DEF Consistent, ResultsKept
<1>4. CASE End(h)
  BY <1>2, <1>3, <1>4, EndKeeps DEF AtMostOneUnrecorded
<1>5. CASE ~End(h)
  <2>1. handler \in [ImportRequest -> Handlers] /\ handler[h] \in Handlers
    BY <1>1, HandlersTyped
  <2>2. handler' = [handler EXCEPT ![h] = new] /\ heap' = heap
    BY <1>5, <2>1 DEF ReadMovements
  <2>3. /\ new \in Handlers /\ new.op = "rollback" /\ new.step = "reverting"
        /\ new.object = handler[h].object /\ new.record = handler[h].record
    BY <1>2, <1>3, <2>1 DEF Handlers, Steps
  <2> HIDE DEF new
  <2>4. ~Locking(new)
    BY <2>3 DEF Locking, RollbackSteps
  <2>5. /\ new.object \in Object /\ (new.record.status = "completed" => new.record.result)
        /\ \A o \in Object : heap[o].status = "completed" => heap[o].result
    BY <1>1, <1>2, <2>3 DEF Consistent, ObjectsHeld, ResultsKept
  <2>6. Consistent'
    BY <1>1, <1>2, <1>3, <2>2, <2>3, <2>4, <2>5, MoveKeeps, ImportTypes
  <2>7. /\ ~disturbed' => ~disturbed /\ mem # NoObject
        /\ ~(handler[h].op = "commit" /\ handler[h].step = "applied")
        /\ heap'[mem] = heap[mem]
    BY <1>2, <2>2, ImportInMemory
  <2>8. Undisturbed'
    BY <1>2, <2>2, <2>3, <2>4, <2>7, QuietKeeps DEF AtMostOneUnrecorded
  <2> QED BY <2>6, <2>8 DEF ImportInv
<1> QED BY <1>4, <1>5

LEMMA LockRollbackKeeps ==
    ASSUME ImportInv, NEW h \in ImportRequest, LockRollback(h) PROVE ImportInv'
<1> DEFINE new == [handler[h] EXCEPT !.step = "locking"]
<1>1. ImportTypeOK /\ Consistent
  BY DEF ImportInv, Consistent
<1>2. /\ handler[h].op = "rollback" /\ handler[h].step = "reverting"
      /\ mem' = mem /\ row' = row /\ disturbed' = disturbed
      /\ UNCHANGED <<importStock, purchased, reverted, rollbacks, unrecorded, requests, crashes>>
  BY DEF LockRollback, At, importHistory
<1>3. /\ row \in Sessions /\ (row.status = "completed" => row.result)
      /\ disturbed \in BOOLEAN /\ purchased \in Nat /\ rollbacks \in Nat /\ unrecorded \in Nat
  BY <1>1, ImportTypes DEF Consistent, ResultsKept
<1>4. CASE locked
  <2>1. End(h) /\ locked' = locked
    BY <1>4 DEF LockRollback
  <2> QED BY <1>2, <1>3, <2>1, EndKeeps DEF AtMostOneUnrecorded
<1>5. CASE ~locked
  <2>1. handler \in [ImportRequest -> Handlers] /\ handler[h] \in Handlers
    BY <1>1, HandlersTyped
  <2>2. handler' = [handler EXCEPT ![h] = new] /\ heap' = heap /\ locked' = TRUE
    BY <1>5, <2>1 DEF LockRollback, Goto
  <2>3. /\ new \in Handlers /\ new.op = "rollback" /\ new.step = "locking"
        /\ new.object = handler[h].object /\ new.record = handler[h].record
    BY <1>2, <2>1 DEF Handlers, Steps
  <2> HIDE DEF new
  <2>4. Locking(new)
    BY <2>3 DEF Locking, RollbackSteps
  <2>5. /\ new.object \in Object /\ (new.record.status = "completed" => new.record.result)
        /\ \A o \in Object : heap[o].status = "completed" => heap[o].result
    BY <1>1, <1>2, <2>3 DEF Consistent, ObjectsHeld, ResultsKept
  <2>6. Consistent'
    BY <1>1, <1>2, <1>3, <1>5, <2>2, <2>3, <2>4, <2>5, MoveKeeps, ImportTypes
  <2>7. ~disturbed => mem # NoObject /\ GoodsAreTold /\ purchased <= Released + 1
    BY <1>2, ImportInMemory DEF ImportInv, Undisturbed, ImportedOnce
  <2>8. \A g \in ImportRequest : ~(handler[g].op = "commit" /\ handler[g].step = "applied")
    BY <1>1, <1>5 DEF Consistent, OneUnderLock, Locking, CommitSteps
  <2>9. ~disturbed' => /\ ~disturbed /\ mem # NoObject /\ purchased' <= Released' + 1
                       /\ purchased' > Released' => heap'[mem].status = "completed"
    BY <1>2, <2>2, <2>7, <2>8 DEF GoodsAreTold
  <2>10. Undisturbed'
    BY <1>2, <1>5, <2>2, <2>3, <2>4, <2>9, LockedKeeps
  <2> QED BY <2>6, <2>10 DEF ImportInv
<1> QED BY <1>4, <1>5

\* Goods that are taken back: from here on the import may come in again.
LEMMA TakeBackKeeps ==
    ASSUME ImportInv, NEW h \in ImportRequest, TakeBack(h) PROVE ImportInv'
<1> DEFINE new == [handler[h] EXCEPT !.step = "taken"]
           units == handler[h].revert
<1>1. ImportTypeOK /\ Consistent
  BY DEF ImportInv, Consistent
<1>2. /\ handler[h].op = "rollback" /\ handler[h].step = "locking"
      /\ mem' = mem /\ row' = row /\ disturbed' = disturbed
      /\ UNCHANGED <<purchased, unrecorded, requests, crashes>>
  BY DEF TakeBack, At
<1>3. /\ row \in Sessions /\ (row.status = "completed" => row.result)
      /\ disturbed \in BOOLEAN /\ purchased \in Nat /\ rollbacks \in Nat /\ unrecorded \in Nat
      /\ reverted \in Nat /\ importStock \in Nat
  BY <1>1, ImportTypes DEF Consistent, ResultsKept
<1>4. Locking(handler[h]) /\ locked
  BY <1>1, <1>2 DEF Locking, RollbackSteps, Consistent, OneUnderLock
<1>5. CASE Gone(units)
  <2>1. End(h) /\ locked' = FALSE /\ UNCHANGED <<importStock, reverted, rollbacks>>
    BY <1>5 DEF TakeBack, Unlock
  <2> QED BY <1>2, <1>3, <1>4, <2>1, EndKeeps DEF AtMostOneUnrecorded
<1>6. CASE ~Gone(units)
  <2>1. handler \in [ImportRequest -> Handlers] /\ handler[h] \in Handlers
    BY <1>1, HandlersTyped
  <2>2. /\ handler' = [handler EXCEPT ![h] = new] /\ heap' = heap /\ locked' = locked
        /\ importStock' = importStock - units /\ reverted' = reverted + units
        /\ rollbacks' = rollbacks + 1
    BY <1>6, <2>1 DEF TakeBack, Goto
  <2>3. /\ new \in Handlers /\ new.op = "rollback" /\ new.step = "taken"
        /\ new.object = handler[h].object /\ new.record = handler[h].record
    BY <1>2, <2>1 DEF Handlers, Steps
  <2>4. units \in Nat /\ units <= importStock
    BY <1>3, <1>6, <2>1 DEF Gone, Handlers
  <2>5. importStock' \in Nat /\ reverted' \in Nat /\ rollbacks' \in Nat
    BY <1>3, <2>2, <2>4
  <2> HIDE DEF new, units
  <2>6. Locking(new)
    BY <2>3 DEF Locking, RollbackSteps
  <2>7. /\ new.object \in Object /\ (new.record.status = "completed" => new.record.result)
        /\ \A o \in Object : heap[o].status = "completed" => heap[o].result
    BY <1>1, <1>2, <2>3 DEF Consistent, ObjectsHeld, ResultsKept
  <2>8. Consistent'
    BY <1>1, <1>2, <1>3, <1>4, <2>2, <2>3, <2>5, <2>6, <2>7, MoveKeeps, ImportTypes
  <2>9. ~disturbed => mem # NoObject /\ purchased <= Released + 1
    BY <1>2, ImportInMemory DEF ImportInv, Undisturbed, ImportedOnce
  <2>10. ~disturbed' => /\ ~disturbed /\ mem # NoObject
                        /\ purchased' <= Released' /\ purchased' <= Released' + 1
                        /\ ~(purchased' > Released')
    BY <1>2, <1>3, <2>2, <2>9
  <2>11. Undisturbed'
    BY <1>2, <1>4, <2>2, <2>3, <2>6, <2>10, LockedKeeps
  <2> QED BY <2>8, <2>11 DEF ImportInv
<1> QED BY <1>5, <1>6

LEMMA FinishRollbackKeeps ==
    ASSUME ImportInv, NEW h \in ImportRequest, FinishRollback(h) PROVE ImportInv'
<1> DEFINE session == [status |-> "rolled_back", result |-> TRUE]
<1>1. ImportTypeOK /\ Consistent
  BY DEF ImportInv, Consistent
<1>2. /\ handler[h].op = "rollback" /\ handler[h].step = "taken" /\ Save(h, session)
      /\ mem' = mem /\ row' = row /\ disturbed' = disturbed /\ locked' = locked
      /\ UNCHANGED <<importStock, purchased, reverted, rollbacks, unrecorded, requests, crashes>>
  BY DEF FinishRollback, At, importHistory
<1>3. session \in Sessions /\ session.status = "rolled_back"
  BY DEF Sessions, ImportStatus
<1>4. Locking(handler[h]) /\ locked
  BY <1>1, <1>2 DEF Locking, RollbackSteps, Consistent, OneUnderLock
<1>5. locked' = TRUE /\ disturbed \in BOOLEAN
  BY <1>1, <1>2, <1>4, ImportTypes
<1>6. ~disturbed => purchased <= Released
  BY <1>2 DEF ImportInv, Undisturbed, RollbacksHold
<1> HIDE DEF session
<1> QED BY <1>2, <1>3, <1>4, <1>5, <1>6, SaveUnderLockKeeps DEF AtMostOneUnrecorded

\* A request that saves without the lock: nothing may be in, or it stays told.
LEMMA SaveFreelyKeeps ==
    ASSUME ImportInv, NEW h \in ImportRequest, NEW session \in Sessions,
           session.status = "completed" => session.result,
           handler[h].step = "found", handler[h].op \notin {"commit", "rollback"},
           Save(h, session),
           UNCHANGED <<mem, locked, row, importStock,
                       purchased, reverted, rollbacks, unrecorded, requests, crashes>>,
           disturbed' \in BOOLEAN, disturbed => disturbed',
           ~disturbed' => purchased <= Released \/ session = heap[handler[h].object]
    PROVE  ImportInv'
<1> DEFINE new == [handler[h] EXCEPT !.step = "writing", !.record = session]
<1>1. ImportTypeOK /\ Consistent
  BY DEF ImportInv, Consistent
<1>2. /\ new \in Handlers /\ handler' = [handler EXCEPT ![h] = new]
      /\ new.step = "writing" /\ new.record = session
      /\ new.op = handler[h].op /\ new.object = handler[h].object
      /\ new.object \in Object
      /\ heap' \in [Object -> Sessions]
      /\ \A o \in Object : heap'[o] = IF o = handler[h].object THEN session ELSE heap[o]
      /\ \A o \in Object : heap'[o].status = "completed" => heap'[o].result
  BY <1>1, SaveFacts
<1> HIDE DEF new
<1>3. ~Locking(new) /\ ~Locking(handler[h])
  BY <1>2 DEF Locking
<1>4. row \in Sessions /\ (row.status = "completed" => row.result)
  BY <1>1, ImportTypes DEF Consistent, ResultsKept
<1>5. Consistent'
  BY <1>1, <1>2, <1>3, <1>4, MoveKeeps, ImportTypes
<1>6. ~disturbed => mem \in Object /\ mem # NoObject
  BY ImportInMemory
<1>7. purchased \in Nat /\ rollbacks \in Nat /\ unrecorded \in Nat
  BY <1>1, ImportTypes
<1>8. ~disturbed' /\ purchased > Released /\ heap[mem].status = "completed" =>
          heap'[mem].status = "completed"
  BY <1>2, <1>6, <1>7
<1>9. Undisturbed'
  BY <1>2, <1>3, <1>6, <1>8, QuietKeeps DEF AtMostOneUnrecorded
<1> QED BY <1>5, <1>9 DEF ImportInv

LEMMA CancelImportKeeps ==
    ASSUME ImportInv, NEW h \in ImportRequest, CancelImport(h) PROVE ImportInv'
<1> DEFINE o == handler[h].object
           session == [heap[o] EXCEPT !.status = "cancelled"]
<1>1. ImportTypeOK /\ Consistent
  BY DEF ImportInv, Consistent
<1>2. /\ handler[h].op = "cancel" /\ handler[h].step = "found" /\ Save(h, session)
      /\ disturbed' = (disturbed \/ locked \/ purchased > Released)
      /\ UNCHANGED <<mem, locked, row, importStock,
                     purchased, reverted, rollbacks, unrecorded, requests, crashes>>
  BY DEF CancelImport, At, PutBack
<1>3. o \in Object /\ heap[o] \in Sessions
  BY <1>1, <1>2, ImportTypes DEF Consistent, ObjectsHeld
<1>4. session \in Sessions /\ session.status = "cancelled"
  BY <1>3, StatusFacts DEF ImportStatus
<1>5. /\ purchased \in Nat /\ rollbacks \in Nat /\ unrecorded \in Nat /\ disturbed' \in BOOLEAN
      /\ disturbed \in BOOLEAN /\ locked \in BOOLEAN
  BY <1>1, <1>2, ImportTypes
<1>6. ~disturbed' => purchased <= Released
  <2>1. ~disturbed' => ~(purchased > Released)
    BY <1>2
  <2> QED BY <1>5, <2>1
<1> HIDE DEF session
<1> QED BY <1>2, <1>4, <1>5, <1>6, SaveFreelyKeeps

LEMMA CreateInventoryKeeps ==
    ASSUME ImportInv, NEW h \in ImportRequest, CreateInventory(h) PROVE ImportInv'
<1> DEFINE session == heap[handler[h].object]
<1>1. ImportTypeOK /\ Consistent
  BY DEF ImportInv, Consistent
<1>2. /\ handler[h].op = "stocktaking" /\ handler[h].step = "found" /\ Save(h, session)
      /\ disturbed' = disturbed
      /\ UNCHANGED <<mem, locked, row, importStock,
                     purchased, reverted, rollbacks, unrecorded, requests, crashes>>
  BY DEF CreateInventory, At, importHistory
<1>3. session \in Sessions /\ (session.status = "completed" => session.result)
  BY <1>1, <1>2, ImportTypes DEF Consistent, ObjectsHeld, ResultsKept
<1>4. disturbed \in BOOLEAN
  BY <1>1, ImportTypes
<1> QED BY <1>2, <1>3, <1>4, SaveFreelyKeeps

LEMMA ValidateImportKeeps ==
    ASSUME ImportInv, NEW h \in ImportRequest, ValidateImport(h) PROVE ImportInv'
<1> DEFINE o == CHOOSE x \in Unused : TRUE
           session == [heap[handler[h].object] EXCEPT !.status = "preview_ready"]
           new == [handler[h] EXCEPT !.step = "writing", !.object = o, !.record = session]
           sessions == [heap EXCEPT ![o] = session]
<1>1. ImportTypeOK /\ Consistent
  BY DEF ImportInv, Consistent
<1>2. handler \in [ImportRequest -> Handlers] /\ handler[h] \in Handlers /\ heap \in [Object -> Sessions]
  BY <1>1, HandlersTyped, ImportTypes
<1>3. /\ handler[h].op = "validate" /\ handler[h].step = "found" /\ o \in Object /\ mem' = o
      /\ heap' = Collected(sessions, mem', handler')
      /\ disturbed' = (disturbed \/ locked \/ purchased > Released)
      /\ UNCHANGED <<locked, row, importStock, purchased, reverted, rollbacks, unrecorded, requests, crashes>>
  BY DEF ValidateImport, At, PutBack, Unused
<1>4. handler' = [handler EXCEPT ![h] = new]
  BY <1>2 DEF ValidateImport
<1>5. heap[handler[h].object] \in Sessions
  BY <1>1, <1>2, <1>3 DEF Consistent, ObjectsHeld
<1>6. session \in Sessions /\ session.status = "preview_ready"
  BY <1>5, StatusFacts DEF ImportStatus
<1> HIDE DEF session, o
<1>7. /\ new \in Handlers /\ new.op = "validate" /\ new.step = "writing"
      /\ new.object = o /\ new.record = session
  BY <1>2, <1>3, <1>6 DEF Handlers, Steps
<1>8. /\ sessions \in [Object -> Sessions]
      /\ \A x \in Object : sessions[x].status = "completed" => sessions[x].result
  BY <1>1, <1>2, <1>3, <1>6 DEF Consistent, ResultsKept
<1> HIDE DEF new, sessions
<1>9. /\ heap' \in [Object -> Sessions]
      /\ \A x \in Object : heap'[x] = sessions[x] \/ heap'[x] = Drafted
  BY <1>3, <1>8, CollectedFacts
<1>10. \A x \in Object : heap'[x].status = "completed" => heap'[x].result
  BY <1>8, <1>9, RestingFacts
<1>11. ~Locking(new) /\ ~Locking(handler[h])
  BY <1>3, <1>7 DEF Locking
<1>12. /\ row \in Sessions /\ (row.status = "completed" => row.result)
       /\ purchased \in Nat /\ rollbacks \in Nat /\ unrecorded \in Nat /\ disturbed' \in BOOLEAN
       /\ disturbed \in BOOLEAN /\ locked \in BOOLEAN
  BY <1>1, <1>3, ImportTypes DEF Consistent, ResultsKept
<1>13. Consistent'
  BY <1>1, <1>3, <1>4, <1>6, <1>7, <1>9, <1>10, <1>11, <1>12, MoveKeeps, ImportTypes
<1>14. \A g \in ImportRequest : handler'[g] = IF g = h THEN new ELSE handler[g]
  BY <1>2, <1>4
<1>15. ASSUME ~disturbed'
       PROVE  (ImportedOnce /\ GoodsAreTold /\ CommitsHold /\ RollbacksHold /\ NothingLoaded)'
  <2>1. ~locked /\ ~(purchased > Released) /\ o # NoObject
    BY <1>3, <1>15, ImportAssumption
  <2>2. \A g \in ImportRequest : ~Locking(handler'[g])
    BY <1>1, <1>11, <1>14, <2>1 DEF Consistent, OneUnderLock
  <2>3. CommitsHold' /\ RollbacksHold'
    BY <2>2 DEF CommitsHold, RollbacksHold, Locking, RollbackSteps
  <2>4. purchased' <= Released' + 1
    BY <1>3, <1>12, <2>1
  <2>5. ImportedOnce' /\ GoodsAreTold' /\ NothingLoaded'
    BY <1>3, <2>1, <2>4 DEF ImportedOnce, GoodsAreTold, NothingLoaded
  <2> QED BY <2>3, <2>5
<1>16. Undisturbed'
  BY <1>15 DEF Undisturbed, ImportedOnce
<1> QED BY <1>13, <1>16 DEF ImportInv

LEMMA RestartKeeps == ASSUME ImportInv, Restart PROVE ImportInv'
<1>1. ImportTypeOK /\ Consistent
  BY DEF ImportInv, Consistent
<1>2. /\ mem' = NoObject /\ locked' = FALSE
      /\ heap' = [o \in Object |-> Drafted]
      /\ handler' = [h \in ImportRequest |-> Resting]
      /\ disturbed' = (disturbed \/ (row.status = "completed") # (purchased > Released))
      /\ crashes' = crashes + 1
      /\ UNCHANGED <<row, importStock, purchased, reverted, rollbacks, unrecorded, requests>>
  BY DEF Restart
<1>3. heap' \in [Object -> Sessions] /\ handler' \in [ImportRequest -> Handlers]
  BY <1>2, RestingFacts
<1>4. disturbed' \in BOOLEAN /\ crashes' \in Nat
  BY <1>1, <1>2, ImportTypes
<1>5. ImportTypeOK'
  BY <1>1, <1>2, <1>3, <1>4 DEF ImportTypeOK
<1>6. (\A h \in ImportRequest : handler'[h] = Resting) /\ (\A o \in Object : heap'[o] = Drafted)
  BY <1>2
<1>7. (ResultsKept /\ ObjectsHeld /\ OneUnderLock)'
  BY <1>1, <1>2, <1>6, RestingFacts DEF Consistent, ResultsKept, ObjectsHeld, OneUnderLock
<1>8. Undisturbed'
  <2>1. ImportedOnce'
    BY <1>2 DEF ImportInv, Undisturbed, ImportedOnce
  <2>2. GoodsAreTold' /\ CommitsHold' /\ RollbacksHold'
    BY <1>2, <1>6, RestingFacts DEF GoodsAreTold, CommitsHold, RollbacksHold, CommitSteps
  <2>3. ~disturbed' => NothingLoaded'
    BY <1>2, <1>6, RestingFacts DEF NothingLoaded
  <2> QED BY <2>1, <2>2, <2>3 DEF Undisturbed
<1> QED BY <1>5, <1>7, <1>8 DEF ImportInv, Consistent

\* What leaves everything but the stock alone.
LEMMA StockAsideKeeps ==
    ASSUME ImportInv, importStock' \in Nat, UNCHANGED <<server, row, importHistory>>
    PROVE  ImportInv'
<1> USE DEF server, importHistory
<1>1. Consistent'
  <2>1. ImportTypeOK'
    BY DEF ImportInv, Consistent, ImportTypeOK
  <2> QED BY <2>1 DEF ImportInv, Consistent, ResultsKept, ObjectsHeld, OneUnderLock
<1>2. Undisturbed'
  BY DEF ImportInv, Undisturbed, ImportedOnce, GoodsAreTold, CommitsHold, RollbacksHold,
         NothingLoaded
<1> QED BY <1>1, <1>2 DEF ImportInv

LEMMA ImportStep == ImportInv /\ [ImportNext]_importVars => ImportInv'
<1> SUFFICES ASSUME ImportInv, [ImportNext]_importVars PROVE ImportInv'
  OBVIOUS
<1>1. importStock \in Nat /\ requests \in Nat
  BY ImportTypes DEF ImportInv, Consistent
<1>2. ASSUME NEW h \in ImportRequest, NEW op \in Ops, Ask(h, op) PROVE ImportInv'
  <2>1. requests' \in Nat
    BY <1>1, <1>2 DEF Ask
  <2> QED BY <1>2, <2>1, LookUpKeeps, StartLoadKeeps DEF Ask
<1>3. ASSUME NEW h \in ImportRequest, Proceed(h) PROVE ImportInv'
  <2>1. CASE FinishLoad(h) \/ WriteRow(h) \/ WriteFails(h)
    BY <2>1, FinishLoadKeeps, WriteRowKeeps, WriteFailsKeeps
  <2>2. CASE \/ BeginCommit(h) \/ ApplyRows(h) \/ ApplyFails(h)
             \/ ReadingFails(h) \/ FinishCommit(h)
    BY <2>2, BeginCommitKeeps, ApplyRowsKeeps, ApplyFailsKeeps, ReadingFailsKeeps,
       FinishCommitKeeps
  <2>3. CASE ReadMovements(h) \/ LockRollback(h) \/ TakeBack(h) \/ FinishRollback(h)
    BY <2>3, ReadMovementsKeeps, LockRollbackKeeps, TakeBackKeeps, FinishRollbackKeeps
  <2>4. CASE CancelImport(h) \/ ValidateImport(h) \/ CreateInventory(h)
    BY <2>4, CancelImportKeeps, ValidateImportKeeps, CreateInventoryKeeps
  <2> QED BY <1>3, <2>1, <2>2, <2>3, <2>4 DEF Proceed
<1>4. CASE Restart
  BY <1>4, RestartKeeps
<1>5. CASE SellImported
  <2>1. importStock' \in Nat
    BY <1>1, <1>5 DEF SellImported
  <2> QED BY <1>5, <2>1, StockAsideKeeps DEF SellImported
<1>6. CASE UNCHANGED importVars
  BY <1>1, <1>6, StockAsideKeeps DEF importVars
<1> QED BY <1>2, <1>3, <1>4, <1>5, <1>6 DEF ImportNext

(* The goods of an import come in once, and once more for every rollback, unless
   somebody has put it back or the server has forgotten it: for any number of
   requests, objects, failures and restarts. *)
THEOREM ImportComesInOnce == ImportSpec => []ImportedOnce
<1>1. ImportInv => ImportedOnce
  BY DEF ImportInv, Undisturbed
<1> QED BY <1>1, ImportBegins, ImportStep, PTL DEF ImportSpec

-----------------------------------------------------------------------------
(* Unless they crossed, whoever is under way has read the subscription as it
   stands, or a block for it that stands, and every paid month lies before its end. *)
PaidBefore ==
    ~crossed =>
        /\ \A e \in Editor : blockRead[e] = "subscription_expired" => subscription.status = "expired"
        /\ \A c \in Clerk : clerk[c].step # "idle" => clerk[c].read = subscription
        /\ \A p \in paid : p.start < subscription.end

\* A job that has blockRead a company over: the months only go on.
SweepsAreDue == \A c \in Clerk : clerk[c].step = "sweep" => Over(clerk[c].read)

SubscriptionInv ==
    SubscriptionTypeOK /\ PaidMonthsCount /\ PaidBefore /\ SweepsAreDue

\* The start of a company: its first month is given.
LEMMA SubscriptionBegins == SubscriptionInit => SubscriptionInv
<1> SUFFICES ASSUME SubscriptionInit PROVE SubscriptionInv
  OBVIOUS
<1>1. NoTask \in Tasks
  BY DEF NoTask, Tasks, Subscribed
<1>2. SubscriptionTypeOK
  <2>1. IsFiniteSet(paid) /\ paid \subseteq [start : Nat, nth : Nat]
    BY FS_EmptySet DEF SubscriptionInit
  <2>2. employee \in [Employee -> Employees]
    BY DEF SubscriptionInit, Employees, Working
  <2>3. month \in 0 .. LastMonth /\ subscription \in Subscribed
    BY SubscriptionAssumption DEF SubscriptionInit, Subscribed
  <2> QED BY <1>1, <2>1, <2>2, <2>3
          DEF SubscriptionInit, SubscriptionTypeOK, CompanyState
<1>3. PaidMonthsCount /\ PaidBefore /\ SweepsAreDue
  BY DEF SubscriptionInit, PaidMonthsCount, PaidBefore, SweepsAreDue, NoTask, NotReading
<1> QED BY <1>2, <1>3 DEF SubscriptionInv

\* Blocking and unblocking keep the rows of the people.
LEMMA EmployeesTyped ==
    ASSUME SubscriptionTypeOK
    PROVE  /\ BlockEmployees => employee' \in [Employee -> Employees]
           /\ UnblockCompanyRows => employee' \in [Employee -> Employees] /\ company' = "active"
<1>1. \A u \in Employee : /\ Unblocked(u) \in Employees
                          /\ [employee[u] EXCEPT !.isActive = FALSE, !.blocked = TRUE] \in Employees
  BY DEF SubscriptionTypeOK, Unblocked, Employees
<1> QED BY <1>1 DEF BlockEmployees, UnblockCompanyRows

\* Reading the subscription: what is read is what stands.
LEMMA AskingKeeps ==
    ASSUME SubscriptionInv, NEW c \in Clerk, NEW what \in {"payment", "renewal", "sweep"},
           what = "sweep" => Over(subscription),
           ReadSubscription(c, what)
    PROVE  SubscriptionInv'
<1> USE DEF SubscriptionInv
<1>1. clerk' = [clerk EXCEPT ![c] = [step |-> what, read |-> subscription]]
  BY DEF ReadSubscription
<1>2. UNCHANGED <<month, subscription, company, employee, paid, blockRead, crossed>>
  BY DEF ReadSubscription
<1>3. [step |-> what, read |-> subscription] \in Tasks
  BY DEF SubscriptionTypeOK, Tasks
<1>4. clerk' \in [Clerk -> Tasks]
  BY <1>1, <1>3 DEF SubscriptionTypeOK
<1>5. \A d \in Clerk : clerk'[d] = IF d = c THEN [step |-> what, read |-> subscription] ELSE clerk[d]
  BY <1>1 DEF SubscriptionTypeOK
<1>6. SubscriptionTypeOK'
  BY <1>2, <1>4 DEF SubscriptionTypeOK
<1>7. PaidMonthsCount'
  BY <1>2 DEF PaidMonthsCount, Over
<1>8. PaidBefore'
  BY <1>2, <1>5 DEF PaidBefore
<1>9. SweepsAreDue'
  BY <1>2, <1>5 DEF SweepsAreDue, Over
<1> QED BY <1>6, <1>7, <1>8, <1>9

\* What a task leaves of the clerks, whatever it wrote.
LEMMA DoneKeeps ==
    ASSUME SubscriptionInv, NEW c \in Clerk, clerk[c].step # "idle", TaskDone(c)
    PROVE  /\ clerk' \in [Clerk -> Tasks] /\ crossed' \in BOOLEAN /\ month' = month
           /\ blockRead' = blockRead
           /\ ~crossed' => /\ ~crossed
                           /\ \A d \in Clerk : clerk'[d].step = "idle"
                           /\ \A e \in Editor : blockRead'[e] = NotReading
           /\ SweepsAreDue'
<1> USE DEF SubscriptionInv
<1>1. NoTask \in Tasks /\ NoTask.step = "idle"
  BY DEF NoTask, Tasks, Subscribed
<1>2. clerk' = [clerk EXCEPT ![c] = NoTask] /\ clerk \in [Clerk -> Tasks]
  BY DEF TaskDone, SubscriptionTypeOK
<1>3. \A d \in Clerk : clerk'[d] = IF d = c THEN NoTask ELSE clerk[d]
  BY <1>2
<1>4. /\ month' = month /\ blockRead' = blockRead
      /\ crossed' = \/ crossed
                    \/ \E d \in Clerk \ {c} : clerk[d].step # "idle"
                    \/ \E e \in Editor : blockRead[e] # NotReading
  BY DEF TaskDone
<1>5. SweepsAreDue'
  BY <1>1, <1>3, <1>4 DEF SweepsAreDue, Over
<1>6. crossed' \in BOOLEAN
  BY <1>4 DEF SubscriptionTypeOK
<1>7. clerk' \in [Clerk -> Tasks]
  BY <1>1, <1>2
<1>8. ~crossed' => \A d \in Clerk : clerk'[d].step = "idle"
  BY <1>1, <1>3, <1>4
<1>9. ~crossed' => ~crossed
  BY <1>4 DEF SubscriptionTypeOK
<1>10. ~crossed' => \A e \in Editor : blockRead'[e] = NotReading
  BY <1>4
<1> QED BY <1>4, <1>5, <1>6, <1>7, <1>8, <1>9, <1>10

\* A month that is added begins after every month that was paid.
LEMMA ExtendedFacts ==
    ASSUME SubscriptionInv, NEW c \in Clerk, clerk[c].step # "idle"
    PROVE  LET read == clerk[c].read
           IN  /\ PeriodStart(read) \in Nat
               /\ Extended(read) \in Subscribed /\ Extended(read).status = "active"
               /\ Extended(read).end = PeriodStart(read) + 1
               /\ ~crossed => \A p \in paid : p.start < PeriodStart(read)
<1> USE DEF SubscriptionInv
<1> DEFINE read == clerk[c].read
<1>1. read \in Subscribed /\ month \in Nat
  BY SubscriptionAssumption DEF SubscriptionTypeOK, Tasks
<1>2. read.end \in Nat /\ PeriodStart(read) \in Nat
  BY <1>1 DEF Subscribed, PeriodStart
<1>3. Extended(read) \in Subscribed
  BY <1>2 DEF Extended, Subscribed
<1>4. ASSUME ~crossed, NEW p \in paid PROVE p.start < PeriodStart(read)
  <2>1. read = subscription
    BY <1>4 DEF PaidBefore
  <2>2. p.start < read.end /\ p.start \in Nat
    BY <1>4, <2>1 DEF PaidBefore, SubscriptionTypeOK
  <2>3. CASE Running(read)
    BY <2>2, <2>3 DEF PeriodStart
  <2>4. CASE ~Running(read)
    <3>1. read.status \in {"active", "expired"}
      BY <1>1 DEF Subscribed
    <3>2. Over(read)
      BY <1>4, <2>1, <2>4, <3>1 DEF Running, PaidMonthsCount
    <3> QED BY <1>1, <1>2, <2>2, <2>4, <3>2 DEF PeriodStart, Over
  <2> QED BY <2>3, <2>4
<1> QED BY <1>2, <1>3, <1>4 DEF Extended

\* A payment: its month is a new one.
LEMMA PaymentKeeps ==
    ASSUME SubscriptionInv, NEW c \in Clerk, CreatePayment(c) PROVE SubscriptionInv'
<1> USE DEF SubscriptionInv
<1> DEFINE read == clerk[c].read
           new == [start |-> PeriodStart(read), nth |-> Cardinality(paid)]
<1>1. /\ clerk[c].step # "idle" /\ paid' = paid \cup {new}
      /\ subscription' = Extended(read) /\ UnblockCompanyRows /\ TaskDone(c)
  BY DEF CreatePayment
<1>2. /\ PeriodStart(read) \in Nat
      /\ Extended(read) \in Subscribed /\ Extended(read).status = "active"
      /\ Extended(read).end = PeriodStart(read) + 1
      /\ ~crossed => \A p \in paid : p.start < PeriodStart(read)
  BY <1>1, ExtendedFacts
<1>3. /\ clerk' \in [Clerk -> Tasks] /\ crossed' \in BOOLEAN /\ month' = month
      /\ blockRead' = blockRead
      /\ ~crossed' => /\ ~crossed /\ \A d \in Clerk : clerk'[d].step = "idle"
                      /\ \A e \in Editor : blockRead'[e] = NotReading
      /\ SweepsAreDue'
  BY <1>1, DoneKeeps
<1>4. employee' \in [Employee -> Employees] /\ company' = "active"
  BY <1>1, EmployeesTyped
<1>5. new \in [start : Nat, nth : Nat]
  BY <1>2, FS_CardinalityType DEF SubscriptionTypeOK
<1>6. IsFiniteSet(paid')
  BY <1>1, FS_AddElement DEF SubscriptionTypeOK
<1>7. paid' \subseteq [start : Nat, nth : Nat]
  BY <1>1, <1>5 DEF SubscriptionTypeOK
<1>8. SubscriptionTypeOK'
  BY <1>1, <1>2, <1>3, <1>4, <1>6, <1>7 DEF SubscriptionTypeOK, CompanyState
<1>9. ~crossed' => \A p, q \in paid' : p.start = q.start => p = q
  <2> SUFFICES ASSUME ~crossed', NEW p \in paid', NEW q \in paid', p.start = q.start PROVE p = q
    OBVIOUS
  <2>1. /\ \A r \in paid : r.start < PeriodStart(read) /\ r.start \in Nat
        /\ \A r, s \in paid : r.start = s.start => r = s
    BY <1>2, <1>3 DEF PaidMonthsCount, SubscriptionTypeOK
  <2>2. new.start = PeriodStart(read)
    OBVIOUS
  <2> QED BY <1>1, <1>2, <2>1, <2>2
<1>10. PaidMonthsCount'
  BY <1>1, <1>2, <1>4, <1>9 DEF PaidMonthsCount
<1>11. ~crossed' => \A p \in paid' : p.start < subscription'.end
  <2> SUFFICES ASSUME ~crossed', NEW p \in paid' PROVE p.start < PeriodStart(read) + 1
    BY <1>1, <1>2
  <2>1. \A r \in paid : r.start < PeriodStart(read) /\ r.start \in Nat
    BY <1>2, <1>3 DEF SubscriptionTypeOK
  <2>2. new.start = PeriodStart(read)
    OBVIOUS
  <2> QED BY <1>1, <1>2, <2>1, <2>2
<1>12. PaidBefore'
  BY <1>3, <1>11 DEF PaidBefore, NotReading
<1> QED BY <1>3, <1>8, <1>10, <1>12

\* A renewal: the same without a payment.
LEMMA RenewalKeeps ==
    ASSUME SubscriptionInv, NEW c \in Clerk, Renew(c) PROVE SubscriptionInv'
<1> USE DEF SubscriptionInv
<1> DEFINE read == clerk[c].read
<1>1. /\ clerk[c].step # "idle" /\ paid' = paid
      /\ subscription' = Extended(read) /\ UnblockCompanyRows /\ TaskDone(c)
  BY DEF Renew
<1>2. /\ PeriodStart(read) \in Nat
      /\ Extended(read) \in Subscribed /\ Extended(read).status = "active"
      /\ Extended(read).end = PeriodStart(read) + 1
      /\ ~crossed => \A p \in paid : p.start < PeriodStart(read)
  BY <1>1, ExtendedFacts
<1>3. /\ clerk' \in [Clerk -> Tasks] /\ crossed' \in BOOLEAN /\ month' = month
      /\ blockRead' = blockRead
      /\ ~crossed' => /\ ~crossed /\ \A d \in Clerk : clerk'[d].step = "idle"
                      /\ \A e \in Editor : blockRead'[e] = NotReading
      /\ SweepsAreDue'
  BY <1>1, DoneKeeps
<1>4. employee' \in [Employee -> Employees] /\ company' = "active"
  BY <1>1, EmployeesTyped
<1>5. SubscriptionTypeOK'
  BY <1>1, <1>2, <1>3, <1>4 DEF SubscriptionTypeOK, CompanyState
<1>6. PaidMonthsCount'
  BY <1>1, <1>2, <1>3, <1>4 DEF PaidMonthsCount
<1>7. \A p \in paid : p.start \in Nat
  BY DEF SubscriptionTypeOK
<1>8. PaidBefore'
  BY <1>1, <1>2, <1>3, <1>7 DEF PaidBefore, NotReading
<1> QED BY <1>3, <1>5, <1>6, <1>8

\* The job: what it has read is over, and unless it was crossed it still is.
LEMMA SweepKeeps ==
    ASSUME SubscriptionInv, NEW c \in Clerk, Sweep(c) PROVE SubscriptionInv'
<1> USE DEF SubscriptionInv
<1>1. /\ clerk[c].step = "sweep" /\ paid' = paid
      /\ subscription' = Expired(subscription) /\ company' = "subscription_expired"
      /\ BlockEmployees /\ TaskDone(c)
  BY DEF Sweep
<1>2. /\ clerk' \in [Clerk -> Tasks] /\ crossed' \in BOOLEAN /\ month' = month
      /\ blockRead' = blockRead
      /\ ~crossed' => /\ ~crossed /\ \A d \in Clerk : clerk'[d].step = "idle"
                      /\ \A e \in Editor : blockRead'[e] = NotReading
      /\ SweepsAreDue'
  BY <1>1, DoneKeeps
<1>3. employee' \in [Employee -> Employees]
  BY <1>1, EmployeesTyped
<1>4. /\ subscription' \in Subscribed /\ subscription'.status = "expired"
      /\ subscription'.end = subscription.end
  BY <1>1 DEF Expired, SubscriptionTypeOK, Subscribed
<1>5. SubscriptionTypeOK'
  BY <1>1, <1>2, <1>3, <1>4 DEF SubscriptionTypeOK, CompanyState
<1>6. ~crossed' => Over(subscription)
  BY <1>1, <1>2 DEF PaidBefore, SweepsAreDue
<1>7. PaidMonthsCount'
  BY <1>1, <1>2, <1>4, <1>6 DEF PaidMonthsCount, Over
<1>8. PaidBefore'
  BY <1>1, <1>2, <1>4 DEF PaidBefore, NotReading
<1> QED BY <1>2, <1>5, <1>7, <1>8

\* What does not touch the subscription, the payments or the clerks.
LEMMA AsideKeeps ==
    ASSUME SubscriptionInv, UNCHANGED <<subscription, paid, clerk, crossed>>,
           month' \in month .. LastMonth,
           company' \in CompanyState,
           blockRead' \in [Editor -> CompanyState \cup {NotReading}],
           ~crossed /\ company' = "subscription_expired" => subscription.status = "expired",
           ~crossed => \A e \in Editor :
               blockRead'[e] = "subscription_expired" => subscription.status = "expired",
           employee' \in [Employee -> Employees]
    PROVE  SubscriptionInv'
<1> USE DEF SubscriptionInv
<1>1. month \in Nat /\ month' \in Nat /\ month' \in 0 .. LastMonth /\ month <= month'
  BY SubscriptionAssumption DEF SubscriptionTypeOK
<1>2. SubscriptionTypeOK'
  BY <1>1 DEF SubscriptionTypeOK
<1>3. subscription.end \in Nat /\ \A c \in Clerk : clerk[c].read.end \in Nat
  BY DEF SubscriptionTypeOK, Tasks, Subscribed
<1>4. Over(subscription) => Over(subscription)'
  BY <1>1, <1>3 DEF Over
<1>5. PaidMonthsCount'
  BY <1>4 DEF PaidMonthsCount
<1>6. PaidBefore'
  BY DEF PaidBefore
<1>7. SweepsAreDue'
  <2> SUFFICES ASSUME NEW c \in Clerk, clerk[c].step = "sweep" PROVE clerk[c].read.end < month'
    BY DEF SweepsAreDue, Over
  <2>1. clerk[c].read.end < month
    BY DEF SweepsAreDue, Over
  <2> QED BY <1>1, <1>3, <2>1
<1> QED BY <1>2, <1>5, <1>6, <1>7

LEMMA SubscriptionStep ==
    SubscriptionInv /\ [SubscriptionNext]_subscriptionVars => SubscriptionInv'
<1> SUFFICES ASSUME SubscriptionInv, [SubscriptionNext]_subscriptionVars PROVE SubscriptionInv'
  OBVIOUS
<1>1. /\ SubscriptionTypeOK /\ month \in month .. LastMonth
      /\ company \in CompanyState /\ employee \in [Employee -> Employees]
      /\ blockRead \in [Editor -> CompanyState \cup {NotReading}]
      /\ ~crossed /\ company = "subscription_expired" => subscription.status = "expired"
      /\ ~crossed => \A e \in Editor :
             blockRead[e] = "subscription_expired" => subscription.status = "expired"
  BY SubscriptionAssumption
     DEF SubscriptionInv, SubscriptionTypeOK, PaidMonthsCount, PaidBefore
<1>2. ASSUME NEW c \in Clerk, AskPayment(c) \/ AskRenewal(c) \/ AskSweep(c)
      PROVE  SubscriptionInv'
  <2>1. CASE AskPayment(c)
    BY <2>1, AskingKeeps DEF AskPayment
  <2>2. CASE AskRenewal(c)
    BY <2>2, AskingKeeps DEF AskRenewal
  <2>3. CASE AskSweep(c)
    BY <2>3, AskingKeeps DEF AskSweep, Expiring
  <2> QED BY <1>2, <2>1, <2>2, <2>3
<1>3. ASSUME NEW c \in Clerk, FinishTask(c) PROVE SubscriptionInv'
  BY <1>3, PaymentKeeps, RenewalKeeps, SweepKeeps DEF FinishTask
<1>4. CASE BlockCompany
  BY <1>1, <1>4, AsideKeeps, EmployeesTyped DEF BlockCompany, CompanyState
<1>5. CASE UnblockCompany
  BY <1>1, <1>5, AsideKeeps, EmployeesTyped DEF UnblockCompany, CompanyState
<1>6. ASSUME NEW e \in Editor, AskUpdate(e) \/ \E b \in BOOLEAN : UpdateCompany(e, b)
      PROVE  SubscriptionInv'
  <2>1. CASE AskUpdate(e)
    <3>1. /\ blockRead' = [blockRead EXCEPT ![e] = company]
          /\ UNCHANGED <<month, subscription, company, employee, paid, clerk, crossed>>
      BY <2>1 DEF AskUpdate
    <3>2. blockRead' \in [Editor -> CompanyState \cup {NotReading}]
      BY <1>1, <3>1
    <3>3. \A d \in Editor : blockRead'[d] = IF d = e THEN company ELSE blockRead[d]
      BY <1>1, <3>1
    <3> QED BY <1>1, <3>1, <3>2, <3>3, AsideKeeps
  <2>2. ASSUME NEW b \in BOOLEAN, UpdateCompany(e, b) PROVE SubscriptionInv'
    <3>1. /\ blockRead[e] # NotReading /\ blockRead' = [blockRead EXCEPT ![e] = NotReading]
          /\ company' \in {"active", "manual", blockRead[e]}
          /\ UNCHANGED <<month, subscription, employee, paid, clerk, crossed>>
      BY <2>2 DEF UpdateCompany
    <3>2. blockRead' \in [Editor -> CompanyState \cup {NotReading}] /\ blockRead[e] \in CompanyState
      BY <1>1, <3>1
    <3>3. \A d \in Editor : blockRead'[d] = IF d = e THEN NotReading ELSE blockRead[d]
      BY <1>1, <3>1
    <3>4. company' \in CompanyState
      BY <3>1, <3>2 DEF CompanyState
    <3> QED BY <1>1, <3>1, <3>2, <3>3, <3>4, AsideKeeps DEF NotReading
  <2> QED BY <1>6, <2>1, <2>2
<1>7. ASSUME NEW u \in Employee, NEW new \in Employees, SetEmployee(u, new)
      PROVE  SubscriptionInv'
  BY <1>1, <1>7, AsideKeeps DEF SetEmployee
<1>8. ASSUME NEW u \in Employee, NEW b \in BOOLEAN, UpdateStatus(u, b) \/ CreateUser(u, b)
      PROVE  SubscriptionInv'
  BY <1>1, <1>7, <1>8 DEF UpdateStatus, CreateUser, Employees
<1>9. ASSUME NEW u \in Employee, RemoveUser(u) \/ RestoreUser(u) PROVE SubscriptionInv'
  BY <1>1, <1>7, <1>9 DEF RemoveUser, RestoreUser, Employees
<1>10. CASE NextMonth
  <2>1. month' \in month .. LastMonth
    BY <1>1, <1>10, SubscriptionAssumption DEF NextMonth, SubscriptionTypeOK
  <2> QED BY <1>1, <1>10, <2>1, AsideKeeps DEF NextMonth
<1>11. CASE UNCHANGED subscriptionVars
  BY <1>1, <1>11, AsideKeeps DEF subscriptionVars
<1> QED BY <1>2, <1>3, <1>4, <1>5, <1>6, <1>8, <1>9, <1>10, <1>11 DEF SubscriptionNext

(* Unless two of payment, renewal and job ran at once, or one of them ended while
   an update of the company was under way, every payment buys a month of its own, only what is over expires and only what expired is blocked for it. *)
THEOREM PaidMonths == SubscriptionSpec => []PaidMonthsCount
<1>1. SubscriptionInv => PaidMonthsCount
  BY DEF SubscriptionInv
<1> QED BY <1>1, SubscriptionBegins, SubscriptionStep, PTL DEF SubscriptionSpec

-----------------------------------------------------------------------------
(* Both parts of the server keep the types of their rows, objects and requests,
   whichever of them a behaviour is about. *)
THEOREM ServerTypes == ServerSpec => []ServerTypeOK
<1>1. ServerInit => ImportInv /\ SubscriptionInv
  BY ImportBegins, SubscriptionBegins DEF ServerInit
<1>2. ImportInv /\ SubscriptionInv /\ [ServerNext]_serverPartVars
          => ImportInv' /\ SubscriptionInv'
  BY ImportStep, SubscriptionStep DEF ServerNext, serverPartVars
<1>3. ImportInv /\ SubscriptionInv => ServerTypeOK
  BY DEF ServerTypeOK, ImportInv, Consistent, SubscriptionInv
<1> QED BY <1>1, <1>2, <1>3, PTL DEF ServerSpec

=============================================================================
