--------------------------- MODULE JitAccessProofs ---------------------------
(***************************************************************************)
(* Type correctness of JitAccess and the coherence of its table, for every *)
(* number of users, requests, handlers, restarts and failures.             *)
(*                                                                         *)
(* RowsCoherent is not inductive: an Update writes a goroutine's copy over *)
(* the stored row, so the copies must be coherent too, and agree with the  *)
(* table on what no statement changes.  That is CopiesFit; a copy stays    *)
(* fit because it is constant and the clock only advances.                 *)
(***************************************************************************)
EXTENDS JitAccess, TLAPS

Keyed == \A r \in Req : requests[r] # Null => requests[r].id = r

StoredCoherent == \A r \in Req : requests[r] # Null => Coherent(requests[r])

IInv == TypeOK /\ Keyed /\ StoredCoherent /\ CopiesFit

-----------------------------------------------------------------------------
(* The frame of a step: what it writes, and which action writes it.        *)
LEMMA HandlerWrites ==
  ASSUME NEW s, HandlerStep(s)
  PROVE  /\ UNCHANGED <<envVars, sweepVars>>
         /\ UNCHANGED requests \/ ExpireStore(s) \/ ApproveStore(s) \/ ReleaseStore(s)
         /\ UNCHANGED member \/ ApproveAdd(s) \/ ReleaseRemove(s)
         /\ \/ UNCHANGED audit
            \/ CreateAudit(s) \/ ExpireAudit(s) \/ ApproveAudit(s) \/ ApproveAuditGrant(s)
            \/ ReleaseAudit(s)
         /\ \/ UNCHANGED notified
            \/ CreateNotify(s) \/ ExpireNotify(s) \/ ApproveNotify(s) \/ ReleaseNotify(s)
<1>1. CASE ApproveDecide(s)
  BY <1>1 DEF ApproveDecide, storeVars, noteVars
<1>2. CASE ExpireStore(s) \/ ApproveStore(s)
  BY <1>2 DEF ExpireStore, ApproveStore, noteVars
<1>3. CASE ReleaseStore(s)
  BY <1>3 DEF ReleaseStore, EndStore, noteVars
<1>4. CASE ApproveAdd(s) \/ ReleaseRemove(s)
  BY <1>4 DEF ApproveAdd, ReleaseRemove, storeVars, noteVars
<1>5. CASE CreateAudit(s) \/ ApproveAudit(s)
  BY <1>5 DEF CreateAudit, ApproveAudit, noteVars
<1>6. CASE ExpireAudit(s) \/ ApproveAuditGrant(s) \/ ReleaseAudit(s)
  BY <1>6 DEF ExpireAudit, ApproveAuditGrant, ReleaseAudit, noteVars
<1>7. CASE CreateNotify(s) \/ ExpireNotify(s) \/ ApproveNotify(s) \/ ReleaseNotify(s)
  <2>1. UNCHANGED <<storeVars, member, envVars, sweepVars>>
    BY <1>7 DEF CreateNotify, ExpireNotify, ApproveNotify, ReleaseNotify, Notify
  <2>2. QED
    BY <1>7, <2>1 DEF storeVars
<1>8. CASE Post(s)
  BY <1>8 DEF Post, N!Post, storeVars
<1>9. QED
  BY <1>1, <1>2, <1>3, <1>4, <1>5, <1>6, <1>7, <1>8 DEF HandlerStep

LEMMA ReconcileWrites ==
  ASSUME ReconcileStep
  PROVE  /\ UNCHANGED now
         /\ UNCHANGED requests \/ RevokeStore \/ \E x \in todo : ExpireRow(x)
         /\ UNCHANGED member \/ \E x \in todo : RevokeRow(x)
         /\ UNCHANGED audit \/ ExpireAudit(Worker) \/ RevokeAudit
         /\ UNCHANGED notified \/ ExpireNotify(Worker) \/ RevokeNotify
         /\ todo' \subseteq todo \/ Reconcile \/ ReconcileActive
<1>1. CASE Reconcile \/ ReconcileActive
  BY <1>1 DEF Reconcile, ReconcileActive, storeVars, noteVars, envVars
<1>2. ASSUME NEW x \in todo, ExpireRow(x)
      PROVE  UNCHANGED <<member, audit, notified, now>> /\ todo' \subseteq todo
  BY <1>2 DEF ExpireRow, noteVars, envVars
<1>3. ASSUME NEW x \in todo, RevokeRow(x)
      PROVE  UNCHANGED <<requests, audit, notified, now>> /\ todo' \subseteq todo
  BY <1>3 DEF RevokeRow, storeVars, noteVars, envVars
<1>4. CASE ExpireAudit(Worker) \/ RevokeAudit
  BY <1>4 DEF ExpireAudit, RevokeAudit, noteVars, envVars, sweepVars
<1>5. CASE ExpireNotify(Worker) \/ RevokeNotify
  <2>1. UNCHANGED <<storeVars, member, envVars, sweepVars>>
    BY <1>5 DEF ExpireNotify, RevokeNotify, Notify
  <2>2. QED
    BY <1>5, <2>1 DEF storeVars, envVars, sweepVars
<1>6. CASE RevokeStore
  BY <1>6 DEF RevokeStore, EndStore, noteVars, envVars, sweepVars
<1>7. CASE Post(Worker)
  BY <1>7 DEF Post, N!Post, storeVars, envVars, sweepVars
<1>8. CASE ReconcileReturn
  BY <1>8 DEF ReconcileReturn, storeVars, noteVars
<1>9. QED
  BY <1>1, <1>2, <1>3, <1>4, <1>5, <1>6, <1>7, <1>8 DEF ReconcileStep

(* A call takes a row in hand; only a create writes one. *)
LEMMA CallWrites ==
  ASSUME NEW s, NEW r,
         \/ \E a \in User \cup {Null}, u \in User : HandleCreate(s, a, u, r)
         \/ \E a \in User : HandleApprove(s, a, r)
         \/ \E a \in User \cup {Null} : HandleRelease(s, a, r)
  PROVE  /\ UNCHANGED <<audit, noteVars, member, envVars, sweepVars>>
         /\ \/ UNCHANGED requests
            \/ \E a \in User \cup {Null}, u \in User : HandleCreate(s, a, u, r)
<1>1. CASE \E a \in User \cup {Null}, u \in User : HandleCreate(s, a, u, r)
  BY <1>1 DEF HandleCreate
<1>2. CASE \/ \E a \in User : HandleApprove(s, a, r)
           \/ \E a \in User \cup {Null} : HandleRelease(s, a, r)
  BY <1>2 DEF HandleApprove, HandleRelease, storeVars
<1>3. QED
  BY <1>1, <1>2

(* What is neither a call, nor a handler, nor the reconciler. *)
LEMMA OtherWrites ==
  ASSUME \/ (\E a \in User : HandleMe(a)) \/ Start \/ Stop \/ Tick
         \/ (\E u \in Removals : RealmRemove(u)) \/ UNCHANGED vars
  PROVE  /\ UNCHANGED <<requests, notified>>
         /\ UNCHANGED member \/ \E u \in Removals : RealmRemove(u)
         /\ UNCHANGED audit \/ \E a \in User : HandleMe(a)
         /\ UNCHANGED now \/ Tick
         /\ todo' \subseteq todo
<1>1. CASE \E a \in User : HandleMe(a)
  BY <1>1 DEF HandleMe, noteVars, envVars, sweepVars
<1>2. CASE Stop
  BY <1>2 DEF Stop, N!Crash, storeVars
<1>3. CASE Start \/ Tick \/ \E u \in Removals : RealmRemove(u)
  BY <1>3 DEF Start, Tick, RealmRemove, storeVars, noteVars, envVars, sweepVars
<1>4. CASE UNCHANGED vars
  BY <1>4 DEF vars, storeVars, noteVars, envVars, sweepVars
<1>5. QED
  BY <1>1, <1>2, <1>3, <1>4

LEMMA TableWriters ==
  ASSUME [Next]_vars
  PROVE  \/ UNCHANGED requests
         \/ \E s \in Slot, r \in Req, a \in User \cup {Null}, u \in User :
              HandleCreate(s, a, u, r)
         \/ \E s \in Slot : /\ HandlerStep(s)
                            /\ ExpireStore(s) \/ ApproveStore(s) \/ ReleaseStore(s)
         \/ ReconcileStep /\ (RevokeStore \/ \E x \in todo : ExpireRow(x))
BY HandlerWrites, ReconcileWrites, CallWrites, OtherWrites DEF Next

LEMMA GroupWriters ==
  ASSUME [Next]_vars
  PROVE  \/ UNCHANGED member
         \/ \E s \in Slot : HandlerStep(s) /\ (ApproveAdd(s) \/ ReleaseRemove(s))
         \/ ReconcileStep /\ \E x \in todo : RevokeRow(x)
         \/ \E u \in Removals : RealmRemove(u)
BY HandlerWrites, ReconcileWrites, CallWrites, OtherWrites DEF Next

LEMMA LedgerWriters ==
  ASSUME [Next]_vars
  PROVE  \/ UNCHANGED audit
         \/ \E a \in User : HandleMe(a)
         \/ \E s \in Slot : \/ CreateAudit(s) \/ ExpireAudit(s) \/ ApproveAudit(s)
                            \/ ApproveAuditGrant(s) \/ ReleaseAudit(s)
         \/ ExpireAudit(Worker) \/ RevokeAudit
BY HandlerWrites, ReconcileWrites, CallWrites, OtherWrites DEF Next

LEMMA NoteWriters ==
  ASSUME [Next]_vars
  PROVE  \/ UNCHANGED notified
         \/ \E s \in Slot : \/ CreateNotify(s) \/ ExpireNotify(s) \/ ApproveNotify(s)
                            \/ ReleaseNotify(s)
         \/ ExpireNotify(Worker) \/ RevokeNotify
<1>1. UNCHANGED noteVars => UNCHANGED notified
  BY DEF noteVars
<1>2. QED
  BY <1>1, HandlerWrites, ReconcileWrites, CallWrites, OtherWrites DEF Next

LEMMA QueryWriters ==
  ASSUME [Next]_vars
  PROVE  todo' \subseteq todo \/ Reconcile \/ ReconcileActive
<1>1. UNCHANGED sweepVars => todo' \subseteq todo
  BY DEF sweepVars
<1>2. QED
  BY <1>1, HandlerWrites, ReconcileWrites, CallWrites, OtherWrites DEF Next

LEMMA ClockWriters ==
  ASSUME [Next]_vars
  PROVE  UNCHANGED now \/ Tick
<1>1. UNCHANGED envVars => UNCHANGED now
  BY DEF envVars
<1>2. QED
  BY <1>1, HandlerWrites, ReconcileWrites, CallWrites, OtherWrites DEF Next

-----------------------------------------------------------------------------
(* The parts of a step.                                                    *)

(* The table after a step: typed, keyed, coherent, and no request lost its *)
(* user or its deadline.                                                   *)
KeepsRequests ==
  \A r \in Req : requests[r] # Null =>
    /\ requests'[r] # Null
    /\ requests'[r].user = requests[r].user
    /\ requests'[r].requestExpiresAt = requests[r].requestExpiresAt

TableStep == /\ requests' \in [Req -> Row \cup {Null}]
             /\ Keyed' /\ StoredCoherent' /\ KeepsRequests

ClockStep == now' \in Nat /\ now <= now'

LEMMA CoherentLater ==
  ASSUME NEW x \in Row, Coherent(x), now \in Nat, ClockStep
  PROVE  Coherent(x)'
<1>1. /\ x.requestExpiresAt \in Nat
      /\ x.releasedAt \in Nat \cup {Null}
  BY DEF Row
<1>2. QED
  BY <1>1, NullAssumption DEF Coherent, ClockStep, NullAssumption

LEMMA FitsLater ==
  ASSUME NEW x \in Row, Fits(x), now \in Nat, ClockStep, KeepsRequests
  PROVE  Fits(x)'
<1>1. x.id \in Req
  BY DEF Row
<1>2. SameRequest(x)'
  BY <1>1 DEF Fits, SameRequest, KeepsRequests
<1>3. QED
  BY <1>2, CoherentLater DEF Fits

(* A step that leaves the table alone. *)
LEMMA TableUnchanged ==
  ASSUME IInv, UNCHANGED requests, ClockStep
  PROVE  TableStep
<1>1. requests \in [Req -> Row \cup {Null}] /\ now \in Nat
  BY DEF IInv, TypeOK
<1>2. StoredCoherent'
  <2> SUFFICES ASSUME NEW r \in Req, requests[r] # Null
               PROVE  Coherent(requests[r])'
    BY DEF StoredCoherent
  <2>1. requests[r] \in Row /\ Coherent(requests[r])
    BY <1>1 DEF IInv, StoredCoherent
  <2>2. PICK x \in Row : x = requests[r]
    BY <2>1
  <2>3. Coherent(x)'
    BY <1>1, <2>1, <2>2, CoherentLater
  <2>4. requests'[r] = x
    BY <2>2
  <2>5. QED
    BY <2>3, <2>4 DEF Coherent
<1>3. QED
  BY <1>1, <1>2 DEF TableStep, IInv, Keyed, KeepsRequests

(* A fit copy is what Update stores, unchanged. *)
LEMMA UpdatedIsCopy ==
  ASSUME NEW x \in Row, SameRequest(x)
  PROVE  Updated(x) = x
BY DEF Updated, SameRequest, Row

LEMMA StoreCopy ==
  ASSUME IInv, NEW x \in Row, Coherent(x), UNCHANGED now,
         requests' = [requests EXCEPT ![x.id] = x],
         requests[x.id] # Null => SameRequest(x)
  PROVE  TableStep
<1>1. requests \in [Req -> Row \cup {Null}] /\ now \in Nat /\ x.id \in Req
  BY DEF IInv, TypeOK, Row
<1>2. requests' \in [Req -> Row \cup {Null}]
  BY <1>1
<1>3. x # Null
  BY NullAssumption DEF NullAssumption
<1>4. Keyed'
  BY <1>1 DEF IInv, Keyed
<1>5. StoredCoherent'
  <2> SUFFICES ASSUME NEW r \in Req, requests'[r] # Null
               PROVE  Coherent(requests[r])'
    BY DEF StoredCoherent
  <2>1. CASE r = x.id
    <3>1. requests'[r] = x
      BY <1>1, <2>1
    <3>2. QED
      BY <3>1 DEF Coherent
  <2>2. CASE r # x.id
    <3>1. requests'[r] = requests[r]
      BY <1>1, <2>2
    <3>2. Coherent(requests[r])
      BY <3>1 DEF IInv, StoredCoherent
    <3>3. QED
      BY <3>1, <3>2 DEF Coherent
  <2>3. QED
    BY <2>1, <2>2
<1>6. KeepsRequests
  BY <1>1, <1>3 DEF KeepsRequests, SameRequest
<1>7. QED
  BY <1>2, <1>4, <1>5, <1>6 DEF TableStep

LEMMA UpdateStep ==
  ASSUME IInv, NEW x \in Row, Fits(x), UNCHANGED now, Update(x)
  PROVE  TableStep
<1>1. Updated(x) = x
  BY UpdatedIsCopy DEF Fits
<1>2. requests' = [requests EXCEPT ![x.id] = x]
  BY <1>1 DEF Update
<1>3. QED
  BY <1>2, StoreCopy DEF Fits

-----------------------------------------------------------------------------
(* The copies after a step.                                                *)

(* Program points and the status they work on. *)
LEMMA Phases ==
  /\ NoRow \cap DOMAIN PhaseStatus = {}
  /\ "post" \notin NoRow /\ "post" \notin DOMAIN PhaseStatus
  /\ NoRow \subseteq Phase /\ DOMAIN PhaseStatus \subseteq Phase /\ "post" \in Phase
BY DEF NoRow, PhaseStatus, Phase

LEMMA HeldRow ==
  ASSUME IInv, NEW p \in Proc, pc[p] \notin NoRow
  PROVE  row[p] \in Row /\ Fits(row[p]) /\ row[p] # Null
BY DEF IInv, TypeOK, CopiesFit, CopyFits

(* A goroutine that does not move keeps a fit copy. *)
LEMMA OtherCopy ==
  ASSUME IInv, ClockStep, KeepsRequests, NEW q \in Proc,
         pc'[q] = pc[q], row'[q] = row[q]
  PROVE  CopyFits(q)'
<1>1. CopyFits(q) /\ now \in Nat /\ row[q] \in Row \cup {Null}
  BY DEF IInv, TypeOK, CopiesFit
<1>2. ASSUME row[q] # Null
      PROVE  Fits(row[q])'
  <2>1. PICK x \in Row : x = row[q]
    BY <1>1, <1>2
  <2>2. Fits(x)'
    BY <1>1, <1>2, <2>1, FitsLater DEF CopyFits
  <2>3. row'[q] = x
    BY <2>1
  <2>4. QED
    BY <2>2, <2>3 DEF Fits, Coherent, SameRequest
<1>3. QED
  BY <1>1, <1>2 DEF CopyFits

(* A goroutine that moves on with a fit row in hand. *)
LEMMA MovedCopy ==
  ASSUME IInv, ClockStep, KeepsRequests, NEW p \in Proc,
         NEW ph \in Phase \ NoRow, NEW y \in Row, Fits(y)',
         ph \in DOMAIN PhaseStatus => y.status = PhaseStatus[ph],
         pc' = [pc EXCEPT ![p] = ph],
         row' = [row EXCEPT ![p] = y]
  PROVE  /\ pc' \in [Proc -> Phase] /\ row' \in [Proc -> Row \cup {Null}]
         /\ \A q \in Proc : CopyFits(q)'
<1>1. pc \in [Proc -> Phase] /\ row \in [Proc -> Row \cup {Null}]
  BY DEF IInv, TypeOK
<1>2. pc'[p] = ph /\ row'[p] = y /\ y # Null
  BY <1>1, NullAssumption DEF NullAssumption
<1>3. CopyFits(p)'
  BY <1>2 DEF CopyFits, Fits, Coherent, SameRequest
<1>4. ASSUME NEW q \in Proc \ {p}
      PROVE  CopyFits(q)'
  BY <1>1, <1>4, OtherCopy
<1>5. QED
  BY <1>1, <1>3, <1>4

(* A goroutine that puts its row down. *)
LEMMA FinishedCopy ==
  ASSUME IInv, ClockStep, KeepsRequests, NEW p \in Proc, NEW ph \in NoRow,
         pc' = [pc EXCEPT ![p] = ph],
         row' = [row EXCEPT ![p] = Null]
  PROVE  /\ pc' \in [Proc -> Phase] /\ row' \in [Proc -> Row \cup {Null}]
         /\ \A q \in Proc : CopyFits(q)'
<1>1. pc \in [Proc -> Phase] /\ row \in [Proc -> Row \cup {Null}]
  BY DEF IInv, TypeOK
<1>2. pc'[p] = ph /\ row'[p] = Null
  BY <1>1
<1>3. CopyFits(p)'
  BY <1>2, Phases DEF CopyFits
<1>4. ASSUME NEW q \in Proc \ {p}
      PROVE  CopyFits(q)'
  BY <1>1, <1>4, OtherCopy
<1>5. QED
  BY <1>1, <1>3, <1>4, Phases

LEMMA Finished ==
  ASSUME IInv, ClockStep, KeepsRequests, NEW p \in Proc, Finish(p)
  PROVE  /\ pc' \in [Proc -> Phase] /\ row' \in [Proc -> Row \cup {Null}]
         /\ actor' \in [Proc -> User \cup {Null}] /\ flag' \in [Proc -> BOOLEAN]
         /\ \A q \in Proc : CopyFits(q)'
<1>1. Resume(p) \in NoRow
  BY DEF Resume, NoRow
<1>2. pc' = [pc EXCEPT ![p] = Resume(p)] /\ row' = [row EXCEPT ![p] = Null]
  BY DEF Finish, Goto
<1>3. actor' \in [Proc -> User \cup {Null}] /\ flag' \in [Proc -> BOOLEAN]
  BY DEF Finish, IInv, TypeOK
<1>4. QED
  BY <1>1, <1>2, <1>3, FinishedCopy

(* A goroutine that moves and keeps its copy, at a place of the same status. *)
LEMMA SameCopy ==
  ASSUME IInv, ClockStep, KeepsRequests, NEW p \in Proc, pc[p] \notin NoRow,
         NEW ph \in Phase \ NoRow,
         ph \in DOMAIN PhaseStatus => row[p].status = PhaseStatus[ph],
         Goto(p, ph), UNCHANGED row
  PROVE  /\ pc' \in [Proc -> Phase] /\ row' \in [Proc -> Row \cup {Null}]
         /\ \A q \in Proc : CopyFits(q)'
<1>1. row[p] \in Row /\ Fits(row[p]) /\ now \in Nat
  BY HeldRow DEF IInv, TypeOK
<1>2. PICK y \in Row : y = row[p]
  BY <1>1
<1>3. Fits(y)'
  BY <1>1, <1>2, FitsLater
<1>4. row' = [row EXCEPT ![p] = y] /\ pc' = [pc EXCEPT ![p] = ph]
  BY <1>2 DEF Goto, IInv, TypeOK
<1>5. QED
  BY <1>2, <1>3, <1>4, MovedCopy

-----------------------------------------------------------------------------
(* The rows of the reconciler's query after a step.                        *)

TodoStep == /\ todo' \subseteq Row
            /\ \A x \in todo' : TodoFits(x)'
            /\ pc'[Worker] = "idle" => todo' = {}

(* The worker is past its queries and keeps turning the same way. *)
LEMMA TodoKept ==
  ASSUME IInv, ClockStep, KeepsRequests, todo' \subseteq todo,
         TodoStatus' = TodoStatus,
         pc'[Worker] = "idle" => todo' = {}
  PROVE  TodoStep
<1>1. todo \subseteq Row /\ now \in Nat
  BY DEF IInv, TypeOK
<1>2. ASSUME NEW x \in todo'
      PROVE  TodoFits(x)'
  <2>1. x \in Row /\ TodoFits(x)
    BY <1>1, <1>2 DEF IInv, CopiesFit
  <2>2. Fits(x)'
    BY <1>1, <2>1, FitsLater DEF TodoFits
  <2>3. x.requestExpiresAt \in Nat
    BY <2>1 DEF Row
  <2>4. QED
    BY <1>1, <2>1, <2>2, <2>3 DEF TodoFits, ClockStep
<1>3. QED
  BY <1>1, <1>2 DEF TodoStep

(* A handler's step leaves the worker where it is. *)
LEMMA TodoOfHandler ==
  ASSUME IInv, ClockStep, KeepsRequests, UNCHANGED todo,
         pc'[Worker] = pc[Worker], row'[Worker] = row[Worker]
  PROVE  TodoStep
<1>1. TodoStatus' = TodoStatus
  BY DEF TodoStatus
<1>2. pc'[Worker] = "idle" => todo' = {}
  BY DEF IInv, CopiesFit
<1>3. QED
  BY <1>1, <1>2, TodoKept

(* A query of the reconciler: what it returns is a set of stored rows. *)
LEMMA QueriedFits ==
  ASSUME IInv, NEW x \in Rows
  PROVE  x \in Row /\ Fits(x)
<1>1. PICK r \in Req : x = requests[r] /\ requests[r] # Null
  BY DEF Rows
<1>2. x \in Row /\ Coherent(x) /\ x.id = r
  BY <1>1 DEF IInv, TypeOK, StoredCoherent, Keyed
<1>3. QED
  BY <1>1, <1>2 DEF Fits, SameRequest

-----------------------------------------------------------------------------
(* Assembling a step.                                                      *)

CopyStep == /\ pc' \in [Proc -> Phase] /\ row' \in [Proc -> Row \cup {Null}]
            /\ \A q \in Proc : CopyFits(q)'

OtherTypes ==
  /\ audit' \subseteq Event
  /\ N!TypeOK'
  /\ member' \subseteq User
  /\ server' \in {"down", "booting", "serving"}
  /\ stops' \in Nat
  /\ actor' \in [Proc -> User \cup {Null}]
  /\ flag' \in [Proc -> BOOLEAN]
  /\ at' \in Nat

LEMMA Assemble ==
  ASSUME ClockStep, TableStep, CopyStep, TodoStep, OtherTypes
  PROVE  IInv'
BY DEF ClockStep, TableStep, CopyStep, TodoStep, OtherTypes, IInv, TypeOK, CopiesFit

LEMMA SameTime ==
  ASSUME IInv, UNCHANGED now
  PROVE  ClockStep
BY DEF IInv, TypeOK, ClockStep

LEMMA SameNotifier ==
  ASSUME N!TypeOK, UNCHANGED noteVars
  PROVE  N!TypeOK'
BY DEF noteVars, N!TypeOK

LEMMA AuditTypes ==
  ASSUME IInv, NEW action \in Action, NEW who \in User \cup {Null, "system"},
         NEW r \in Req \cup {Null}, NEW bg \in BOOLEAN, Audit(action, who, r, bg)
  PROVE  audit' \subseteq Event
<1>1. audit \subseteq Event
  BY DEF IInv, TypeOK
<1>2. [action |-> action, actor |-> who, req |-> r, breakGlass |-> bg] \in Event
  BY DEF Event
<1>3. QED
  BY <1>1, <1>2 DEF Audit, AppendAudit

LEMMA FlagTypes == \A u : BreakGlassFlag(u) \subseteq BOOLEAN
BY DEF BreakGlassFlag

LEMMA SlotIsNotWorker == \A s \in Slot : s \in Proc /\ s # Worker /\ Worker \in Proc
BY ConfigAssumption DEF ConfigAssumption, Proc

(* A goroutine goes on with the row it has. *)
LEMMA Advance ==
  ASSUME IInv, TableStep, UNCHANGED <<now, row, todo>>,
         NEW p \in Proc, pc[p] \notin NoRow, NEW ph \in Phase \ NoRow,
         ph \in DOMAIN PhaseStatus => row[p].status = PhaseStatus[ph],
         Goto(p, ph), OtherTypes
  PROVE  IInv'
<1>1. ClockStep /\ KeepsRequests
  BY SameTime DEF TableStep
<1>2. CopyStep
  BY <1>1, SameCopy DEF CopyStep
<1>3. TodoStep
  <2>1. pc \in [Proc -> Phase] /\ Worker \in Proc
    BY DEF IInv, TypeOK, Proc
  <2>2. pc'[Worker] = pc[Worker] \/ (pc[Worker] \notin NoRow /\ pc'[Worker] \notin NoRow)
    BY <2>1 DEF Goto
  <2>3. TodoStatus' = TodoStatus
    BY <2>2 DEF TodoStatus, NoRow
  <2>4. pc'[Worker] = "idle" => todo' = {}
    BY <2>2 DEF IInv, CopiesFit, NoRow
  <2>5. QED
    BY <1>1, <2>3, <2>4, TodoKept
<1>4. QED
  BY <1>1, <1>2, <1>3, Assemble

(* A goroutine puts its row down. *)
LEMMA PutDown ==
  ASSUME IInv, TableStep, UNCHANGED <<now, todo>>,
         NEW p \in Proc, pc[p] \notin NoRow, Finish(p), OtherTypes
  PROVE  IInv'
<1>1. ClockStep /\ KeepsRequests
  BY SameTime DEF TableStep
<1>2. CopyStep
  BY <1>1, Finished DEF CopyStep
<1>3. TodoStep
  <2>1. /\ pc \in [Proc -> Phase] /\ row \in [Proc -> Row \cup {Null}]
        /\ Worker \in Proc
    BY DEF IInv, TypeOK, Proc
  <2>2. CASE p # Worker
    <3>1. pc'[Worker] = pc[Worker] /\ row'[Worker] = row[Worker]
      BY <2>1, <2>2 DEF Finish, Goto
    <3>2. QED
      BY <1>1, <3>1, TodoOfHandler
  <2>3. CASE p = Worker
    <3>1. pc'[Worker] = Resume(Worker) /\ row'[Worker] = Null
      BY <2>1, <2>3 DEF Finish, Goto
    <3>2. row[Worker] # Null /\ pc[Worker] # "expire"
      BY <2>3, HeldRow DEF NoRow
    <3>3. TodoStatus' = TodoStatus /\ pc'[Worker] # "idle"
      BY <3>1, <3>2 DEF TodoStatus, Resume
    <3>4. QED
      BY <1>1, <3>3, TodoKept
  <2>4. QED
    BY <2>2, <2>3
<1>4. QED
  BY <1>1, <1>2, <1>3, Assemble

(* A handler takes up a row, or changes the one it has. *)
LEMMA TakeUp ==
  ASSUME IInv, TableStep, UNCHANGED <<now, todo>>,
         NEW s \in Slot, NEW ph \in Phase \ NoRow, NEW y \in Row, Fits(y)',
         ph \in DOMAIN PhaseStatus => y.status = PhaseStatus[ph],
         Goto(s, ph), row' = [row EXCEPT ![s] = y], OtherTypes
  PROVE  IInv'
<1>1. ClockStep /\ KeepsRequests
  BY SameTime DEF TableStep
<1>2. CopyStep
  BY <1>1, MovedCopy, SlotIsNotWorker DEF CopyStep, Goto
<1>3. pc'[Worker] = pc[Worker] /\ row'[Worker] = row[Worker]
  BY SlotIsNotWorker DEF Goto, IInv, TypeOK
<1>4. TodoStep
  BY <1>1, <1>3, TodoOfHandler
<1>5. QED
  BY <1>1, <1>2, <1>4, Assemble

(* Nothing but the parts the invariant only types changes. *)
LEMMA OnlyTypes ==
  ASSUME IInv, ClockStep, UNCHANGED <<requests, pc, row, todo>>, OtherTypes
  PROVE  IInv'
<1>1. TableStep /\ KeepsRequests
  BY TableUnchanged DEF TableStep
<1>2. CopyStep
  BY <1>1, OtherCopy DEF CopyStep, IInv, TypeOK
<1>3. TodoStep
  BY <1>1, TodoOfHandler
<1>4. QED
  BY <1>1, <1>2, <1>3, Assemble

-----------------------------------------------------------------------------
(* The actions, one lemma for each group that shares its shape.            *)

LEMMA NotifySafe ==
  ASSUME IInv, NEW p \in Proc, NEW kind \in Kind, pc[p] \notin NoRow, Notify(p, kind)
  PROVE  IInv'
<1> DEFINE n == <<row[p].id, kind>>
<1>1. TableStep
  BY SameTime, TableUnchanged DEF Notify, storeVars, envVars
<1>2. UNCHANGED <<now, todo, audit, member, server, stops, at>>
  BY DEF Notify, storeVars, envVars, sweepVars
<1>3. n \in Note
  BY HeldRow DEF Note, Row
<1>4. CASE N!Mark(p, n) /\ Goto(p, "post") /\ UNCHANGED <<row, actor, flag>>
  <2>1. N!TypeOK'
    BY <1>3, <1>4 DEF IInv, TypeOK, N!TypeOK, N!Mark
  <2>2. OtherTypes
    BY <1>2, <1>4, <2>1 DEF OtherTypes, IInv, TypeOK
  <2>3. QED
    BY <1>1, <1>2, <1>4, <2>2, Phases, Advance
<1>5. CASE Finish(p) /\ UNCHANGED noteVars
  <2>1. N!TypeOK'
    BY <1>5, SameNotifier DEF IInv, TypeOK
  <2>2. ClockStep /\ KeepsRequests
    BY <1>1, <1>2, SameTime DEF TableStep
  <2>3. OtherTypes
    BY <1>2, <1>5, <2>1, <2>2, Finished DEF OtherTypes, IInv, TypeOK
  <2>4. QED
    BY <1>1, <1>2, <1>5, <2>3, PutDown
<1>6. QED
  BY <1>4, <1>5 DEF Notify

LEMMA PostSafe ==
  ASSUME IInv, NEW p \in Proc, Post(p)
  PROVE  IInv'
<1>1. TableStep /\ UNCHANGED <<now, todo, audit, member, server, stops, at>>
  BY SameTime, TableUnchanged DEF Post, storeVars, envVars, sweepVars
<1>2. N!TypeOK'
  <2>1. posting[p] \in Note
    BY DEF Post, N!Post, IInv, TypeOK, N!TypeOK
  <2>2. QED
    BY <2>1, ConfigAssumption DEF Post, N!Post, IInv, TypeOK, N!TypeOK, ConfigAssumption
<1>3. ClockStep /\ KeepsRequests /\ Finish(p)
  BY <1>1, SameTime DEF TableStep, Post
<1>4. OtherTypes
  BY <1>1, <1>2, <1>3, Finished DEF OtherTypes, IInv, TypeOK
<1>5. pc[p] \notin NoRow
  BY Phases DEF Post
<1>6. QED
  BY <1>1, <1>3, <1>4, <1>5, PutDown

(* An audit insert between two places of the same status. *)
LEMMA AuditSafe ==
  ASSUME IInv, NEW p \in Proc, NEW from \in DOMAIN PhaseStatus,
         NEW to \in DOMAIN PhaseStatus, PhaseStatus[from] = PhaseStatus[to],
         pc[p] = from, Goto(p, to), audit' \subseteq Event,
         flag' \in [Proc -> BOOLEAN],
         UNCHANGED <<requests, noteVars, member, envVars, row, actor, sweepVars>>
  PROVE  IInv'
<1>1. TableStep /\ UNCHANGED <<now, todo, row>>
  BY SameTime, TableUnchanged DEF envVars, sweepVars
<1>2. N!TypeOK'
  BY SameNotifier DEF IInv, TypeOK
<1>3. OtherTypes
  BY <1>2 DEF OtherTypes, IInv, TypeOK, envVars, sweepVars
<1>4. row[p].status = PhaseStatus[to]
  BY DEF IInv, CopiesFit, CopyFits
<1>5. to \in Phase \ NoRow /\ pc[p] \notin NoRow
  BY Phases
<1>6. QED
  BY <1>1, <1>3, <1>4, <1>5, Advance

LEMMA AuditsSafe ==
  ASSUME IInv, NEW s \in Slot,
         \/ CreateAudit(s) \/ ApproveAudit(s) \/ ApproveAuditGrant(s)
         \/ ReleaseAudit(s)
  PROVE  IInv'
<1>1. s \in Proc /\ actor[s] \in User \cup {Null} /\ flag \in [Proc -> BOOLEAN]
  BY SlotIsNotWorker DEF IInv, TypeOK
<1>2. ASSUME pc[s] \notin NoRow
      PROVE  row[s].id \in Req
  BY <1>1, <1>2, HeldRow DEF Row
<1>3. CASE CreateAudit(s)
  <2>1. row[s].id \in Req
    BY <1>2, <1>3 DEF CreateAudit, NoRow
  <2>2. audit' \subseteq Event
    BY <1>1, <1>3, <2>1, AuditTypes, FlagTypes DEF CreateAudit, Action
  <2>3. QED
    BY <1>1, <1>3, <2>2, AuditSafe DEF CreateAudit, PhaseStatus
<1>4. CASE ApproveAudit(s)
  <2>1. row[s].id \in Req
    BY <1>2, <1>4 DEF ApproveAudit, NoRow
  <2>2. audit' \subseteq Event
    BY <1>1, <1>4, <2>1, AuditTypes, FlagTypes DEF ApproveAudit, Action
  <2>3. flag' \in [Proc -> BOOLEAN]
    BY <1>1, <1>4, FlagTypes DEF ApproveAudit
  <2>4. QED
    BY <1>1, <1>4, <2>2, <2>3, AuditSafe DEF ApproveAudit, PhaseStatus
<1>5. CASE ApproveAuditGrant(s)
  <2>1. row[s].id \in Req
    BY <1>2, <1>5 DEF ApproveAuditGrant, NoRow
  <2>2. audit' \subseteq Event
    BY <1>1, <1>5, <2>1, AuditTypes DEF ApproveAuditGrant, Action
  <2>3. QED
    BY <1>1, <1>5, <2>2, AuditSafe DEF ApproveAuditGrant, PhaseStatus
<1>6. CASE ReleaseAudit(s)
  <2>1. row[s].id \in Req
    BY <1>2, <1>6 DEF ReleaseAudit, NoRow
  <2>2. audit' \subseteq Event
    BY <1>1, <1>6, <2>1, AuditTypes DEF ReleaseAudit, Action
  <2>3. QED
    BY <1>1, <1>6, <2>2, AuditSafe DEF ReleaseAudit, PhaseStatus
<1>7. QED
  BY <1>3, <1>4, <1>5, <1>6

LEMMA ExpireAuditSafe ==
  ASSUME IInv, NEW p \in Proc, ExpireAudit(p)
  PROVE  IInv'
<1>1. row[p].id \in Req
  BY HeldRow DEF ExpireAudit, NoRow, Row
<1>2. audit' \subseteq Event
  BY <1>1, AuditTypes DEF ExpireAudit, Action
<1>3. flag' \in [Proc -> BOOLEAN]
  BY DEF ExpireAudit, IInv, TypeOK
<1>4. QED
  BY <1>2, <1>3, AuditSafe DEF ExpireAudit, PhaseStatus

LEMMA RevokeAuditSafe ==
  ASSUME IInv, RevokeAudit
  PROVE  IInv'
<1>1. Worker \in Proc
  BY DEF Proc
<1>2. row[Worker].id \in Req
  BY <1>1, HeldRow DEF RevokeAudit, NoRow, Row
<1>3. audit' \subseteq Event
  BY <1>2, AuditTypes DEF RevokeAudit, Action
<1>4. flag' \in [Proc -> BOOLEAN]
  BY DEF RevokeAudit, IInv, TypeOK
<1>5. QED
  BY <1>1, <1>3, <1>4, AuditSafe DEF RevokeAudit, PhaseStatus

LEMMA CreateSafe ==
  ASSUME IInv, NEW s \in Slot, NEW a \in User \cup {Null}, NEW u \in User,
         NEW r \in Req, HandleCreate(s, a, u, r)
  PROVE  IInv'
<1>1. now \in Nat /\ RequestTTL \in Nat
  BY ConfigAssumption DEF ConfigAssumption, IInv, TypeOK
<1>2. PICK d \in Nat : d = now + RequestTTL
  BY <1>1
<1>3. PICK y \in Row : y = NewRow(r, u, d)
  BY DEF NewRow, Row, Status
<1>4. /\ y.id = r /\ y.user = u /\ y.status = "pending" /\ y.releasedAt = Null
      /\ {y.approvedAt, y.approvedBy, y.activeExpiresAt} = {Null}
  BY <1>3 DEF NewRow
<1>5. Coherent(y)
  BY <1>4 DEF Coherent
<1>6. requests' = [requests EXCEPT ![y.id] = y] /\ requests[y.id] = Null
  <2>1. Create(y)
    BY <1>2, <1>3 DEF HandleCreate
  <2>2. QED
    BY <1>4, <2>1 DEF HandleCreate, Create
<1>7. UNCHANGED <<now, todo>>
  BY DEF HandleCreate, envVars, sweepVars
<1>8. TableStep
  BY <1>5, <1>6, <1>7, StoreCopy
<1>9. Fits(y)'
  <2>1. requests'[y.id] = y /\ y # Null
    BY <1>4, <1>6, NullAssumption DEF IInv, TypeOK, NullAssumption
  <2>2. QED
    BY <1>5, <1>7, <2>1 DEF Fits, SameRequest, Coherent
<1>10. OtherTypes
  <2>1. N!TypeOK'
    BY SameNotifier DEF HandleCreate, IInv, TypeOK
  <2>2. QED
    BY <2>1, SlotIsNotWorker DEF OtherTypes, HandleCreate, IInv, TypeOK, envVars, sweepVars
<1>11. row' = [row EXCEPT ![s] = y] /\ Goto(s, "create_audit")
  BY <1>2, <1>3 DEF HandleCreate
<1>12. PhaseStatus["create_audit"] = "pending" /\ "create_audit" \in Phase \ NoRow
  BY DEF PhaseStatus, Phase, NoRow
<1>13. QED
  BY <1>4, <1>7, <1>8, <1>9, <1>10, <1>11, <1>12, TakeUp

(* A handler that reads a row with the status its first place works on. *)
LEMMA ReadSafe ==
  ASSUME IInv, NEW s \in Slot, NEW a \in User \cup {Null}, NEW r \in Req,
         NEW to \in DOMAIN PhaseStatus,
         requests[r] # Null, requests[r].status = PhaseStatus[to],
         row' = [row EXCEPT ![s] = requests[r]],
         actor' = [actor EXCEPT ![s] = a],
         Goto(s, to),
         UNCHANGED <<storeVars, noteVars, member, envVars, flag, sweepVars>>
  PROVE  IInv'
<1>1. requests[r] \in Rows
  BY DEF Rows
<1>2. PICK y \in Row : y = requests[r] /\ Fits(y)
  BY <1>1, QueriedFits
<1>3. UNCHANGED <<now, todo, requests>>
  BY DEF envVars, sweepVars, storeVars
<1>4. TableStep /\ Fits(y)'
  BY <1>2, <1>3, SameTime, TableUnchanged, FitsLater DEF IInv, TypeOK, TableStep
<1>5. OtherTypes
  <2>1. N!TypeOK'
    BY SameNotifier DEF IInv, TypeOK
  <2>2. QED
    BY <2>1, SlotIsNotWorker DEF OtherTypes, IInv, TypeOK, envVars, sweepVars, storeVars
<1>6. row' = [row EXCEPT ![s] = y] /\ to \in Phase \ NoRow /\ y.status = PhaseStatus[to]
  BY <1>2, Phases
<1>7. QED
  BY <1>3, <1>4, <1>5, <1>6, TakeUp

LEMMA ApproveSafe ==
  ASSUME IInv, NEW s \in Slot, NEW a \in User, NEW r \in Req, HandleApprove(s, a, r)
  PROVE  IInv'
<1>1. PhaseStatus["approve_decide"] = "pending" /\ "approve_decide" \in DOMAIN PhaseStatus
  BY DEF PhaseStatus
<1>2. QED
  BY <1>1, ReadSafe DEF HandleApprove, Approvable

LEMMA ReleaseSafe ==
  ASSUME IInv, NEW s \in Slot, NEW a \in User \cup {Null}, NEW r \in Req,
         HandleRelease(s, a, r)
  PROVE  IInv'
<1>1. PhaseStatus["release_remove"] = "approved" /\ "release_remove" \in DOMAIN PhaseStatus
  BY DEF PhaseStatus
<1>2. QED
  BY <1>1, ReadSafe DEF HandleRelease, Releasable

(* The decision: the only place where the columns of a grant are made up.  *)
LEMMA DecideSafe ==
  ASSUME IInv, NEW s \in Slot, actor[s] \in Permanent, ApproveDecide(s)
  PROVE  IInv'
<1>1. /\ row[s] \in Row /\ Fits(row[s]) /\ now \in Nat /\ s \in Proc
      /\ row[s].status = "pending"
  <2>1. pc[s] \notin NoRow /\ pc[s] \in DOMAIN PhaseStatus
        /\ PhaseStatus[pc[s]] = "pending" /\ s \in Proc
    BY SlotIsNotWorker DEF ApproveDecide, NoRow, PhaseStatus
  <2>2. QED
    BY <2>1, HeldRow DEF IInv, TypeOK, CopiesFit, CopyFits
<1>2. UNCHANGED <<now, todo, requests>>
  BY DEF ApproveDecide, envVars, sweepVars, storeVars
<1>3. TableStep
  BY <1>2, SameTime, TableUnchanged
<1>4. OtherTypes
  <2>1. N!TypeOK'
    BY SameNotifier DEF ApproveDecide, IInv, TypeOK
  <2>2. QED
    BY <2>1 DEF ApproveDecide, OtherTypes, IInv, TypeOK, envVars, sweepVars, storeVars
<1>5. PICK x \in Row : x = row[s]
  BY <1>1
<1>6. CASE TooLate(x) /\ row' = [row EXCEPT ![s].status = "expired"] /\ Goto(s, "expire_store")
  <2>1. PICK y \in Row : y = [x EXCEPT !.status = "expired"]
    BY DEF Row, Status
  <2>2. /\ y.status = "expired" /\ y.id = x.id /\ y.user = x.user
        /\ y.requestExpiresAt = x.requestExpiresAt /\ y.releasedAt = x.releasedAt
        /\ y.approvedAt = x.approvedAt /\ y.approvedBy = x.approvedBy
        /\ y.activeExpiresAt = x.activeExpiresAt
    BY <2>1 DEF Row
  <2>3. x.requestExpiresAt \in Nat
    BY DEF Row
  <2>4. Fits(y)
    BY <1>1, <1>5, <1>6, <2>2, <2>3 DEF Fits, SameRequest, Coherent, TooLate
  <2>5. Fits(y)'
    BY <1>1, <1>2, <1>3, <2>4, SameTime, FitsLater DEF TableStep
  <2>6. row' = [row EXCEPT ![s] = y]
    BY <1>1, <1>5, <1>6, <2>1 DEF IInv, TypeOK
  <2>7. PhaseStatus["expire_store"] = "expired" /\ "expire_store" \in Phase \ NoRow
    BY DEF PhaseStatus, Phase, NoRow
  <2>8. QED
    BY <1>2, <1>3, <1>4, <1>6, <2>2, <2>5, <2>6, <2>7, TakeUp
<1>7. CASE /\ ~TooLate(x) /\ Goto(s, "approve_add")
           /\ row' = [row EXCEPT ![s] = Approved(x, actor[s])]
  <2>1. ActiveTTL \in Nat /\ Permanent \subseteq User
    BY ConfigAssumption DEF ConfigAssumption
  <2>2. PICK e \in Nat : e = now + ActiveTTL
    BY <1>1, <2>1
  <2>3. PICK y : y = [x EXCEPT !.status = "approved", !.approvedAt = now,
                               !.approvedBy = actor[s], !.activeExpiresAt = e]
    OBVIOUS
  <2>4. y \in Row
    BY <1>1, <2>1, <2>3 DEF Row, Status
  <2>5. /\ y.status = "approved" /\ y.id = x.id /\ y.user = x.user
        /\ y.requestExpiresAt = x.requestExpiresAt /\ y.releasedAt = x.releasedAt
        /\ y.approvedAt = now /\ y.approvedBy = actor[s] /\ y.activeExpiresAt = e
    BY <2>3 DEF Row
  <2>6. x.requestExpiresAt \in Nat
    BY DEF Row
  <2>7. now <= x.requestExpiresAt
    BY <1>1, <1>7, <2>6 DEF TooLate
  <2>8. Fits(y)
    BY <1>1, <1>5, <2>2, <2>5, <2>7 DEF Fits, SameRequest, Coherent
  <2>9. Fits(y)'
    BY <1>1, <1>2, <1>3, <2>4, <2>8, SameTime, FitsLater DEF TableStep
  <2>10. row' = [row EXCEPT ![s] = y]
    BY <1>7, <2>2, <2>3 DEF Approved
  <2>11. PhaseStatus["approve_add"] = "approved" /\ "approve_add" \in Phase \ NoRow
    BY DEF PhaseStatus, Phase, NoRow
  <2>12. QED
    BY <1>2, <1>3, <1>4, <1>7, <2>4, <2>5, <2>9, <2>10, <2>11, TakeUp
<1>8. QED
  BY <1>5, <1>6, <1>7 DEF ApproveDecide

(* A handler's group call. *)
LEMMA GroupCallsSafe ==
  ASSUME IInv, NEW s \in Slot, ApproveAdd(s) \/ ReleaseRemove(s)
  PROVE  IInv'
<1>1. s \in Proc /\ pc[s] \in {"approve_add", "release_remove"} /\ pc[s] \notin NoRow
  BY SlotIsNotWorker DEF ApproveAdd, ReleaseRemove, NoRow
<1>2. row[s] \in Row /\ row[s].status = "approved"
  BY <1>1, HeldRow DEF IInv, CopiesFit, CopyFits, PhaseStatus
<1>3. member' \subseteq User
  BY <1>2 DEF ApproveAdd, ReleaseRemove, KeycloakOk, KeycloakError, IInv, TypeOK, Row
<1>4. UNCHANGED <<requests, now, todo, audit, server, stops, at>> /\ UNCHANGED noteVars
  BY DEF ApproveAdd, ReleaseRemove, storeVars, envVars, sweepVars
<1>5. TableStep /\ ClockStep /\ KeepsRequests /\ N!TypeOK'
  BY <1>4, SameTime, TableUnchanged, SameNotifier DEF TableStep, IInv, TypeOK
<1>6. CASE Finish(s)
  <2>1. OtherTypes
    BY <1>1, <1>3, <1>4, <1>5, <1>6, Finished DEF OtherTypes, IInv, TypeOK
  <2>2. QED
    BY <1>1, <1>4, <1>5, <1>6, <2>1, PutDown
<1>7. ASSUME NEW ph \in {"approve_store", "release_store"}, Goto(s, ph),
             UNCHANGED <<row, actor, flag>>
      PROVE  IInv'
  <2>1. OtherTypes
    BY <1>3, <1>4, <1>5, <1>7 DEF OtherTypes, IInv, TypeOK
  <2>2. ph \in Phase \ NoRow /\ PhaseStatus[ph] = "approved"
    BY <1>7 DEF Phase, NoRow, PhaseStatus
  <2>3. QED
    BY <1>1, <1>2, <1>4, <1>5, <1>7, <2>1, <2>2, Advance
<1>8. QED
  BY <1>6, <1>7 DEF ApproveAdd, ReleaseRemove

(* The two writes of handleApprove. *)
LEMMA ApproveStoresSafe ==
  ASSUME IInv, NEW s \in Slot, ExpireStore(s) \/ ApproveStore(s)
  PROVE  IInv'
<1>1. s \in Proc /\ pc[s] \in {"expire_store", "approve_store"} /\ pc[s] \notin NoRow
  BY SlotIsNotWorker DEF ExpireStore, ApproveStore, NoRow
<1>2. row[s] \in Row /\ Fits(row[s])
  BY <1>1, HeldRow
<1>3. UNCHANGED <<now, todo, audit, member, server, stops, at>> /\ UNCHANGED noteVars
  BY DEF ExpireStore, ApproveStore, envVars, sweepVars
<1>4. Update(row[s]) \/ UNCHANGED requests
  BY DEF ExpireStore, ApproveStore
<1>5. TableStep /\ ClockStep /\ KeepsRequests /\ N!TypeOK'
  BY <1>2, <1>3, <1>4, SameTime, TableUnchanged, UpdateStep, SameNotifier
     DEF TableStep, IInv, TypeOK
<1>6. CASE Finish(s)
  <2>1. OtherTypes
    BY <1>1, <1>3, <1>5, <1>6, Finished DEF OtherTypes, IInv, TypeOK
  <2>2. QED
    BY <1>1, <1>3, <1>5, <1>6, <2>1, PutDown
<1>7. ASSUME NEW ph \in {"expire_audit", "approve_audit"}, Goto(s, ph),
             UNCHANGED <<row, actor, flag>>, PhaseStatus[ph] = PhaseStatus[pc[s]]
      PROVE  IInv'
  <2>1. OtherTypes
    BY <1>3, <1>5, <1>7 DEF OtherTypes, IInv, TypeOK
  <2>2. ph \in Phase \ NoRow /\ row[s].status = PhaseStatus[ph]
    BY <1>1, <1>7 DEF Phase, NoRow, PhaseStatus, IInv, CopiesFit, CopyFits
  <2>3. QED
    BY <1>1, <1>3, <1>5, <1>7, <2>1, <2>2, Advance
<1>8. QED
  BY <1>6, <1>7 DEF ExpireStore, ApproveStore, PhaseStatus

(* Ending a grant keeps the row coherent: it started before now. *)
LEMMA ReleasedFits ==
  ASSUME IInv, NEW x \in Row, Fits(x), x.status = "approved"
  PROVE  /\ Released(x) \in Row /\ Fits(Released(x))
         /\ Released(x).status = "released"
<1>1. now \in Nat
  BY DEF IInv, TypeOK
<1>2. Released(x) \in Row
  BY <1>1 DEF Released, Row, Status
<1>3. PICK y \in Row : y = Released(x)
  BY <1>2
<1>4. /\ y.status = "released" /\ y.id = x.id /\ y.user = x.user
      /\ y.requestExpiresAt = x.requestExpiresAt /\ y.releasedAt = now
      /\ y.approvedAt = x.approvedAt /\ y.approvedBy = x.approvedBy
      /\ y.activeExpiresAt = x.activeExpiresAt
  BY <1>3 DEF Released, Row
<1>5. Fits(y)
  BY <1>1, <1>4 DEF Fits, SameRequest, Coherent
<1>6. QED
  BY <1>2, <1>3, <1>4, <1>5

LEMMA EndStoreSafe ==
  ASSUME IInv, NEW p \in Proc, pc[p] \in {"release_store", "revoke_store"},
         NEW next \in {"release_audit", "revoke_audit"}, EndStore(p, next)
  PROVE  IInv'
<1>1. pc[p] \notin NoRow /\ row[p] \in Row /\ Fits(row[p]) /\ row[p].status = "approved"
  <2>1. pc[p] \notin NoRow /\ pc[p] \in DOMAIN PhaseStatus
        /\ PhaseStatus[pc[p]] = "approved"
    BY DEF NoRow, PhaseStatus
  <2>2. QED
    BY <2>1, HeldRow DEF IInv, CopiesFit, CopyFits
<1>2. UNCHANGED <<now, todo, audit, member, server, stops, at>> /\ UNCHANGED noteVars
  BY DEF EndStore, envVars, sweepVars
<1>3. ClockStep /\ N!TypeOK'
  BY <1>2, SameTime, SameNotifier DEF IInv, TypeOK
<1>4. CASE UNCHANGED requests /\ Finish(p)
  <2>1. TableStep /\ KeepsRequests
    BY <1>3, <1>4, TableUnchanged DEF TableStep
  <2>2. OtherTypes
    BY <1>2, <1>3, <1>4, <2>1, Finished DEF OtherTypes, IInv, TypeOK
  <2>3. QED
    BY <1>1, <1>2, <1>4, <2>1, <2>2, PutDown
<1>5. CASE /\ Update(Released(row[p])) /\ row' = [row EXCEPT ![p] = Released(row[p])]
           /\ Goto(p, next) /\ UNCHANGED <<actor, flag>>
  <2>1. PICK y \in Row : y = Released(row[p]) /\ Fits(y) /\ y.status = "released"
    BY <1>1, ReleasedFits
  <2>2. TableStep /\ KeepsRequests
    BY <1>2, <1>5, <2>1, UpdateStep DEF TableStep
  <2>3. Fits(y)'
    BY <1>3, <2>1, <2>2, FitsLater DEF IInv, TypeOK
  <2>4. next \in Phase \ NoRow /\ y.status = PhaseStatus[next]
    BY <2>1 DEF Phase, NoRow, PhaseStatus
  <2>5. CopyStep
    BY <1>3, <1>5, <2>1, <2>2, <2>3, <2>4, MovedCopy DEF CopyStep, Goto
  <2>6. OtherTypes
    BY <1>2, <1>3, <1>5 DEF OtherTypes, IInv, TypeOK
  <2>7. TodoStep
    <3>1. /\ pc \in [Proc -> Phase] /\ row \in [Proc -> Row \cup {Null}]
          /\ Worker \in Proc
      BY DEF IInv, TypeOK, Proc
    <3>2. CASE p # Worker
      <4>1. pc'[Worker] = pc[Worker] /\ row'[Worker] = row[Worker]
        BY <1>5, <3>1, <3>2 DEF Goto
      <4>2. QED
        BY <1>2, <1>3, <2>2, <4>1, TodoOfHandler
    <3>3. CASE p = Worker
      <4>1. pc'[Worker] = next /\ row'[Worker] = y
        BY <1>5, <2>1, <3>1, <3>3 DEF Goto
      <4>2. TodoStatus' = TodoStatus /\ pc'[Worker] # "idle"
        BY <1>1, <2>1, <3>3, <4>1 DEF TodoStatus
      <4>3. QED
        BY <1>2, <1>3, <2>2, <4>2, TodoKept
    <3>4. QED
      BY <3>2, <3>3
  <2>8. QED
    BY <1>3, <2>2, <2>5, <2>6, <2>7, Assemble
<1>6. QED
  BY <1>4, <1>5 DEF EndStore

-----------------------------------------------------------------------------
(* The reconciler. *)

(* A query: the worker has no row, and none after it. *)
LEMMA QuerySafe ==
  ASSUME IInv, NEW ph \in {"expire", "revoke"}, pc[Worker] \in NoRow,
         todo' \subseteq Rows,
         \A x \in todo' : x.status = IF ph = "expire" THEN "pending" ELSE "approved",
         \A x \in todo' : x.status = "pending" => x.requestExpiresAt <= now,
         Goto(Worker, ph), at' \in Nat,
         UNCHANGED <<storeVars, noteVars, member, envVars, row, actor, flag>>
  PROVE  IInv'
<1>1. Worker \in Proc /\ ph \in NoRow /\ pc \in [Proc -> Phase]
      /\ row \in [Proc -> Row \cup {Null}] /\ now \in Nat
  BY DEF Proc, NoRow, IInv, TypeOK
<1>2. UNCHANGED <<now, requests, audit, server, stops>>
  BY DEF envVars, storeVars
<1>3. row[Worker] = Null
  BY <1>1 DEF IInv, CopiesFit, CopyFits
<1>4. row' = [row EXCEPT ![Worker] = Null]
  BY <1>1, <1>3
<1>5. ClockStep /\ TableStep /\ KeepsRequests /\ N!TypeOK'
  BY <1>2, SameTime, TableUnchanged, SameNotifier DEF TableStep, IInv, TypeOK
<1>6. CopyStep
  BY <1>1, <1>4, <1>5, FinishedCopy DEF CopyStep, Goto
<1>7. OtherTypes
  BY <1>2, <1>5 DEF OtherTypes, IInv, TypeOK
<1>8. TodoStep
  <2>1. pc'[Worker] = ph /\ row'[Worker] = Null
    BY <1>1, <1>3 DEF Goto
  <2>2. TodoStatus' = IF ph = "expire" THEN "pending" ELSE "approved"
    BY <2>1 DEF TodoStatus
  <2>3. ASSUME NEW x \in todo'
        PROVE  x \in Row /\ TodoFits(x)'
    <3>1. x \in Row /\ Fits(x)
      BY <2>3, QueriedFits
    <3>2. Fits(x)'
      BY <1>1, <1>5, <3>1, FitsLater
    <3>3. QED
      BY <1>2, <2>2, <2>3, <3>1, <3>2 DEF TodoFits
  <2>4. QED
    BY <2>1, <2>3 DEF TodoStep
<1>9. QED
  BY <1>5, <1>6, <1>7, <1>8, Assemble

LEMMA ReconcileSafe ==
  ASSUME IInv, Reconcile \/ ReconcileActive
  PROVE  IInv'
<1>1. CASE Reconcile
  <2>1. todo' \subseteq Rows /\ pc[Worker] \in NoRow /\ at' \in Nat
    BY <1>1 DEF Reconcile, PendingExpired, NoRow, IInv, TypeOK
  <2>2. \A x \in todo' : x.status = "pending" /\ x.requestExpiresAt <= now
    BY <1>1 DEF Reconcile, PendingExpired
  <2>3. QED
    BY <1>1, <2>1, <2>2, QuerySafe DEF Reconcile
<1>2. CASE ReconcileActive
  <2>1. todo' \subseteq Rows /\ pc[Worker] \in NoRow /\ at' \in Nat
    BY <1>2 DEF ReconcileActive, ActiveExpired, NoRow
  <2>2. \A x \in todo' : x.status = "approved"
    BY <1>2 DEF ReconcileActive, ActiveExpired
  <2>3. QED
    BY <1>2, <2>1, <2>2, QuerySafe DEF ReconcileActive
<1>3. QED
  BY <1>1, <1>2

LEMMA ExpireRowSafe ==
  ASSUME IInv, NEW x \in todo, ExpireRow(x)
  PROVE  IInv'
<1> DEFINE y == [x EXCEPT !.status = "expired"]
<1>1. /\ Worker \in Proc /\ pc \in [Proc -> Phase] /\ now \in Nat
      /\ row \in [Proc -> Row \cup {Null}] /\ pc[Worker] = "expire"
  BY DEF Proc, IInv, TypeOK, ExpireRow
<1>2. UNCHANGED <<now, audit, member, server, stops, actor, flag, at>>
      /\ UNCHANGED noteVars /\ todo' \subseteq todo
  BY DEF ExpireRow, envVars
<1>3. ClockStep /\ N!TypeOK'
  BY <1>2, SameTime, SameNotifier DEF IInv, TypeOK
<1>4. OtherTypes
  BY <1>2, <1>3 DEF OtherTypes, IInv, TypeOK
<1>5. /\ x \in Row /\ Fits(x) /\ x.requestExpiresAt <= now
      /\ x.status = "pending"
  BY <1>1 DEF IInv, TypeOK, CopiesFit, TodoFits, TodoStatus
<1>6. CASE Update(y) /\ Goto(Worker, "expire_audit") /\ row' = [row EXCEPT ![Worker] = y]
  <2>1. y \in Row
    BY <1>5 DEF Row, Status
  <2>2. /\ y.status = "expired" /\ y.id = x.id /\ y.user = x.user
        /\ y.requestExpiresAt = x.requestExpiresAt /\ y.releasedAt = x.releasedAt
        /\ y.approvedAt = x.approvedAt /\ y.approvedBy = x.approvedBy
        /\ y.activeExpiresAt = x.activeExpiresAt
    BY <1>5 DEF Row
  <2>3. Fits(y)
    BY <1>5, <2>2 DEF Fits, SameRequest, Coherent
  <2>4. TableStep /\ KeepsRequests
    BY <1>2, <1>6, <2>1, <2>3, UpdateStep DEF TableStep
  <2>5. Fits(y)'
    BY <1>1, <1>3, <2>1, <2>3, <2>4, FitsLater
  <2>6. "expire_audit" \in Phase \ NoRow /\ PhaseStatus["expire_audit"] = "expired"
    BY DEF Phase, NoRow, PhaseStatus
  <2>7. CopyStep
    BY <1>1, <1>3, <1>6, <2>1, <2>2, <2>4, <2>5, <2>6, MovedCopy DEF CopyStep, Goto
  <2>8. TodoStep
    <3>1. pc'[Worker] = "expire_audit" /\ row'[Worker] = y /\ y # Null
      BY <1>1, <1>6, <2>1, NullAssumption DEF Goto, NullAssumption
    <3>2. TodoStatus' = TodoStatus
      BY <1>1, <2>2, <3>1 DEF TodoStatus
    <3>3. QED
      BY <1>2, <1>3, <2>4, <3>1, <3>2, TodoKept
  <2>9. QED
    BY <1>3, <1>4, <2>4, <2>7, <2>8, Assemble
<1>7. CASE UNCHANGED <<requests, pc, row>>
  <2>1. TableStep /\ KeepsRequests
    BY <1>3, <1>7, TableUnchanged DEF TableStep
  <2>2. CopyStep
    BY <1>1, <1>3, <1>7, <2>1, OtherCopy DEF CopyStep
  <2>3. TodoStatus' = TodoStatus /\ pc'[Worker] # "idle"
    BY <1>1, <1>7 DEF TodoStatus
  <2>4. TodoStep
    BY <1>2, <1>3, <2>1, <2>3, TodoKept
  <2>5. QED
    BY <1>3, <1>4, <2>1, <2>2, <2>4, Assemble
<1>8. QED
  BY <1>6, <1>7 DEF ExpireRow

LEMMA RevokeRowSafe ==
  ASSUME IInv, NEW x \in todo, RevokeRow(x)
  PROVE  IInv'
<1>1. /\ Worker \in Proc /\ pc \in [Proc -> Phase] /\ now \in Nat
      /\ row \in [Proc -> Row \cup {Null}] /\ pc[Worker] = "revoke"
  BY DEF Proc, IInv, TypeOK, RevokeRow
<1>2. row[Worker] = Null
  BY <1>1 DEF IInv, CopiesFit, CopyFits, NoRow
<1>3. /\ x \in Row /\ Fits(x) /\ x.status = "approved" /\ x # Null
      /\ TodoStatus = "approved"
  BY <1>1, <1>2, NullAssumption
     DEF IInv, TypeOK, CopiesFit, TodoFits, TodoStatus, NullAssumption
<1>4. UNCHANGED <<requests, now, audit, server, stops, actor, flag, at>>
      /\ UNCHANGED noteVars /\ todo' \subseteq todo
  BY DEF RevokeRow, storeVars, envVars
<1>5. ClockStep /\ TableStep /\ KeepsRequests /\ N!TypeOK'
  BY <1>4, SameTime, TableUnchanged, SameNotifier DEF TableStep, IInv, TypeOK
<1>6. OtherTypes
  <2>1. member' \subseteq User
    BY <1>3 DEF RevokeRow, KeycloakOk, KeycloakError, IInv, TypeOK
  <2>2. QED
    BY <1>4, <1>5, <2>1 DEF OtherTypes, IInv, TypeOK
<1>7. CASE Goto(Worker, "revoke_store") /\ row' = [row EXCEPT ![Worker] = x]
  <2>1. "revoke_store" \in Phase \ NoRow /\ PhaseStatus["revoke_store"] = "approved"
    BY DEF Phase, NoRow, PhaseStatus
  <2>2. Fits(x)'
    BY <1>1, <1>3, <1>5, FitsLater
  <2>3. CopyStep
    BY <1>1, <1>3, <1>5, <1>7, <2>1, <2>2, MovedCopy DEF CopyStep, Goto
  <2>4. TodoStatus' = TodoStatus /\ pc'[Worker] # "idle"
    BY <1>1, <1>3, <1>7 DEF TodoStatus, Goto
  <2>5. TodoStep
    BY <1>4, <1>5, <2>4, TodoKept
  <2>6. QED
    BY <1>5, <1>6, <2>3, <2>5, Assemble
<1>8. CASE UNCHANGED <<pc, row>>
  <2>1. CopyStep
    BY <1>1, <1>5, <1>8, OtherCopy DEF CopyStep
  <2>2. TodoStatus' = TodoStatus /\ pc'[Worker] # "idle"
    BY <1>1, <1>8 DEF TodoStatus
  <2>3. TodoStep
    BY <1>4, <1>5, <2>2, TodoKept
  <2>4. QED
    BY <1>5, <1>6, <2>1, <2>3, Assemble
<1>9. QED
  BY <1>7, <1>8 DEF RevokeRow

LEMMA ReconcileReturnSafe ==
  ASSUME IInv, ReconcileReturn
  PROVE  IInv'
<1>1. /\ Worker \in Proc /\ pc \in [Proc -> Phase] /\ now \in Nat
      /\ row \in [Proc -> Row \cup {Null}] /\ pc[Worker] \in NoRow
  BY DEF Proc, NoRow, IInv, TypeOK, ReconcileReturn
<1>2. row[Worker] = Null
  BY <1>1 DEF IInv, CopiesFit, CopyFits
<1>3. UNCHANGED <<requests, now, audit, member, stops, actor, flag>>
      /\ UNCHANGED noteVars /\ todo' = {} /\ at' = 0 /\ server' = "serving"
  BY DEF ReconcileReturn, storeVars
<1>4. ClockStep /\ TableStep /\ KeepsRequests /\ N!TypeOK'
  BY <1>3, SameTime, TableUnchanged, SameNotifier DEF TableStep, IInv, TypeOK
<1>5. CopyStep
  <2>1. row' = [row EXCEPT ![Worker] = Null] /\ "idle" \in NoRow
    BY <1>1, <1>2 DEF ReconcileReturn, NoRow
  <2>2. QED
    BY <1>1, <1>4, <2>1, FinishedCopy DEF CopyStep, ReconcileReturn, Goto
<1>6. TodoStep
  BY <1>3 DEF TodoStep
<1>7. OtherTypes
  BY <1>3, <1>4 DEF OtherTypes, IInv, TypeOK
<1>8. QED
  BY <1>4, <1>5, <1>6, <1>7, Assemble

-----------------------------------------------------------------------------
(* The environment. *)

LEMMA StopSafe ==
  ASSUME IInv, Stop
  PROVE  IInv'
<1>1. UNCHANGED <<requests, now, audit, member>> /\ todo' = {} /\ at' = 0
  BY DEF Stop, storeVars
<1>2. ClockStep /\ TableStep
  BY <1>1, SameTime, TableUnchanged
<1>3. CopyStep
  BY Phases DEF Stop, CopyStep, CopyFits, NoRow
<1>4. TodoStep
  BY <1>1 DEF TodoStep
<1>5. N!TypeOK'
  BY DEF Stop, N!Crash, IInv, TypeOK, N!TypeOK
<1>6. OtherTypes
  BY <1>1, <1>5 DEF OtherTypes, Stop, IInv, TypeOK
<1>7. QED
  BY <1>2, <1>3, <1>4, <1>6, Assemble

LEMMA EnvironmentSafe ==
  ASSUME IInv,
         \/ Start \/ Tick
         \/ \E a \in User : HandleMe(a)
         \/ \E u \in Removals : RealmRemove(u)
         \/ UNCHANGED vars
  PROVE  IInv'
<1>1. UNCHANGED <<requests, pc, row, todo, actor, flag, at, stops>> /\ UNCHANGED noteVars
  BY DEF Start, Tick, HandleMe, RealmRemove, vars, storeVars, procVars, sweepVars, envVars
<1>2. ClockStep
  <2>1. now' = now \/ now' = now + 1
    BY DEF Start, Tick, HandleMe, RealmRemove, vars, envVars
  <2>2. QED
    BY <2>1 DEF ClockStep, IInv, TypeOK
<1>3. audit' \subseteq Event
  <2>1. ASSUME NEW a \in User, HandleMe(a)
        PROVE  audit' \subseteq Event
    BY <2>1, AuditTypes DEF HandleMe, Action
  <2>2. QED
    BY <2>1 DEF Start, Tick, RealmRemove, vars, storeVars, IInv, TypeOK
<1>4. member' \subseteq User /\ server' \in {"down", "booting", "serving"}
  BY DEF Start, Tick, HandleMe, RealmRemove, vars, envVars, IInv, TypeOK
<1>5. N!TypeOK'
  BY <1>1, SameNotifier DEF IInv, TypeOK
<1>6. OtherTypes
  BY <1>1, <1>3, <1>4, <1>5 DEF OtherTypes, IInv, TypeOK
<1>7. QED
  BY <1>1, <1>2, <1>6, OnlyTypes

-----------------------------------------------------------------------------
(* Who decides.  An approval in the making is a permanent administrator's: *)
(* the check precedes the place where the columns of the grant are made.   *)
DeciderPermitted ==
  \A p \in Proc : pc[p] = "approve_decide" => actor[p] \in Permanent

(* A goroutine that moves elsewhere takes nobody to the decision. *)
LEMMA DeciderKept ==
  ASSUME IInv, DeciderPermitted, NEW p \in Proc, NEW ph,
         ph # "approve_decide" \/ actor'[p] \in Permanent,
         Goto(p, ph), \A q \in Proc \ {p} : actor'[q] = actor[q]
  PROVE  DeciderPermitted'
BY DEF DeciderPermitted, Goto, IInv, TypeOK

LEMMA DeciderFinish ==
  ASSUME IInv, DeciderPermitted, NEW p \in Proc, Finish(p)
  PROVE  DeciderPermitted'
<1>1. Resume(p) # "approve_decide" /\ Goto(p, Resume(p))
  BY DEF Resume, Finish
<1>2. \A q \in Proc \ {p} : actor'[q] = actor[q]
  BY DEF Finish, IInv, TypeOK
<1>3. QED
  BY <1>1, <1>2, DeciderKept

LEMMA DeciderOfHandler ==
  ASSUME IInv, DeciderPermitted, NEW s \in Slot, HandlerStep(s)
  PROVE  DeciderPermitted'
<1>1. s \in Proc
  BY SlotIsNotWorker
<1>2. CASE Finish(s)
  BY <1>1, <1>2, DeciderFinish
<1>3. ASSUME NEW ph, ph # "approve_decide", Goto(s, ph), UNCHANGED actor
      PROVE  DeciderPermitted'
  BY <1>1, <1>3, DeciderKept
<1>4. QED
  BY <1>2, <1>3
     DEF HandlerStep, CreateAudit, CreateNotify, ApproveDecide, ExpireStore,
         ExpireAudit, ExpireNotify, ApproveAdd, ApproveStore, ApproveAudit,
         ApproveAuditGrant, ApproveNotify, ReleaseRemove, ReleaseStore,
         ReleaseAudit, ReleaseNotify, EndStore, Notify, Post

LEMMA DeciderOfWorker ==
  ASSUME IInv, DeciderPermitted, ReconcileStep
  PROVE  DeciderPermitted'
<1>1. Worker \in Proc
  BY DEF Proc
<1>2. CASE Finish(Worker)
  BY <1>1, <1>2, DeciderFinish
<1>3. ASSUME NEW ph, ph # "approve_decide", Goto(Worker, ph), UNCHANGED actor
      PROVE  DeciderPermitted'
  BY <1>1, <1>3, DeciderKept
<1>4. CASE UNCHANGED <<pc, actor>>
  BY <1>4 DEF DeciderPermitted
<1>5. QED
  BY <1>2, <1>3, <1>4
     DEF ReconcileStep, Reconcile, ExpireRow, RevokeRow, ExpireAudit,
         ExpireNotify, ReconcileActive, RevokeStore, RevokeAudit, RevokeNotify,
         ReconcileReturn, EndStore, Notify, Post

LEMMA DeciderOfCalls ==
  ASSUME IInv, DeciderPermitted, NEW s \in Slot, NEW r \in Req,
         \/ \E a \in User \cup {Null}, u \in User : HandleCreate(s, a, u, r)
         \/ \E a \in User : HandleApprove(s, a, r)
         \/ \E a \in User \cup {Null} : HandleRelease(s, a, r)
  PROVE  DeciderPermitted'
<1>1. s \in Proc
  BY SlotIsNotWorker
<1>2. ASSUME NEW ph, NEW a \in User \cup {Null},
             ph # "approve_decide" \/ a \in Permanent,
             Goto(s, ph), actor' = [actor EXCEPT ![s] = a]
      PROVE  DeciderPermitted'
  <2>1. /\ \A q \in Proc \ {s} : actor'[q] = actor[q]
        /\ actor'[s] = a
    BY <1>1, <1>2 DEF IInv, TypeOK
  <2>2. QED
    BY <1>1, <1>2, <2>1, DeciderKept
<1>3. QED
  BY <1>2 DEF HandleCreate, HandleApprove, HandleRelease

-----------------------------------------------------------------------------
(* What a step of one goroutine leaves alone of the others, and the copy    *)
(* the reconciler stores: for the proofs about more than one goroutine.     *)
Stays(q) == pc'[q] = pc[q] /\ row'[q] = row[q] /\ actor'[q] = actor[q]

OthersStay(p) == \A q \in Proc \ {p} : Stays(q)

LEMMA ExpiredFits ==
  ASSUME IInv, NEW x \in todo, pc[Worker] = "expire",
         NEW y, y = [x EXCEPT !.status = "expired"]
  PROVE  y \in Row /\ Fits(y) /\ y.status = "expired" /\ y.id = x.id
<1>1. /\ x \in Row /\ Fits(x) /\ x.requestExpiresAt <= now /\ x.status = "pending"
  BY DEF IInv, TypeOK, CopiesFit, TodoFits, TodoStatus
<1>3. /\ y \in Row /\ y.status = "expired" /\ y.id = x.id /\ y.user = x.user
      /\ y.requestExpiresAt = x.requestExpiresAt /\ y.releasedAt = x.releasedAt
      /\ y.approvedAt = x.approvedAt /\ y.approvedBy = x.approvedBy
      /\ y.activeExpiresAt = x.activeExpiresAt
  BY <1>1 DEF Row, Status
<1>4. Fits(y)
  BY <1>1, <1>3 DEF Fits, SameRequest, Coherent
<1>5. QED
  BY <1>3, <1>4

LEMMA GotoAlone ==
  ASSUME IInv, NEW p \in Proc, NEW ph, Goto(p, ph),
         \A q \in Proc \ {p} : row'[q] = row[q] /\ actor'[q] = actor[q]
  PROVE  OthersStay(p)
BY DEF Goto, OthersStay, Stays, IInv, TypeOK

LEMMA FinishAlone ==
  ASSUME IInv, NEW p \in Proc, Finish(p)
  PROVE  OthersStay(p)
BY DEF Finish, Goto, OthersStay, Stays, IInv, TypeOK

(* What each goroutine's step leaves alone of the others'. *)
LEMMA HandlerAlone ==
  ASSUME IInv, NEW s \in Slot, HandlerStep(s)
  PROVE  OthersStay(s)
<1>1. s \in Proc /\ row \in [Proc -> Row \cup {Null}]
  BY SlotIsNotWorker DEF IInv, TypeOK
<1>2. CASE Finish(s)
  BY <1>1, <1>2, FinishAlone
<1>3. ASSUME NEW ph, Goto(s, ph), UNCHANGED actor,
             \/ UNCHANGED row \/ \E y : row' = [row EXCEPT ![s] = y]
      PROVE  OthersStay(s)
  BY <1>1, <1>3, GotoAlone
<1>4. CASE \/ CreateAudit(s) \/ ApproveAudit(s) \/ ApproveAuditGrant(s) \/ ReleaseAudit(s)
           \/ ExpireAudit(s) \/ ReleaseRemove(s) \/ ApproveAdd(s) \/ ExpireStore(s)
           \/ ApproveStore(s)
  BY <1>2, <1>3, <1>4
     DEF CreateAudit, ApproveAudit, ApproveAuditGrant, ReleaseAudit, ExpireAudit,
         ReleaseRemove, ApproveAdd, ExpireStore, ApproveStore
<1>5. CASE CreateNotify(s) \/ ApproveNotify(s) \/ ReleaseNotify(s) \/ ExpireNotify(s) \/ Post(s)
  BY <1>2, <1>3, <1>5
     DEF CreateNotify, ApproveNotify, ReleaseNotify, ExpireNotify, Notify, Post
<1>6. CASE ApproveDecide(s)
  <2>1. \E y : row' = [row EXCEPT ![s] = y]
    BY <1>6 DEF ApproveDecide
  <2>2. QED
    BY <1>3, <1>6, <2>1 DEF ApproveDecide
<1>7. CASE ReleaseStore(s)
  BY <1>2, <1>3, <1>7 DEF ReleaseStore, EndStore
<1>8. QED
  BY <1>4, <1>5, <1>6, <1>7 DEF HandlerStep

LEMMA WorkerAlone ==
  ASSUME IInv, ReconcileStep
  PROVE  OthersStay(Worker)
<1>1. Worker \in Proc /\ row \in [Proc -> Row \cup {Null}]
  BY DEF Proc, IInv, TypeOK
<1>2. CASE Finish(Worker)
  BY <1>1, <1>2, FinishAlone
<1>3. ASSUME NEW ph, Goto(Worker, ph), UNCHANGED actor,
             \/ UNCHANGED row \/ \E y : row' = [row EXCEPT ![Worker] = y]
      PROVE  OthersStay(Worker)
  BY <1>1, <1>3, GotoAlone
<1>4. CASE Reconcile \/ ReconcileActive \/ ReconcileReturn \/ ExpireAudit(Worker) \/ RevokeAudit
  BY <1>3, <1>4 DEF Reconcile, ReconcileActive, ReconcileReturn, ExpireAudit, RevokeAudit
<1>5. CASE ExpireNotify(Worker) \/ RevokeNotify \/ Post(Worker)
  BY <1>2, <1>3, <1>5 DEF ExpireNotify, RevokeNotify, Notify, Post
<1>6. ASSUME NEW x \in todo, ExpireRow(x) \/ RevokeRow(x)
      PROVE  OthersStay(Worker)
  <2>1. CASE UNCHANGED <<pc, row, actor>>
    BY <2>1 DEF OthersStay, Stays
  <2>2. QED
    BY <1>3, <1>6, <2>1 DEF ExpireRow, RevokeRow
<1>7. CASE RevokeStore
  BY <1>2, <1>3, <1>7 DEF RevokeStore, EndStore
<1>8. QED
  BY <1>4, <1>5, <1>6, <1>7 DEF ReconcileStep

LEMMA CallAlone ==
  ASSUME IInv, NEW s \in Slot, NEW r \in Req,
         \/ \E a \in User \cup {Null}, u \in User : HandleCreate(s, a, u, r)
         \/ \E a \in User : HandleApprove(s, a, r)
         \/ \E a \in User \cup {Null} : HandleRelease(s, a, r)
  PROVE  OthersStay(s)
<1>1. s \in Proc /\ row \in [Proc -> Row \cup {Null}] /\ actor \in [Proc -> User \cup {Null}]
  BY SlotIsNotWorker DEF IInv, TypeOK
<1>2. \A q \in Proc \ {s} : row'[q] = row[q] /\ actor'[q] = actor[q]
  BY <1>1 DEF HandleCreate, HandleApprove, HandleRelease
<1>3. QED
  BY <1>1, <1>2, GotoAlone DEF HandleCreate, HandleApprove, HandleRelease

-----------------------------------------------------------------------------
(* A copy that an approval is stored from names its handler's user. *)
OwnApproval ==
  \A p \in Proc : pc[p] \in {"approve_add", "approve_store", "approve_audit"} =>
    p \in Slot /\ row[p].approvedBy = actor[p]

LEMMA OwnKept ==
  ASSUME OwnApproval, NEW p \in Proc, OthersStay(p),
         \/ pc'[p] \notin {"approve_add", "approve_store", "approve_audit"}
         \/ p \in Slot /\ row'[p].approvedBy = actor'[p]
  PROVE  OwnApproval'
BY DEF OwnApproval, OthersStay, Stays

(* Where an approval's copy is made, and the places it is carried through. *)
LEMMA OwnOfHandler ==
  ASSUME IInv, OwnApproval, NEW s \in Slot, HandlerStep(s)
  PROVE  OwnApproval'
<1>1. s \in Proc /\ OthersStay(s)
  BY HandlerAlone, SlotIsNotWorker
<1>2. CASE ApproveDecide(s)
  <2>1. CASE Goto(s, "expire_store")
    BY <1>1, <2>1, OwnKept DEF Goto, IInv, TypeOK
  <2>2. CASE row' = [row EXCEPT ![s] = Approved(row[s], actor[s])]
    <3>1. row \in [Proc -> Row \cup {Null}] /\ row[s] \in Row /\ UNCHANGED actor
      BY <1>1, <1>2, HeldRow DEF ApproveDecide, NoRow, IInv, TypeOK
    <3>2. row'[s].approvedBy = actor'[s]
      BY <1>1, <2>2, <3>1 DEF Approved, Row
    <3>3. QED
      BY <1>1, <3>2, OwnKept
  <2>3. QED
    BY <1>2, <2>1, <2>2 DEF ApproveDecide
<1>3. CASE ApproveAdd(s) \/ ApproveStore(s)
  <2>1. CASE Finish(s)
    <3>1. pc'[s] \in NoRow
      BY <1>1, <2>1 DEF Finish, Goto, Resume, NoRow, IInv, TypeOK
    <3>2. QED
      BY <1>1, <3>1, OwnKept DEF NoRow
  <2>2. CASE UNCHANGED <<row, actor>>
    <3>1. row'[s].approvedBy = actor'[s]
      BY <1>1, <1>3, <2>2 DEF OwnApproval, ApproveAdd, ApproveStore
    <3>2. QED
      BY <1>1, <3>1, OwnKept
  <2>3. QED
    BY <1>3, <2>1, <2>2 DEF ApproveAdd, ApproveStore
<1>4. CASE pc'[s] \notin {"approve_add", "approve_store", "approve_audit"}
  BY <1>1, <1>4, OwnKept
<1>5. QED
  BY <1>1, <1>2, <1>3, <1>4
     DEF HandlerStep, CreateAudit, CreateNotify, ExpireStore, ExpireAudit, ExpireNotify,
         ApproveAudit, ApproveAuditGrant, ApproveNotify, ReleaseRemove, ReleaseStore,
         EndStore, ReleaseAudit, ReleaseNotify, Notify, Post, Finish, Goto, Resume, IInv, TypeOK

LEMMA OwnOfWorker ==
  ASSUME IInv, OwnApproval, ReconcileStep
  PROVE  OwnApproval'
<1>1. Worker \in Proc /\ OthersStay(Worker) /\ pc \in [Proc -> Phase]
  BY WorkerAlone DEF Proc, IInv, TypeOK
<1>2. CASE pc'[Worker] \notin {"approve_add", "approve_store", "approve_audit"}
  BY <1>1, <1>2, OwnKept
<1>3. ASSUME NEW x \in todo, ExpireRow(x) \/ RevokeRow(x)
      PROVE  OwnApproval'
  BY <1>1, <1>2, <1>3 DEF ExpireRow, RevokeRow, Goto
<1>4. QED
  BY <1>1, <1>2, <1>3
     DEF ReconcileStep, Reconcile, ExpireAudit, ExpireNotify, ReconcileActive, RevokeStore,
         EndStore, RevokeAudit, RevokeNotify, ReconcileReturn, Notify, Post, Finish, Goto, Resume

LEMMA OwnStep ==
  ASSUME IInv, OwnApproval, [Next]_vars
  PROVE  OwnApproval'
<1>1. ASSUME NEW s \in Slot, NEW r \in Req,
             \/ \E a \in User \cup {Null}, u \in User : HandleCreate(s, a, u, r)
             \/ \E a \in User : HandleApprove(s, a, r)
             \/ \E a \in User \cup {Null} : HandleRelease(s, a, r)
      PROVE  OwnApproval'
  <2>1. s \in Proc /\ OthersStay(s)
    BY <1>1, CallAlone, SlotIsNotWorker
  <2>2. pc'[s] \in {"create_audit", "approve_decide", "release_remove"}
    BY <1>1, <2>1 DEF HandleCreate, HandleApprove, HandleRelease, Goto, IInv, TypeOK
  <2>3. QED
    BY <2>1, <2>2, OwnKept
<1>2. CASE Stop
  BY <1>2 DEF Stop, OwnApproval
<1>3. CASE UNCHANGED <<pc, row, actor>>
  BY <1>3 DEF OwnApproval
<1>4. QED
  BY <1>1, <1>2, <1>3, OwnOfHandler, OwnOfWorker
     DEF Next, HandleMe, Start, Tick, RealmRemove, vars, procVars

-----------------------------------------------------------------------------
(* Every step. *)

LEMMA HandlerSafe ==
  ASSUME IInv, DeciderPermitted, NEW s \in Slot, HandlerStep(s)
  PROVE  IInv'
<1>1. s \in Proc
  BY SlotIsNotWorker
<1>2. CASE CreateAudit(s) \/ ApproveAudit(s) \/ ApproveAuditGrant(s) \/ ReleaseAudit(s)
  BY <1>2, AuditsSafe
<1>3. CASE \/ CreateNotify(s) \/ ApproveNotify(s) \/ ReleaseNotify(s)
           \/ ExpireNotify(s)
  BY <1>1, <1>3, NotifySafe
     DEF CreateNotify, ApproveNotify, ReleaseNotify, ExpireNotify, Kind, NoRow
<1>4. CASE ApproveDecide(s)
  BY <1>1, <1>4, DecideSafe DEF DeciderPermitted, ApproveDecide
<1>5. CASE ExpireStore(s) \/ ApproveStore(s)
  BY <1>5, ApproveStoresSafe
<1>6. CASE ExpireAudit(s)
  BY <1>1, <1>6, ExpireAuditSafe
<1>7. CASE ApproveAdd(s) \/ ReleaseRemove(s)
  BY <1>7, GroupCallsSafe
<1>8. CASE ReleaseStore(s)
  BY <1>1, <1>8, EndStoreSafe DEF ReleaseStore
<1>9. CASE Post(s)
  BY <1>1, <1>9, PostSafe
<1>10. QED
  BY <1>2, <1>3, <1>4, <1>5, <1>6, <1>7, <1>8, <1>9 DEF HandlerStep

LEMMA WorkerSafe ==
  ASSUME IInv, ReconcileStep
  PROVE  IInv'
<1>1. Worker \in Proc
  BY DEF Proc
<1>2. CASE Reconcile \/ ReconcileActive
  BY <1>2, ReconcileSafe
<1>3. CASE \E x \in todo : ExpireRow(x) \/ RevokeRow(x)
  BY <1>3, ExpireRowSafe, RevokeRowSafe
<1>4. CASE ExpireNotify(Worker) \/ RevokeNotify
  BY <1>1, <1>4, NotifySafe DEF ExpireNotify, RevokeNotify, Kind, NoRow
<1>5. CASE ExpireAudit(Worker)
  BY <1>1, <1>5, ExpireAuditSafe
<1>6. CASE RevokeStore
  BY <1>1, <1>6, EndStoreSafe DEF RevokeStore
<1>7. CASE RevokeAudit
  BY <1>7, RevokeAuditSafe
<1>8. CASE Post(Worker)
  BY <1>1, <1>8, PostSafe
<1>9. CASE ReconcileReturn
  BY <1>9, ReconcileReturnSafe
<1>10. QED
  BY <1>2, <1>3, <1>4, <1>5, <1>6, <1>7, <1>8, <1>9 DEF ReconcileStep

LEMMA Inductive == IInv /\ DeciderPermitted /\ [Next]_vars => IInv' /\ DeciderPermitted'
<1> SUFFICES ASSUME IInv, DeciderPermitted, [Next]_vars
             PROVE  IInv' /\ DeciderPermitted'
  OBVIOUS
<1>1. ASSUME NEW s \in Slot, NEW r \in Req,
             \/ \E a \in User \cup {Null}, u \in User : HandleCreate(s, a, u, r)
             \/ \E a \in User : HandleApprove(s, a, r)
             \/ \E a \in User \cup {Null} : HandleRelease(s, a, r)
      PROVE  IInv' /\ DeciderPermitted'
  BY <1>1, CreateSafe, ApproveSafe, ReleaseSafe, DeciderOfCalls
<1>2. ASSUME NEW s \in Slot, HandlerStep(s)
      PROVE  IInv' /\ DeciderPermitted'
  BY <1>2, HandlerSafe, DeciderOfHandler
<1>3. CASE ReconcileStep
  BY <1>3, WorkerSafe, DeciderOfWorker
<1>4. CASE Stop
  <2>1. DeciderPermitted'
    BY <1>4 DEF Stop, DeciderPermitted
  <2>2. QED
    BY <1>4, <2>1, StopSafe
<1>5. CASE \/ Start \/ Tick
           \/ \E a \in User : HandleMe(a)
           \/ \E u \in Removals : RealmRemove(u)
           \/ UNCHANGED vars
  <2>1. UNCHANGED <<pc, actor>>
    BY <1>5 DEF Start, Tick, HandleMe, RealmRemove, vars, procVars
  <2>2. DeciderPermitted'
    BY <2>1 DEF DeciderPermitted
  <2>3. QED
    BY <1>5, <2>2, EnvironmentSafe
<1>6. QED
  BY <1>1, <1>2, <1>3, <1>4, <1>5 DEF Next

LEMMA Initially == Init => IInv /\ DeciderPermitted
<1> SUFFICES ASSUME Init
             PROVE  IInv /\ DeciderPermitted
  OBVIOUS
<1>1. N!TypeOK
  BY DEF Init, N!Init, N!TypeOK
<1>2. TypeOK
  BY <1>1, Phases DEF Init, TypeOK, NoRow
<1>3. CopiesFit
  BY Phases DEF Init, CopiesFit, CopyFits, NoRow
<1>4. Keyed /\ StoredCoherent /\ DeciderPermitted
  BY DEF Init, Keyed, StoredCoherent, DeciderPermitted
<1>5. QED
  BY <1>2, <1>3, <1>4 DEF IInv

LEMMA Invariance == Spec => [](IInv /\ DeciderPermitted)
BY Initially, Inductive, PTL DEF Spec

(* Type correctness of the service. *)
THEOREM TypeCorrect == Spec => []TypeOK
<1>1. IInv => TypeOK
  BY DEF IInv
<1>2. QED
  BY <1>1, Invariance, PTL

(* Every stored row is coherent, whatever interleaves, fails or restarts.  *)
THEOREM TableCoherent == Spec => []RowsCoherent
<1>1. IInv => RowsCoherent
  BY DEF IInv, StoredCoherent, RowsCoherent, Rows
<1>2. QED
  BY <1>1, Invariance, PTL

(* Every copy a goroutine works with fits its place and the table.         *)
THEOREM CopiesAlwaysFit == Spec => []CopiesFit
<1>1. IInv => CopiesFit
  BY DEF IInv
<1>2. QED
  BY <1>1, Invariance, PTL
=============================================================================
