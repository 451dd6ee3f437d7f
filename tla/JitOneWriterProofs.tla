------------------------- MODULE JitOneWriterProofs -------------------------
(***************************************************************************)
(* What the service guarantees where its operations do not get in each      *)
(* other's way, for any number of users, requests and handlers, up to the   *)
(* promise of Elevation.  The condition is OneWriter: no two goroutines are *)
(* between reading and writing the same request.  Nothing in the code       *)
(* enforces it; the runs stale_expire_orphan and double_approve show what   *)
(* happens without it.                                                     *)
(*                                                                         *)
(* The properties rest on one invariant, RowSync: a goroutine's copy still  *)
(* says what the table says, up to the change it is about to store.  It is  *)
(* inductive because nobody else is about to write that request.  The last  *)
(* section shows that one operation per user at a time (Isolated, the       *)
(* restriction of the runs) gives one writer per request.                   *)
(***************************************************************************)
EXTENDS JitAccessElevation, JitAccessProofs, FiniteSetTheorems

Stored(x) == requests[x.id] = x

StillPending(x) == requests[x.id].status = "pending"

(* Where the copy is the stored row, and where it is one change ahead of a  *)
(* pending one.                                                            *)
Equal == {"approve_decide", "release_remove", "release_store", "revoke_store",
          "revoke_audit"}

Ahead == {"approve_add", "approve_store", "expire_store"}

CopySync(p) ==
  /\ pc[p] \in Equal => Stored(row[p])
  /\ pc[p] \in Ahead => StillPending(row[p])

TodoSync == \A x \in todo : Stored(x) /\ (row[Worker] # Null => x.id # row[Worker].id)

RowSync == (\A p \in Proc : CopySync(p)) /\ TodoSync

-----------------------------------------------------------------------------
(* What a goroutine writes: a new row, or one it is at work on.             *)
Writes(p, y) == /\ y \in Row /\ requests' = [requests EXCEPT ![y.id] = y]
                /\ \/ requests[y.id] = Null
                   \/ WorksOn(p, y.id) /\ requests[y.id].status # "released"

OwnWrite(p) == UNCHANGED requests \/ \E y : Writes(p, y)

(* A row that somebody else is at work on is not touched, nor one that has  *)
(* been released.                                                          *)
LEMMA RowKept ==
  ASSUME IInv, OneWriter, NEW p \in Proc, OwnWrite(p), NEW x \in Row, requests[x.id] # Null,
         \/ \E q \in Proc \ {p} : WorksOn(q, x.id)
         \/ requests[x.id].status = "released"
  PROVE  requests'[x.id] = requests[x.id]
<1>1. requests \in [Req -> Row \cup {Null}] /\ x.id \in Req
  BY DEF IInv, TypeOK, Row
<1>2. ASSUME NEW y, Writes(p, y)
      PROVE  y.id # x.id
  BY <1>1, <1>2 DEF Writes, OneWriter
<1>3. QED
  BY <1>1, <1>2 DEF OwnWrite, Writes

(* A goroutine that holds a row to be written works on its request. *)
LEMMA Worked ==
  ASSUME IInv, NEW p \in Proc, pc[p] \in WritePhase
  PROVE  WorksOn(p, row[p].id) /\ row[p] \in Row /\ SameRequest(row[p])
BY HeldRow DEF WorksOn, WritePhase, NoRow, Fits

LEMMA OthersSync ==
  ASSUME IInv, RowSync, OneWriter, NEW p \in Proc, OwnWrite(p), NEW q \in Proc \ {p}, Stays(q)
  PROVE  CopySync(q)'
<1>1. CASE pc[q] \in WritePhase
  <2>1. requests'[row[q].id] = requests[row[q].id]
    BY <1>1, Worked, RowKept DEF SameRequest
  <2>2. QED
    BY <2>1 DEF RowSync, CopySync, Stays, Stored, StillPending
<1>2. CASE pc[q] = "revoke_audit"
  <2>1. row[q] \in Row /\ SameRequest(row[q]) /\ row[q].status = "released"
    BY <1>2, HeldRow DEF NoRow, Fits, IInv, CopiesFit, CopyFits, PhaseStatus
  <2>2. requests[row[q].id] = row[q]
    BY <1>2 DEF RowSync, CopySync, Equal, Stored
  <2>3. requests'[row[q].id] = requests[row[q].id]
    BY <2>1, <2>2, RowKept DEF SameRequest
  <2>4. QED
    BY <2>3 DEF RowSync, CopySync, Stays, Stored, StillPending
<1>3. CASE pc[q] \notin WritePhase \cup {"revoke_audit"}
  BY <1>3 DEF CopySync, Stays, WritePhase, Equal, Ahead
<1>4. QED
  BY <1>1, <1>2, <1>3

(* The reconciler's rows while a handler writes. *)
LEMMA OthersTodo ==
  ASSUME IInv, RowSync, OneWriter, NEW s \in Slot, OwnWrite(s), Stays(Worker), UNCHANGED todo
  PROVE  TodoSync'
<1>1. s \in Proc /\ Worker \in Proc \ {s}
  BY SlotIsNotWorker
<1>2. ASSUME NEW x \in todo
      PROVE  requests'[x.id] = x /\ (row'[Worker] # Null => x.id # row'[Worker].id)
  <2>1. x \in Row /\ SameRequest(x) /\ WorksOn(Worker, x.id)
    BY DEF IInv, TypeOK, CopiesFit, TodoFits, Fits, WorksOn
  <2>2. requests'[x.id] = requests[x.id]
    BY <1>1, <2>1, RowKept DEF SameRequest
  <2>3. QED
    BY <2>2 DEF RowSync, TodoSync, Stored, Stays
<1>3. QED
  BY <1>2 DEF TodoSync, Stored

(* Assembling a step of a handler, and one of the reconciler. *)
LEMMA HandlerSync ==
  ASSUME IInv, RowSync, OneWriter, NEW s \in Slot, OthersStay(s), UNCHANGED todo, OwnWrite(s),
         CopySync(s)'
  PROVE  RowSync'
<1>1. s \in Proc /\ Worker \in Proc \ {s}
  BY SlotIsNotWorker
<1>2. \A q \in Proc \ {s} : CopySync(q)'
  BY <1>1, OthersSync DEF OthersStay
<1>3. TodoSync'
  BY <1>1, OthersTodo DEF OthersStay
<1>4. QED
  BY <1>2, <1>3 DEF RowSync

LEMMA WorkerSync ==
  ASSUME IInv, RowSync, OneWriter, OthersStay(Worker), OwnWrite(Worker), CopySync(Worker)',
         TodoSync'
  PROVE  RowSync'
<1>1. Worker \in Proc
  BY DEF Proc
<1>2. \A q \in Proc \ {Worker} : CopySync(q)'
  BY <1>1, OthersSync DEF OthersStay
<1>3. QED
  BY <1>2 DEF RowSync

-----------------------------------------------------------------------------
(* The steps of a handler. *)
LEMMA FinishSync ==
  ASSUME IInv, RowSync, OneWriter, NEW p \in Proc, Finish(p), UNCHANGED <<requests, todo>>
  PROVE  RowSync'
<1>1. pc'[p] \in NoRow /\ row'[p] = Null
  BY DEF Finish, Goto, Resume, NoRow, IInv, TypeOK
<1>2. OthersStay(p) /\ CopySync(p)' /\ OwnWrite(p)
  BY <1>1, FinishAlone DEF OwnWrite, CopySync, NoRow, Equal, Ahead
<1>3. CASE p = Worker
  <2>1. TodoSync'
    BY <1>1, <1>3 DEF RowSync, TodoSync, Stored
  <2>2. QED
    BY <1>2, <1>3, <2>1, WorkerSync
<1>4. CASE p # Worker
  BY <1>2, <1>4, HandlerSync DEF Proc
<1>5. QED
  BY <1>3, <1>4

(* A goroutine that goes on and changes neither its row nor the table. *)
LEMMA GoesOnSync ==
  ASSUME IInv, RowSync, OneWriter, NEW p \in Proc, NEW ph, Goto(p, ph),
         UNCHANGED <<requests, row, actor, todo>>,
         \/ ph \notin Equal \cup Ahead
         \/ pc[p] \in Equal /\ ph \in Equal
         \/ pc[p] \in Ahead /\ ph \in Ahead
  PROVE  RowSync'
<1>1. pc'[p] = ph /\ row'[p] = row[p]
  BY DEF Goto, IInv, TypeOK
<1>2. OthersStay(p) /\ OwnWrite(p)
  BY <1>1, GotoAlone DEF OwnWrite
<1>3. CopySync(p)'
  BY <1>1 DEF RowSync, CopySync, Stored, StillPending, Equal, Ahead
<1>4. CASE p = Worker
  <2>1. TodoSync'
    BY DEF RowSync, TodoSync, Stored
  <2>2. QED
    BY <1>2, <1>3, <1>4, <2>1, WorkerSync
<1>5. CASE p # Worker
  BY <1>2, <1>3, <1>5, HandlerSync DEF Proc
<1>6. QED
  BY <1>4, <1>5

LEMMA NotifySync ==
  ASSUME IInv, RowSync, OneWriter, NEW p \in Proc, NEW kind, Notify(p, kind)
  PROVE  RowSync'
<1>1. "post" \notin Equal \cup Ahead
  BY DEF Equal, Ahead
<1>2. QED
  BY <1>1, FinishSync, GoesOnSync DEF Notify, storeVars, sweepVars

(* A goroutine stores its row, changed or not, and keeps what it stored. *)
LEMMA StoreSync ==
  ASSUME IInv, RowSync, OneWriter, NEW p \in Proc, NEW y \in Row, NEW ph, OthersStay(p),
         Writes(p, y), pc'[p] = ph, ph \notin Ahead, row'[p] = y,
         p # Worker => todo' = todo,
         p = Worker => todo' \subseteq todo /\ \A x \in todo' : x.id # y.id
  PROVE  RowSync'
<1>1. requests' = [requests EXCEPT ![y.id] = y] /\ requests'[y.id] = y /\ y.id \in Req
  BY DEF Writes, IInv, TypeOK, Row
<1>2. OwnWrite(p) /\ CopySync(p)'
  BY <1>1 DEF OwnWrite, CopySync, Stored, Equal, Ahead
<1>3. CASE p = Worker
  <2>1. ASSUME NEW x \in todo'
        PROVE  requests'[x.id] = x /\ x.id # row'[Worker].id
    <3>1. x \in todo /\ x.id # y.id /\ x.id \in Req
      BY <1>3, <2>1 DEF IInv, TypeOK, Row
    <3>2. requests'[x.id] = requests[x.id]
      BY <1>1, <3>1 DEF IInv, TypeOK
    <3>3. QED
      BY <1>3, <3>1, <3>2 DEF RowSync, TodoSync, Stored
  <2>2. TodoSync'
    BY <2>1 DEF TodoSync, Stored
  <2>3. QED
    BY <1>2, <1>3, <2>2, WorkerSync
<1>4. CASE p # Worker
  BY <1>2, <1>4, HandlerSync DEF Proc
<1>5. QED
  BY <1>3, <1>4

LEMMA EndStoreSync ==
  ASSUME IInv, RowSync, OneWriter, NEW p \in Proc, pc[p] \in {"release_store", "revoke_store"},
         NEW next \in {"release_audit", "revoke_audit"}, EndStore(p, next)
  PROVE  RowSync'
<1>1. UNCHANGED todo /\ pc[p] \in WritePhase /\ pc[p] \notin NoRow /\ pc[p] \in Equal
  BY DEF EndStore, sweepVars, NoRow, WritePhase, Equal
<1>2. CASE UNCHANGED requests /\ Finish(p)
  BY <1>1, <1>2, FinishSync
<1>3. CASE /\ Update(Released(row[p])) /\ row' = [row EXCEPT ![p] = Released(row[p])]
           /\ Goto(p, next) /\ UNCHANGED <<actor, flag>>
  <2>1. row[p] \in Row /\ Fits(row[p]) /\ row[p].status = "approved" /\ row[p] # Null
    BY <1>1, HeldRow DEF IInv, CopiesFit, CopyFits, PhaseStatus
  <2>2. PICK y \in Row : y = Released(row[p]) /\ Fits(y)
    BY <2>1, ReleasedFits
  <2>3. y.id = row[p].id
    BY <2>1, <2>2 DEF Released, Row
  <2>4. requests' = [requests EXCEPT ![y.id] = y]
    BY <1>3, <2>2, UpdatedIsCopy DEF Update, Fits
  <2>5. requests[y.id].status = "approved" /\ WorksOn(p, y.id)
    BY <1>1, <2>1, <2>3, Worked DEF RowSync, CopySync, Stored
  <2>6. Writes(p, y)
    BY <2>4, <2>5 DEF Writes
  <2>7. pc'[p] = next /\ row'[p] = y /\ OthersStay(p)
    BY <1>3, <2>2, GotoAlone DEF Goto, IInv, TypeOK
  <2>8. p = Worker => \A x \in todo : x.id # y.id
    BY <2>1, <2>3 DEF RowSync, TodoSync
  <2>9. next \notin Ahead
    BY DEF Ahead
  <2>10. QED
    BY <1>1, <2>6, <2>7, <2>8, <2>9, StoreSync
<1>4. QED
  BY <1>2, <1>3 DEF EndStore

LEMMA StepOfHandlerSync ==
  ASSUME IInv, RowSync, OneWriter, NEW s \in Slot, HandlerStep(s)
  PROVE  RowSync'
<1>1. s \in Proc /\ s # Worker /\ OthersStay(s) /\ pc \in [Proc -> Phase]
      /\ row \in [Proc -> Row \cup {Null}]
  BY HandlerAlone, SlotIsNotWorker DEF IInv, TypeOK
<1>2. CASE \/ CreateAudit(s) \/ ApproveAudit(s) \/ ApproveAuditGrant(s) \/ ReleaseAudit(s)
           \/ ExpireAudit(s)
  BY <1>1, <1>2, GoesOnSync
     DEF CreateAudit, ApproveAudit, ApproveAuditGrant, ReleaseAudit, ExpireAudit, sweepVars,
         Equal, Ahead
<1>3. CASE ReleaseRemove(s) \/ ApproveAdd(s)
  BY <1>1, <1>3, FinishSync, GoesOnSync
     DEF ReleaseRemove, ApproveAdd, storeVars, sweepVars, Equal, Ahead
<1>4. CASE CreateNotify(s) \/ ApproveNotify(s) \/ ReleaseNotify(s) \/ ExpireNotify(s)
  BY <1>1, <1>4, NotifySync DEF CreateNotify, ApproveNotify, ReleaseNotify, ExpireNotify
<1>5. CASE Post(s)
  BY <1>1, <1>5, FinishSync DEF Post, storeVars, sweepVars
<1>6. CASE ApproveDecide(s)
  <2>1. pc[s] = "approve_decide" /\ UNCHANGED <<requests, todo>>
    BY <1>6 DEF ApproveDecide, storeVars, sweepVars
  <2>2. row[s] \in Row /\ Stored(row[s]) /\ row[s].status = "pending"
    BY <1>1, <2>1, HeldRow
       DEF NoRow, RowSync, CopySync, Equal, IInv, CopiesFit, CopyFits, PhaseStatus
  <2>3. pc'[s] \in Ahead
    BY <1>1, <1>6 DEF ApproveDecide, Goto, Ahead
  <2>4. row'[s].id = row[s].id
    <3>1. PICK x \in Row : x = row[s]
      BY <2>2
    <3>2. row'[s] = [x EXCEPT !.status = "expired"] \/ row'[s] = Approved(x, actor[s])
      BY <1>1, <1>6, <3>1 DEF ApproveDecide
    <3>3. row'[s].id = x.id
      BY <3>2 DEF Approved, Row
    <3>4. QED
      BY <3>1, <3>3
  <2>5. CopySync(s)'
    BY <2>1, <2>2, <2>3, <2>4 DEF CopySync, Stored, StillPending, Equal, Ahead
  <2>6. QED
    BY <1>1, <2>1, <2>5, HandlerSync DEF OwnWrite
<1>7. CASE ExpireStore(s) \/ ApproveStore(s)
  <2>1. pc[s] \in WritePhase /\ pc[s] \in Ahead /\ UNCHANGED todo
    BY <1>7 DEF ExpireStore, ApproveStore, WritePhase, Ahead, sweepVars
  <2>2. CASE /\ Update(row[s]) /\ UNCHANGED row
             /\ Goto(s, "expire_audit") \/ Goto(s, "approve_audit")
    <3>1. row[s] \in Row /\ SameRequest(row[s]) /\ WorksOn(s, row[s].id)
      BY <1>1, <2>1, Worked
    <3>2. requests' = [requests EXCEPT ![row[s].id] = row[s]]
      BY <2>2, <3>1, UpdatedIsCopy DEF Update
    <3>3. Writes(s, row[s])
      BY <1>1, <2>1, <3>1, <3>2 DEF Writes, RowSync, CopySync, StillPending
    <3>4. pc'[s] \notin Ahead /\ row'[s] = row[s]
      BY <1>1, <2>2 DEF Goto, Ahead
    <3>5. QED
      BY <1>1, <2>1, <3>1, <3>3, <3>4, StoreSync
  <2>3. CASE UNCHANGED requests /\ Finish(s)
    BY <1>1, <2>1, <2>3, FinishSync
  <2>4. CASE UNCHANGED <<requests, row, actor>> /\ Goto(s, "expire_audit")
    BY <1>1, <2>1, <2>4, GoesOnSync DEF Equal, Ahead
  <2>5. QED
    BY <1>7, <2>2, <2>3, <2>4 DEF ExpireStore, ApproveStore
<1>8. CASE ReleaseStore(s)
  BY <1>1, <1>8, EndStoreSync DEF ReleaseStore
<1>9. QED
  BY <1>2, <1>3, <1>4, <1>5, <1>6, <1>7, <1>8 DEF HandlerStep

-----------------------------------------------------------------------------
(* The reconciler. *)

(* What a query returns is stored. *)
LEMMA QuerySync ==
  ASSUME IInv, RowSync, OneWriter, pc[Worker] \in NoRow, NEW ph \in NoRow, Goto(Worker, ph),
         UNCHANGED <<requests, row, actor>>, todo' \subseteq Rows
  PROVE  RowSync'
<1>1. Worker \in Proc /\ row[Worker] = Null /\ pc'[Worker] = ph
  BY DEF Proc, IInv, TypeOK, CopiesFit, CopyFits, Goto
<1>2. OthersStay(Worker) /\ OwnWrite(Worker) /\ CopySync(Worker)'
  BY <1>1, GotoAlone DEF OwnWrite, CopySync, NoRow, Equal, Ahead
<1>3. TodoSync'
  <2>1. ASSUME NEW x \in todo'
        PROVE  requests[x.id] = x
    BY <2>1 DEF Rows, IInv, Keyed
  <2>2. QED
    BY <1>1, <2>1 DEF TodoSync, Stored
<1>4. QED
  BY <1>2, <1>3, WorkerSync

(* A row of a query is stored, and the others have other ids. *)
LEMMA Queried ==
  ASSUME IInv, TodoSync, NEW x \in todo, ExpireRow(x) \/ RevokeRow(x)
  PROVE  /\ row[Worker] = Null /\ x \in Row /\ Fits(x) /\ WorksOn(Worker, x.id)
         /\ requests[x.id] = x /\ x.status \in {"pending", "approved"}
         /\ todo' = todo \ {x} /\ \A z \in todo' : z.id # x.id
<1>1. Worker \in Proc /\ pc[Worker] \in NoRow /\ todo' = todo \ {x}
  BY DEF ExpireRow, RevokeRow, NoRow, Proc
<1>2. row[Worker] = Null /\ x \in Row /\ Fits(x) /\ x.status \in {"pending", "approved"}
  BY <1>1 DEF IInv, TypeOK, CopiesFit, CopyFits, TodoFits, TodoStatus
<1>3. \A z \in todo : requests[z.id] = z
  BY DEF TodoSync, Stored
<1>4. QED
  BY <1>1, <1>2, <1>3 DEF WorksOn

LEMMA ExpireRowSync ==
  ASSUME IInv, RowSync, OneWriter, NEW x \in todo, ExpireRow(x)
  PROVE  RowSync'
<1>1. Worker \in Proc /\ pc \in [Proc -> Phase] /\ row \in [Proc -> Row \cup {Null}]
      /\ OthersStay(Worker)
  BY WorkerAlone DEF Proc, IInv, TypeOK, ReconcileStep
<1>2. /\ row[Worker] = Null /\ x \in Row /\ WorksOn(Worker, x.id) /\ requests[x.id] = x
      /\ x.status \in {"pending", "approved"} /\ todo' \subseteq todo
      /\ \A z \in todo' : z.id # x.id
  BY Queried DEF RowSync
<1>3. PICK y : y = [x EXCEPT !.status = "expired"]
  OBVIOUS
<1>4. y \in Row /\ Fits(y) /\ y.id = x.id
  BY <1>3, ExpiredFits DEF ExpireRow
<1>5. CASE Update(y) /\ Goto(Worker, "expire_audit") /\ row' = [row EXCEPT ![Worker] = y]
  <2>1. requests' = [requests EXCEPT ![y.id] = y]
    BY <1>4, <1>5, UpdatedIsCopy DEF Update, Fits
  <2>2. Writes(Worker, y)
    BY <1>2, <1>4, <2>1 DEF Writes
  <2>3. pc'[Worker] = "expire_audit" /\ row'[Worker] = y
    BY <1>1, <1>5 DEF Goto
  <2>4. "expire_audit" \notin Ahead
    BY DEF Ahead
  <2>5. QED
    BY <1>1, <1>2, <1>4, <2>2, <2>3, <2>4, StoreSync
<1>6. CASE UNCHANGED <<requests, pc, row>>
  <2>1. CopySync(Worker)' /\ OwnWrite(Worker)
    BY <1>1, <1>6 DEF OwnWrite, RowSync, CopySync, Stored, StillPending
  <2>2. TodoSync'
    BY <1>2, <1>6 DEF RowSync, TodoSync, Stored
  <2>3. QED
    BY <1>1, <2>1, <2>2, WorkerSync
<1>7. QED
  BY <1>3, <1>5, <1>6 DEF ExpireRow

LEMMA RevokeRowSync ==
  ASSUME IInv, RowSync, OneWriter, NEW x \in todo, RevokeRow(x)
  PROVE  RowSync'
<1>1. Worker \in Proc /\ pc \in [Proc -> Phase] /\ row \in [Proc -> Row \cup {Null}]
      /\ OthersStay(Worker)
  BY WorkerAlone DEF Proc, IInv, TypeOK, ReconcileStep
<1>2. /\ requests[x.id] = x /\ todo' \subseteq todo /\ \A z \in todo' : z.id # x.id
      /\ row[Worker] = Null
  BY Queried DEF RowSync
<1>3. UNCHANGED requests /\ OwnWrite(Worker)
  BY DEF RevokeRow, storeVars, OwnWrite
<1>4. CASE Goto(Worker, "revoke_store") /\ row' = [row EXCEPT ![Worker] = x]
  <2>1. pc'[Worker] = "revoke_store" /\ row'[Worker] = x
    BY <1>1, <1>4 DEF Goto
  <2>2. CopySync(Worker)'
    BY <1>2, <1>3, <2>1 DEF CopySync, Stored, Equal, Ahead
  <2>3. TodoSync'
    BY <1>2, <1>3, <2>1 DEF RowSync, TodoSync, Stored
  <2>4. QED
    BY <1>1, <1>3, <2>2, <2>3, WorkerSync
<1>5. CASE UNCHANGED <<pc, row>>
  <2>1. CopySync(Worker)'
    BY <1>1, <1>3, <1>5 DEF RowSync, CopySync, Stored, StillPending
  <2>2. TodoSync'
    BY <1>2, <1>3, <1>5 DEF RowSync, TodoSync, Stored
  <2>3. QED
    BY <1>1, <1>3, <2>1, <2>2, WorkerSync
<1>6. QED
  BY <1>4, <1>5 DEF RevokeRow

LEMMA StepOfWorkerSync ==
  ASSUME IInv, RowSync, OneWriter, ReconcileStep
  PROVE  RowSync'
<1>1. Worker \in Proc
  BY DEF Proc
<1>2. CASE Reconcile
  BY <1>2, QuerySync DEF Reconcile, PendingExpired, storeVars, NoRow
<1>3. CASE ReconcileActive
  BY <1>3, QuerySync DEF ReconcileActive, ActiveExpired, storeVars, NoRow
<1>4. CASE ReconcileReturn
  BY <1>4, QuerySync DEF ReconcileReturn, storeVars, NoRow
<1>5. CASE ExpireAudit(Worker) \/ RevokeAudit
  BY <1>1, <1>5, GoesOnSync DEF ExpireAudit, RevokeAudit, sweepVars, Equal, Ahead
<1>6. CASE ExpireNotify(Worker) \/ RevokeNotify
  BY <1>1, <1>6, NotifySync DEF ExpireNotify, RevokeNotify
<1>7. CASE RevokeStore
  BY <1>1, <1>7, EndStoreSync DEF RevokeStore
<1>8. CASE Post(Worker)
  BY <1>1, <1>8, FinishSync DEF Post, storeVars, sweepVars
<1>9. QED
  BY <1>2, <1>3, <1>4, <1>5, <1>6, <1>7, <1>8, ExpireRowSync, RevokeRowSync DEF ReconcileStep

-----------------------------------------------------------------------------
(* A call takes up a stored row, or stores a new one. *)
LEMMA CallSync ==
  ASSUME IInv, RowSync, OneWriter, NEW s \in Slot, NEW r \in Req,
         \/ \E a \in User \cup {Null}, u \in User : HandleCreate(s, a, u, r)
         \/ \E a \in User : HandleApprove(s, a, r)
         \/ \E a \in User \cup {Null} : HandleRelease(s, a, r)
  PROVE  RowSync'
<1>1. s \in Proc /\ OthersStay(s) /\ UNCHANGED todo
      /\ pc \in [Proc -> Phase] /\ row \in [Proc -> Row \cup {Null}]
      /\ requests \in [Req -> Row \cup {Null}]
  BY CallAlone, CallWrites, SlotIsNotWorker DEF IInv, TypeOK, sweepVars
<1>2. ASSUME NEW a \in User \cup {Null}, NEW u \in User, HandleCreate(s, a, u, r)
      PROVE  RowSync'
  <2>1. now + RequestTTL \in Nat
    BY ConfigAssumption DEF ConfigAssumption, IInv, TypeOK
  <2>2. PICK y \in Row : y = NewRow(r, u, now + RequestTTL)
    BY <2>1 DEF NewRow, Row, Status
  <2>3. y.id = r
    BY <2>2 DEF NewRow
  <2>4. requests' = [requests EXCEPT ![y.id] = y] /\ requests[y.id] = Null
    BY <1>2, <2>2, <2>3 DEF HandleCreate, Create
  <2>5. OwnWrite(s)
    BY <2>4 DEF OwnWrite, Writes
  <2>6. CopySync(s)'
    BY <1>1, <1>2 DEF HandleCreate, Goto, CopySync, Equal, Ahead
  <2>7. QED
    BY <1>1, <2>5, <2>6, HandlerSync
<1>3. CASE \/ \E a \in User : HandleApprove(s, a, r)
           \/ \E a \in User \cup {Null} : HandleRelease(s, a, r)
  <2>1. /\ UNCHANGED requests /\ requests[r] # Null /\ row'[s] = requests[r]
        /\ pc'[s] \in {"approve_decide", "release_remove"}
    BY <1>1, <1>3 DEF HandleApprove, HandleRelease, Goto, storeVars
  <2>2. CopySync(s)'
    BY <2>1 DEF CopySync, Equal, Ahead, Stored, IInv, Keyed
  <2>3. QED
    BY <1>1, <2>1, <2>2, HandlerSync DEF OwnWrite
<1>4. QED
  BY <1>2, <1>3

LEMMA RowsInitially == Init => RowSync
BY DEF Init, RowSync, CopySync, TodoSync, Equal, Ahead

LEMMA RowsInductive == IInv /\ RowSync /\ OneWriter /\ [Next]_vars => RowSync'
<1> SUFFICES ASSUME IInv, RowSync, OneWriter, [Next]_vars
             PROVE  RowSync'
  OBVIOUS
<1>1. CASE Stop
  BY <1>1 DEF Stop, RowSync, CopySync, TodoSync, Equal, Ahead
<1>2. CASE UNCHANGED <<requests, pc, row, todo>>
  BY <1>2 DEF RowSync, CopySync, TodoSync, Stored, StillPending
<1>3. QED
  BY <1>1, <1>2, CallSync, StepOfHandlerSync, StepOfWorkerSync
     DEF Next, HandleMe, Start, Tick, RealmRemove, vars, storeVars, procVars, sweepVars

LEMMA RowsInSync == Spec /\ []OneWriter => []RowSync
<1>1. Init => RowSync
  BY RowsInitially
<1>2. IInv /\ RowSync /\ OneWriter /\ [Next]_vars => RowSync'
  BY RowsInductive
<1>3. QED
  BY <1>1, <1>2, Invariance, PTL DEF Spec

-----------------------------------------------------------------------------
(* The ways a step changes the table: a new request, a pending one that     *)
(* lapses or is approved by the goroutine that asked Keycloak, and a grant  *)
(* that ends with the copy its goroutine took of it.                        *)
Ending == {"release_store", "revoke_store"}

Change(y) ==
  /\ y \in Row /\ requests' = [requests EXCEPT ![y.id] = y]
  /\ \/ /\ requests[y.id] = Null /\ y.status = "pending"
        /\ Cardinality({x \in Rows : x.user = y.user}) < MaxPerUser
     \/ /\ SameRequest(y)
        /\ \/ StillPending(y) /\ y.status = "expired"
           \/ /\ StillPending(y) /\ y.status = "approved"
              /\ \E s \in Slot : pc[s] = "approve_store" /\ y = row[s]
           \/ \E p \in Proc : /\ pc[p] \in Ending
                              /\ requests[y.id] = row[p] /\ row[p].status = "approved"
                              /\ y = Released(row[p])

LEMMA EndStoreChange ==
  ASSUME IInv, RowSync, NEW p \in Proc, pc[p] \in {"release_store", "revoke_store"},
         NEW next, EndStore(p, next)
  PROVE  UNCHANGED requests \/ \E y : Change(y)
<1>1. row[p] \in Row /\ Fits(row[p]) /\ row[p].status = "approved" /\ Stored(row[p])
  BY HeldRow DEF NoRow, Equal, RowSync, CopySync, IInv, CopiesFit, CopyFits, PhaseStatus
<1>2. PICK y \in Row : y = Released(row[p]) /\ Fits(y)
  BY <1>1, ReleasedFits
<1>3. y.id = row[p].id
  BY <1>1, <1>2 DEF Released, Row
<1>4. CASE Update(Released(row[p]))
  <2>1. requests' = [requests EXCEPT ![y.id] = y]
    BY <1>2, <1>4, UpdatedIsCopy DEF Update, Fits
  <2>2. requests[y.id] = row[p] /\ SameRequest(y)
    BY <1>1, <1>2, <1>3 DEF Stored, Fits
  <2>3. QED
    BY <1>1, <1>2, <2>1, <2>2 DEF Change, Ending
<1>5. QED
  BY <1>4 DEF EndStore

LEMMA StoreChange ==
  ASSUME IInv, RowSync, NEW s \in Slot, ExpireStore(s) \/ ApproveStore(s)
  PROVE  UNCHANGED requests \/ \E y : Change(y)
<1>1. s \in Proc /\ pc[s] \in {"expire_store", "approve_store"} /\ pc[s] \in WritePhase
  BY SlotIsNotWorker DEF ExpireStore, ApproveStore, WritePhase
<1>2. /\ row[s] \in Row /\ SameRequest(row[s]) /\ StillPending(row[s])
      /\ pc[s] = "expire_store" => row[s].status = "expired"
      /\ pc[s] = "approve_store" => row[s].status = "approved"
  BY <1>1, Worked DEF Ahead, RowSync, CopySync, IInv, CopiesFit, CopyFits, PhaseStatus
<1>3. CASE Update(row[s])
  <2>1. requests' = [requests EXCEPT ![row[s].id] = row[s]]
    BY <1>2, <1>3, UpdatedIsCopy DEF Update
  <2>2. Change(row[s])
    BY <1>1, <1>2, <2>1 DEF Change
  <2>3. QED
    BY <2>2
<1>4. QED
  BY <1>3 DEF ExpireStore, ApproveStore

LEMMA ExpireRowChange ==
  ASSUME IInv, RowSync, NEW x \in todo, ExpireRow(x)
  PROVE  UNCHANGED requests \/ \E y : Change(y)
<1>1. PICK y : y = [x EXCEPT !.status = "expired"]
  OBVIOUS
<1>2. y \in Row /\ Fits(y) /\ y.id = x.id /\ y.status = "expired"
  BY <1>1, ExpiredFits DEF ExpireRow
<1>3. x.status = "pending" /\ requests[x.id] = x
  BY DEF ExpireRow, IInv, CopiesFit, TodoFits, TodoStatus, RowSync, TodoSync, Stored
<1>4. CASE Update(y)
  <2>1. requests' = [requests EXCEPT ![y.id] = y] /\ SameRequest(y)
    BY <1>2, <1>4, UpdatedIsCopy DEF Update, Fits
  <2>2. QED
    BY <1>2, <1>3, <2>1 DEF Change, StillPending
<1>5. QED
  BY <1>1, <1>4 DEF ExpireRow

LEMMA CreateChange ==
  ASSUME IInv, NEW s \in Slot, NEW r \in Req, NEW a, NEW u \in User, HandleCreate(s, a, u, r)
  PROVE  \E y : Change(y)
<1>1. now + RequestTTL \in Nat
  BY ConfigAssumption DEF ConfigAssumption, IInv, TypeOK
<1>2. PICK y \in Row : y = NewRow(r, u, now + RequestTTL)
  BY <1>1 DEF NewRow, Row, Status
<1>3. y.id = r /\ y.user = u /\ y.status = "pending"
  BY <1>2 DEF NewRow
<1>4. requests' = [requests EXCEPT ![y.id] = y] /\ requests[y.id] = Null
  BY <1>2, <1>3 DEF HandleCreate, Create
<1>5. Cardinality({x \in Rows : x.user = y.user}) < MaxPerUser
  BY <1>3 DEF HandleCreate
<1>6. QED
  BY <1>3, <1>4, <1>5 DEF Change

LEMMA Changes ==
  ASSUME IInv, RowSync, [Next]_vars
  PROVE  UNCHANGED requests \/ \E y : Change(y)
<1>1. ASSUME NEW s \in Slot, ReleaseStore(s)
      PROVE  UNCHANGED requests \/ \E y : Change(y)
  BY <1>1, EndStoreChange, SlotIsNotWorker DEF ReleaseStore
<1>2. CASE RevokeStore
  BY <1>2, EndStoreChange DEF RevokeStore, Proc
<1>3. QED
  BY <1>1, <1>2, TableWriters, StoreChange, ExpireRowChange, CreateChange

-----------------------------------------------------------------------------
(* The state machine of a request.                                         *)
LEMMA LifecycleOfChange ==
  ASSUME IInv, NEW y, Change(y), NEW r \in Req, requests[r] # Null
  PROVE  LifecycleStep(requests[r], requests'[r])
<1>1. requests \in [Req -> Row \cup {Null}] /\ y \in Row /\ y.id \in Req
      /\ requests' = [requests EXCEPT ![y.id] = y]
  BY DEF IInv, TypeOK, Change, Row
<1>2. CASE r # y.id
  BY <1>1, <1>2 DEF LifecycleStep
<1>3. CASE r = y.id
  <2>1. requests'[r] = y
    BY <1>1, <1>3
  <2>2. ASSUME NEW x \in Row, x = requests[r], x.status = "approved", y = Released(x)
        PROVE  LifecycleStep(requests[r], requests'[r])
    BY <2>1, <2>2 DEF LifecycleStep, Released, Row
  <2>3. requests[r] \in Row
    BY <1>1
  <2>4. CASE StillPending(y) /\ y.status \in {"approved", "expired"}
    BY <1>3, <2>1, <2>4 DEF StillPending, LifecycleStep
  <2>5. QED
    BY <1>3, <2>2, <2>3, <2>4 DEF Change
<1>4. QED
  BY <1>2, <1>3

(* A request moves one way (handleApprove and handleRelease check the       *)
(* status of a copy, and Update overwrites whatever the row says by then):  *)
(* no approval replaces another and nothing released comes back, as long as *)
(* no two of them, nor one and the reconciler, are between reading and      *)
(* writing the same request.                                               *)
THEOREM RequestsMoveForward == Spec /\ []OneWriter => LifecycleOneWay
<1>1. ASSUME IInv, RowSync, [Next]_vars
      PROVE  [\A r \in Req : requests[r] # Null => LifecycleStep(requests[r], requests'[r])]_vars
  <2>1. CASE UNCHANGED requests
    BY <2>1 DEF LifecycleStep
  <2>2. QED
    BY <1>1, <2>1, Changes, LifecycleOfChange
<1>2. QED
  BY <1>1, Invariance, RowsInSync, PTL DEF Spec, LifecycleOneWay

(* Released is final (double_approve shows a stale approval writing over a   *)
(* released row): with one writer per request no Update touches such a row. *)
THEOREM ReleasedStays == Spec /\ []OneWriter => ReleasedIsFinal
<1>1. ASSUME IInv,
             [\A r \in Req : requests[r] # Null => LifecycleStep(requests[r], requests'[r])]_vars
      PROVE  [\A x \in Rows : x.status = "released" => requests'[x.id].status = "released"]_vars
  <2>1. ASSUME NEW x \in Rows
        PROVE  x.id \in Req /\ requests[x.id] = x /\ requests[x.id] # Null
    BY <1>1, <2>1 DEF Rows, IInv, TypeOK, Keyed, Row
  <2>2. QED
    BY <1>1, <2>1 DEF LifecycleStep
<1>2. QED
  BY <1>1, Invariance, RequestsMoveForward, PTL DEF LifecycleOneWay, ReleasedIsFinal

-----------------------------------------------------------------------------
(* A grant_expired event.  The reconciler reads the clock once and ends the *)
(* grants whose term was over by then; the row it ends them with is still   *)
(* the stored one, so what it read is true of the row it writes.            *)
Over(x) == x.activeExpiresAt \in Nat /\ x.activeExpiresAt <= now

Revoking == {"revoke_store", "revoke_audit"}

TermRead == /\ at <= now
            /\ pc[Worker] \in Revoking => Over(row[Worker])
            /\ \A x \in todo : x.status = "approved" => Over(x)

EndedByTerm(r) == r \in Req /\ HasStatus(r, "released") /\ Over(requests[r])

TermKept == \A e \in audit : e.action = "grant_expired" => EndedByTerm(e.req)

TInv == TermRead /\ TermKept

LEMMA TimePasses ==
  ASSUME IInv, [Next]_vars
  PROVE  ClockStep /\ now \in Nat
<1>1. now \in Nat
  BY DEF IInv, TypeOK
<1>2. QED
  BY <1>1, ClockWriters DEF Tick, ClockStep

LEMMA OverLater ==
  ASSUME ClockStep, now \in Nat, NEW x, Over(x), NEW y, y.activeExpiresAt = x.activeExpiresAt
  PROVE  y.activeExpiresAt \in Nat /\ y.activeExpiresAt <= now'
BY DEF Over, ClockStep

LEMMA TermReadKept ==
  ASSUME IInv, TermRead, ClockStep, now \in Nat, at' \in {at, 0}, todo' \subseteq todo,
         pc'[Worker] \in Revoking =>
           /\ pc[Worker] \in Revoking
           /\ row'[Worker].activeExpiresAt = row[Worker].activeExpiresAt
  PROVE  TermRead'
<1>1. at \in Nat
  BY DEF IInv, TypeOK
<1>2. at' <= now'
  BY <1>1 DEF TermRead, ClockStep
<1>3. QED
  BY <1>2, OverLater DEF TermRead, Over

LEMMA TermReadOfWorker ==
  ASSUME IInv, TermRead, ReconcileStep, ClockStep, now \in Nat
  PROVE  TermRead'
<1>1. Worker \in Proc /\ pc \in [Proc -> Phase] /\ row \in [Proc -> Row \cup {Null}]
      /\ at \in Nat /\ todo \subseteq Row
  BY DEF Proc, IInv, TypeOK
<1>2. CASE Reconcile
  <2>1. pc'[Worker] = "expire" /\ at' = now /\ UNCHANGED now
    BY <1>1, <1>2 DEF Reconcile, Goto, envVars
  <2>2. \A x \in todo' : x.status = "pending"
    BY <1>2 DEF Reconcile, PendingExpired
  <2>3. QED
    BY <2>1, <2>2 DEF TermRead, Revoking
<1>3. CASE ReconcileActive
  <2>1. pc'[Worker] = "revoke" /\ at' = 0 /\ UNCHANGED now
    BY <1>1, <1>3 DEF ReconcileActive, Goto, envVars
  <2>2. ASSUME NEW x \in todo'
        PROVE  Over(x)'
    <3>1. x \in Row /\ x.activeExpiresAt # Null /\ x.activeExpiresAt <= at
      BY <1>3, <2>2 DEF ReconcileActive, ActiveExpired, Rows, IInv, TypeOK
    <3>2. x.activeExpiresAt \in Nat /\ at <= now
      BY <3>1 DEF Row, TermRead
    <3>3. QED
      BY <1>1, <2>1, <3>1, <3>2 DEF Over
  <2>3. QED
    BY <2>1, <2>2 DEF TermRead, Revoking
<1>4. ASSUME NEW x \in todo, ExpireRow(x)
      PROVE  TermRead'
  BY <1>1, <1>4, TermReadKept DEF ExpireRow, Goto, Revoking
<1>5. ASSUME NEW x \in todo, RevokeRow(x)
      PROVE  TermRead'
  <2>1. x.status = "approved"
    BY <1>5 DEF RevokeRow, IInv, CopiesFit, CopyFits, TodoFits, TodoStatus, Proc, NoRow
  <2>2. Over(x)
    BY <2>1 DEF TermRead
  <2>3. UNCHANGED <<at, now>> /\ todo' \subseteq todo
    BY <1>5 DEF RevokeRow, envVars
  <2>4. \/ row'[Worker] = x /\ pc'[Worker] = "revoke_store"
        \/ UNCHANGED <<pc, row>>
    BY <1>1, <1>5 DEF RevokeRow, Goto
  <2>5. QED
    BY <2>2, <2>3, <2>4 DEF TermRead, Over
<1>6. CASE RevokeStore
  <2>1. UNCHANGED <<at, todo>> /\ pc[Worker] = "revoke_store"
    BY <1>6 DEF RevokeStore, EndStore, sweepVars
  <2>2. CASE Finish(Worker)
    BY <1>1, <2>1, <2>2, TermReadKept DEF Finish, Goto, Resume, Revoking
  <2>3. CASE row' = [row EXCEPT ![Worker] = Released(row[Worker])]
    <3>1. row[Worker] \in Row
      BY <1>1, <2>1, HeldRow DEF NoRow
    <3>2. row'[Worker].activeExpiresAt = row[Worker].activeExpiresAt
      BY <1>1, <2>3, <3>1 DEF Released, Row
    <3>3. QED
      BY <2>1, <3>2, TermReadKept DEF Revoking
  <2>4. QED
    BY <1>6, <2>2, <2>3 DEF RevokeStore, EndStore
<1>7. CASE RevokeAudit \/ ExpireAudit(Worker)
  BY <1>1, <1>7, TermReadKept DEF RevokeAudit, ExpireAudit, Goto, Revoking, sweepVars
<1>8. CASE ExpireNotify(Worker) \/ RevokeNotify \/ Post(Worker)
  BY <1>1, <1>8, TermReadKept
     DEF ExpireNotify, RevokeNotify, Notify, Post, Finish, Goto, Resume, Revoking, sweepVars
<1>9. CASE ReconcileReturn
  BY <1>1, <1>9, TermReadKept DEF ReconcileReturn, Goto, Revoking
<1>10. QED
  BY <1>2, <1>3, <1>4, <1>5, <1>6, <1>7, <1>8, <1>9 DEF ReconcileStep

LEMMA TermReadStep ==
  ASSUME IInv, TermRead, [Next]_vars
  PROVE  TermRead'
<1>1. ClockStep /\ now \in Nat
  BY TimePasses
<1>2. ASSUME NEW s \in Slot,
             \/ HandlerStep(s)
             \/ \E r \in Req :
                  \/ \E a \in User \cup {Null}, u \in User : HandleCreate(s, a, u, r)
                  \/ \E a \in User : HandleApprove(s, a, r)
                  \/ \E a \in User \cup {Null} : HandleRelease(s, a, r)
      PROVE  TermRead'
  <2>1. Stays(Worker)
    BY <1>2, HandlerAlone, CallAlone, SlotIsNotWorker DEF OthersStay
  <2>2. UNCHANGED <<at, todo>>
    BY <1>2, HandlerWrites, CallWrites DEF sweepVars
  <2>3. QED
    BY <1>1, <2>1, <2>2, TermReadKept DEF Stays
<1>3. CASE UNCHANGED <<pc, row, at, todo>>
  BY <1>1, <1>3, TermReadKept
<1>4. CASE Stop
  BY <1>1, <1>4, TermReadKept DEF Stop, Proc, Revoking
<1>5. QED
  BY <1>1, <1>2, <1>3, <1>4, TermReadOfWorker
     DEF Next, HandleMe, Start, Tick, RealmRemove, vars, procVars, sweepVars

(* Only the reconciler writes such an event, of the row it holds. *)
LEMMA ExpiryEvents ==
  ASSUME [Next]_vars, NEW e \in audit', e.action = "grant_expired"
  PROVE  e \in audit \/ (RevokeAudit /\ e.req = row[Worker].id)
<1>1. CASE UNCHANGED audit
  BY <1>1
<1>2. ASSUME NEW action, NEW who, NEW r, NEW bg, Audit(action, who, r, bg),
             action # "grant_expired"
      PROVE  e \in audit
  BY <1>2 DEF Audit, AppendAudit
<1>3. CASE RevokeAudit
  BY <1>3 DEF RevokeAudit, Audit, AppendAudit
<1>4. QED
  BY <1>1, <1>2, <1>3, LedgerWriters
     DEF HandleMe, CreateAudit, ExpireAudit, ApproveAudit, ApproveAuditGrant, ReleaseAudit

LEMMA TermKeptStep ==
  ASSUME IInv, RowSync, TInv, [Next]_vars
  PROVE  TermKept'
<1> SUFFICES ASSUME NEW e \in audit', e.action = "grant_expired"
             PROVE  EndedByTerm(e.req)'
  BY DEF TermKept, EndedByTerm, HasStatus, Over
<1>1. ClockStep /\ now \in Nat
  BY TimePasses
<1>2. PICK r : r = e.req
  OBVIOUS
<1>3. CASE e \in audit
  <2>1. EndedByTerm(r)
    BY <1>2, <1>3 DEF TInv, TermKept
  <2>2. LifecycleStep(requests[r], requests'[r])
    BY <2>1, Changes, LifecycleOfChange DEF EndedByTerm, HasStatus, LifecycleStep
  <2>3. requests'[r] = requests[r]
    BY <2>1, <2>2 DEF EndedByTerm, HasStatus, LifecycleStep
  <2>4. QED
    BY <1>1, <1>2, <2>1, <2>3, OverLater DEF EndedByTerm, HasStatus, Over
<1>4. CASE RevokeAudit /\ r = row[Worker].id
  <2>1. Worker \in Proc /\ pc[Worker] = "revoke_audit" /\ UNCHANGED <<requests, now>>
    BY <1>4 DEF RevokeAudit, Proc, envVars
  <2>2. /\ row[Worker] \in Row /\ row[Worker] # Null /\ row[Worker].status = "released"
        /\ requests[r] = row[Worker]
    BY <1>4, <2>1, HeldRow
       DEF NoRow, Equal, RowSync, CopySync, Stored, IInv, CopiesFit, CopyFits, PhaseStatus
  <2>3. r \in Req /\ Over(row[Worker])
    BY <1>4, <2>1, <2>2 DEF TInv, TermRead, Revoking, Row
  <2>4. QED
    BY <1>2, <2>1, <2>2, <2>3 DEF EndedByTerm, HasStatus, Over
<1>5. QED
  BY <1>2, <1>3, <1>4, ExpiryEvents

(* The reconciler ends no grant before its term (ReconcileActive compares    *)
(* with a clock read at the start of the pass, RevokeStore writes the row it *)
(* queried, and a row that has ended does not change): whoever reads of a    *)
(* grant_expired finds a released row whose term is over.                   *)
THEOREM GrantsRunTheirTerm == Spec /\ []OneWriter => []GrantRunsItsTerm
<1>1. Init => TInv
  BY DEF Init, TInv, TermRead, TermKept, Revoking, Proc
<1>2. IInv /\ RowSync /\ TInv /\ [Next]_vars => TInv'
  BY TermReadStep, TermKeptStep DEF TInv
<1>3. TInv => GrantRunsItsTerm
  BY DEF TInv, TermKept, EndedByTerm, HasStatus, Over, GrantRunsItsTerm
<1>4. QED
  BY <1>1, <1>2, <1>3, Invariance, RowsInSync, PTL DEF Spec

-----------------------------------------------------------------------------
(* The end of a grant in the ledger.  Whoever is about to record one has     *)
(* written it, and so has whoever recorded one: a released row is not        *)
(* written again, so there is only one of them for a request.               *)
EndAudit == {"release_audit", "revoke_audit"}

EndersWrote == \A p \in Proc : pc[p] \in EndAudit => HasStatus(row[p].id, "released")

EndsWritten == \A e \in audit : e.action \in EndEvent =>
                 e.req \in Req /\ HasStatus(e.req, "released")

OneEnder == \A p, q \in Proc :
              pc[p] \in EndAudit /\ pc[q] \in EndAudit /\ row[p].id = row[q].id => p = q

OInv == EndersWrote /\ EndsWritten /\ OneEnder /\ EndsOnce

(* The step that ends a grant. *)
EndsGrant(p) ==
  /\ pc[p] \in Ending /\ row'[p].id = row[p].id
  /\ HasStatus(row[p].id, "approved") /\ HasStatus(row[p].id, "released")'
  /\ OthersStay(p) /\ UNCHANGED audit

LEMMA EndStoreEnds ==
  ASSUME IInv, RowSync, NEW p \in Proc, pc[p] \in Ending, OthersStay(p),
         NEW next, EndStore(p, next), pc'[p] \in EndAudit
  PROVE  /\ pc[p] \in Ending /\ row'[p].id = row[p].id
         /\ HasStatus(row[p].id, "approved")
         /\ requests'[row[p].id] # Null /\ requests'[row[p].id].status = "released"
         /\ OthersStay(p) /\ UNCHANGED audit
<1>1. pc \in [Proc -> Phase] /\ row \in [Proc -> Row \cup {Null}]
      /\ requests \in [Req -> Row \cup {Null}]
  BY DEF IInv, TypeOK
<1>2. /\ row[p] \in Row /\ row[p] # Null /\ Fits(row[p]) /\ row[p].status = "approved"
      /\ requests[row[p].id] = row[p] /\ row[p].id \in Req
  BY HeldRow
     DEF Ending, NoRow, Equal, RowSync, CopySync, Stored, IInv, CopiesFit, CopyFits,
         PhaseStatus, Row
<1>3. ~Finish(p)
  BY <1>1 DEF Finish, Goto, Resume, EndAudit
<1>4. /\ Update(Released(row[p])) /\ row' = [row EXCEPT ![p] = Released(row[p])]
      /\ UNCHANGED audit
  BY <1>3 DEF EndStore
<1>5. PICK y \in Row : y = Released(row[p]) /\ Fits(y) /\ y.status = "released"
  BY <1>2, ReleasedFits
<1>6. y.id = row[p].id /\ y # Null
  BY <1>2, <1>5, NullAssumption DEF Released, Row, NullAssumption
<1>7. requests' = [requests EXCEPT ![y.id] = y]
  BY <1>4, <1>5, UpdatedIsCopy DEF Update, Fits
<1>8. requests'[row[p].id] = y /\ row'[p] = y
  BY <1>1, <1>2, <1>4, <1>5, <1>6, <1>7
<1>9. QED
  BY <1>2, <1>4, <1>5, <1>6, <1>8 DEF HasStatus

LEMMA EndersArrive ==
  ASSUME IInv, RowSync, [Next]_vars, NEW p \in Proc, pc'[p] \in EndAudit
  PROVE  Stays(p) \/ EndsGrant(p)
<1>1. pc \in [Proc -> Phase]
  BY DEF IInv, TypeOK
<1>2. CASE UNCHANGED <<pc, row, actor>>
  BY <1>2 DEF Stays
<1>3. CASE Stop
  BY <1>3 DEF Stop, EndAudit
<1>4. ASSUME NEW s \in Slot, NEW r \in Req,
             \/ \E a \in User \cup {Null}, u \in User : HandleCreate(s, a, u, r)
             \/ \E a \in User : HandleApprove(s, a, r)
             \/ \E a \in User \cup {Null} : HandleRelease(s, a, r)
      PROVE  Stays(p)
  <2>1. pc'[s] \notin EndAudit /\ OthersStay(s)
    BY <1>1, <1>4, CallAlone, SlotIsNotWorker
       DEF HandleCreate, HandleApprove, HandleRelease, Goto, EndAudit
  <2>2. QED
    BY <2>1 DEF OthersStay
<1>5. ASSUME NEW s \in Slot, HandlerStep(s)
      PROVE  Stays(p) \/ EndsGrant(p)
  <2>1. s \in Proc /\ s # Worker /\ OthersStay(s)
    BY <1>5, HandlerAlone, SlotIsNotWorker
  <2>2. CASE ReleaseStore(s) /\ p = s
    BY <2>1, <2>2, EndStoreEnds DEF ReleaseStore, Ending, EndsGrant, HasStatus
  <2>3. CASE ~ReleaseStore(s)
    <3>1. pc'[s] \notin EndAudit
      BY <1>1, <1>5, <2>1, <2>3
         DEF HandlerStep, CreateAudit, CreateNotify, ApproveDecide, ExpireStore, ExpireAudit,
             ExpireNotify, ApproveAdd, ApproveStore, ApproveAudit, ApproveAuditGrant,
             ApproveNotify, ReleaseRemove, ReleaseAudit, ReleaseNotify, Notify, Post,
             Finish, Goto, Resume, EndAudit
    <3>2. QED
      BY <2>1, <3>1 DEF OthersStay
  <2>4. QED
    BY <2>1, <2>2, <2>3 DEF OthersStay
<1>6. CASE ReconcileStep
  <2>1. Worker \in Proc /\ OthersStay(Worker)
    BY <1>6, WorkerAlone DEF Proc
  <2>2. CASE RevokeStore /\ p = Worker
    BY <2>1, <2>2, EndStoreEnds DEF RevokeStore, Ending, EndsGrant, HasStatus
  <2>3. CASE ~RevokeStore
    <3>1. pc'[Worker] \notin EndAudit
      BY <1>1, <1>6, <2>1, <2>3
         DEF ReconcileStep, Reconcile, ExpireRow, ExpireAudit, ExpireNotify, ReconcileActive,
             RevokeRow, RevokeAudit, RevokeNotify, ReconcileReturn, Notify, Post, Finish,
             Goto, Resume, EndAudit
    <3>2. QED
      BY <2>1, <3>1 DEF OthersStay
  <2>4. QED
    BY <2>1, <2>2, <2>3 DEF OthersStay
<1>7. QED
  BY <1>2, <1>3, <1>4, <1>5, <1>6
     DEF Next, HandleMe, Start, Tick, RealmRemove, vars, procVars

(* Who records an end is at one of the two places, and leaves it. *)
LEMMA EndsRecorded ==
  ASSUME IInv, [Next]_vars, NEW e \in audit', e \notin audit, e.action \in EndEvent
  PROVE  \E p \in Proc : /\ pc[p] \in EndAudit /\ e.req = row[p].id
                        /\ pc'[p] \notin EndAudit /\ UNCHANGED requests
<1>1. pc \in [Proc -> Phase]
  BY DEF IInv, TypeOK
<1>2. ASSUME NEW action, NEW who, NEW r, NEW bg, Audit(action, who, r, bg)
      PROVE  e.action = action /\ e.req = r
  BY <1>2 DEF Audit, AppendAudit
<1>3. ~(\E a \in User : HandleMe(a))
  BY <1>2 DEF HandleMe, EndEvent
<1>4. ASSUME NEW p \in Proc
      PROVE  ~(CreateAudit(p) \/ ExpireAudit(p) \/ ApproveAudit(p) \/ ApproveAuditGrant(p))
  BY <1>2 DEF CreateAudit, ExpireAudit, ApproveAudit, ApproveAuditGrant, EndEvent
<1>5. PICK p \in Proc : ReleaseAudit(p) \/ (p = Worker /\ RevokeAudit)
  BY <1>3, <1>4, LedgerWriters DEF Proc
<1>6. QED
  BY <1>1, <1>2, <1>5 DEF ReleaseAudit, RevokeAudit, Goto, EndAudit

(* A request that has been released stays so in a step. *)
LEMMA ReleasedKept ==
  ASSUME IInv, RowSync, [Next]_vars, NEW r \in Req, HasStatus(r, "released")
  PROVE  requests'[r] # Null /\ requests'[r].status = "released"
<1>1. LifecycleStep(requests[r], requests'[r])
  BY Changes, LifecycleOfChange DEF HasStatus, LifecycleStep
<1>2. QED
  BY <1>1 DEF HasStatus, LifecycleStep

LEMMA EndsOnceStep ==
  ASSUME IInv, RowSync, OInv, [Next]_vars
  PROVE  OInv'
<1>1. \A p \in Proc : pc[p] \in EndAudit => row[p].id \in Req
  BY HeldRow DEF EndAudit, NoRow, Row
<1>2. ASSUME NEW p \in Proc, pc'[p] \in EndAudit
      PROVE  requests'[row'[p].id] # Null /\ requests'[row'[p].id].status = "released"
  <2>1. CASE Stays(p)
    BY <1>1, <1>2, <2>1, ReleasedKept DEF Stays, OInv, EndersWrote
  <2>2. CASE EndsGrant(p)
    BY <2>2 DEF EndsGrant, HasStatus
  <2>3. QED
    BY <1>2, <2>1, <2>2, EndersArrive
<1>3. ASSUME NEW e \in audit', e.action \in EndEvent
      PROVE  e.req \in Req /\ requests'[e.req] # Null /\ requests'[e.req].status = "released"
  <2>1. CASE e \in audit
    BY <1>3, <2>1, ReleasedKept DEF OInv, EndsWritten
  <2>2. CASE e \notin audit
    BY <1>1, <1>3, <2>2, EndsRecorded DEF OInv, EndersWrote, HasStatus
  <2>3. QED
    BY <2>1, <2>2
<1>4. ASSUME NEW p \in Proc, NEW q \in Proc, pc'[p] \in EndAudit, pc'[q] \in EndAudit,
             row'[p].id = row'[q].id, p # q
      PROVE  FALSE
  <2>1. ASSUME NEW u \in Proc, NEW v \in Proc, EndsGrant(u), u # v, pc'[v] \in EndAudit,
               row'[u].id = row'[v].id
        PROVE  FALSE
    BY <2>1 DEF EndsGrant, OthersStay, Stays, OInv, EndersWrote, HasStatus
  <2>2. CASE Stays(p) /\ Stays(q)
    BY <1>4, <2>2 DEF Stays, OInv, OneEnder
  <2>3. QED
    BY <1>4, <2>1, <2>2, EndersArrive
<1>5. ASSUME NEW p \in Proc, NEW e \in audit', pc'[p] \in EndAudit, e.req = row'[p].id,
             e.action \in EndEvent
      PROVE  FALSE
  <2>1. CASE EndsGrant(p)
    BY <1>5, <2>1 DEF EndsGrant, OInv, EndsWritten, HasStatus
  <2>2. CASE Stays(p) /\ e \in audit
    BY <1>5, <2>2 DEF Stays, OInv, EndsOnce, EndAudit
  <2>3. CASE Stays(p) /\ e \notin audit
    BY <1>5, <2>3, EndsRecorded DEF Stays, OInv, OneEnder
  <2>4. QED
    BY <1>5, <2>1, <2>2, <2>3, EndersArrive
<1>6. EndersWrote' /\ EndsWritten' /\ OneEnder'
  BY <1>2, <1>3, <1>4 DEF EndersWrote, EndsWritten, OneEnder, HasStatus
<1>7. EndsOnce'
  BY <1>5 DEF EndsOnce, EndAudit
<1>8. QED
  BY <1>6, <1>7 DEF OInv

(* A grant ends once in the ledger (release and the reconciler each write an *)
(* event after their Update, and both may hold the grant as approved): with  *)
(* one writer per request whoever comes to that call finds no end on record. *)
THEOREM GrantsEndOnce == Spec /\ []OneWriter => []EndsOnce
<1>1. Init => OInv
  BY DEF Init, OInv, EndersWrote, EndsWritten, OneEnder, EndsOnce, EndAudit
<1>2. IInv /\ RowSync /\ OInv /\ [Next]_vars => OInv'
  BY EndsOnceStep
<1>3. OInv => EndsOnce
  BY DEF OInv
<1>4. QED
  BY <1>1, <1>2, <1>3, Invariance, RowsInSync, PTL DEF Spec

-----------------------------------------------------------------------------
(* Who is in admin-active.  An approval is the only step that puts somebody *)
(* in.                                                                     *)
LEMMA Membership ==
  ASSUME [Next]_vars
  PROVE  \/ member' \subseteq member
         \/ \E s \in Slot : /\ ApproveAdd(s) /\ UNCHANGED requests
                            /\ member' = member \cup {row[s].user}
<1>1. ASSUME NEW s \in Slot, ApproveAdd(s)
      PROVE  \/ UNCHANGED member
             \/ UNCHANGED requests /\ member' = member \cup {row[s].user}
  BY <1>1 DEF ApproveAdd, KeycloakOk, KeycloakError, storeVars
<1>2. ASSUME NEW s \in Slot, ReleaseRemove(s)
      PROVE  member' \subseteq member
  BY <1>2 DEF ReleaseRemove, KeycloakOk, KeycloakError
<1>3. ASSUME NEW x \in todo, RevokeRow(x)
      PROVE  member' \subseteq member
  BY <1>3 DEF RevokeRow, KeycloakOk, KeycloakError
<1>4. ASSUME NEW u \in Removals, RealmRemove(u)
      PROVE  member' \subseteq member
  BY <1>4 DEF RealmRemove
<1>5. QED
  BY <1>1, <1>2, <1>3, <1>4, GroupWriters

(* Whoever is about to write the end of a grant was there already, or has   *)
(* just taken the user out.                                                 *)
LEMMA Enters ==
  ASSUME IInv, [Next]_vars, NEW p \in Proc, pc'[p] \in Ending
  PROVE  (pc[p] \in Ending /\ row'[p] = row[p]) \/ row'[p].user \notin member'
<1>1. pc \in [Proc -> Phase] /\ row \in [Proc -> Row \cup {Null}]
  BY DEF IInv, TypeOK
<1>2. CASE UNCHANGED <<pc, row>>
  BY <1>2
<1>3. CASE Stop
  BY <1>3 DEF Stop, Ending
<1>4. ASSUME NEW s \in Slot, NEW r \in Req,
             \/ \E a \in User \cup {Null}, u \in User : HandleCreate(s, a, u, r)
             \/ \E a \in User : HandleApprove(s, a, r)
             \/ \E a \in User \cup {Null} : HandleRelease(s, a, r)
      PROVE  pc[p] \in Ending /\ row'[p] = row[p]
  <2>1. pc'[s] \notin Ending /\ OthersStay(s)
    BY <1>1, <1>4, CallAlone, SlotIsNotWorker
       DEF HandleCreate, HandleApprove, HandleRelease, Goto, Ending
  <2>2. QED
    BY <2>1 DEF OthersStay, Stays
<1>5. ASSUME NEW s \in Slot, HandlerStep(s)
      PROVE  (pc[p] \in Ending /\ row'[p] = row[p]) \/ row'[p].user \notin member'
  <2>1. s \in Proc /\ s # Worker /\ OthersStay(s)
    BY <1>5, HandlerAlone, SlotIsNotWorker
  <2>2. CASE p # s
    BY <2>1, <2>2 DEF OthersStay, Stays
  <2>3. CASE ReleaseRemove(s) /\ p = s
    BY <1>1, <2>1, <2>3 DEF ReleaseRemove, KeycloakOk, Finish, Goto, Resume, Ending
  <2>4. CASE ~ReleaseRemove(s)
    <3>1. pc'[s] \notin Ending
      BY <1>1, <1>5, <2>1, <2>4
         DEF HandlerStep, CreateAudit, CreateNotify, ApproveDecide, ExpireStore, ExpireAudit,
             ExpireNotify, ApproveAdd, ApproveStore, ApproveAudit, ApproveAuditGrant,
             ApproveNotify, ReleaseStore, ReleaseAudit, ReleaseNotify, EndStore, Notify,
             Post, Finish, Goto, Resume, Ending
    <3>2. QED
      BY <2>2, <3>1
  <2>5. QED
    BY <2>2, <2>3, <2>4
<1>6. CASE ReconcileStep
  <2>1. Worker \in Proc /\ OthersStay(Worker)
    BY <1>6, WorkerAlone DEF Proc
  <2>2. CASE p # Worker
    BY <2>1, <2>2 DEF OthersStay, Stays
  <2>3. ASSUME NEW x \in todo, RevokeRow(x), p = Worker
        PROVE  row'[p].user \notin member'
    <3>1. pc[Worker] = "revoke"
      BY <2>3 DEF RevokeRow
    <3>2. KeycloakOk(member \ {x.user}) /\ row' = [row EXCEPT ![Worker] = x]
      BY <2>3, <3>1 DEF RevokeRow, Ending
    <3>3. QED
      BY <1>1, <2>1, <2>3, <3>2 DEF KeycloakOk
  <2>4. CASE \A x \in todo : ~RevokeRow(x)
    <3>1. pc'[Worker] \notin Ending
      BY <1>1, <1>6, <2>1, <2>4
         DEF ReconcileStep, Reconcile, ExpireRow, ExpireAudit, ExpireNotify, ReconcileActive,
             RevokeStore, RevokeAudit, RevokeNotify, ReconcileReturn, EndStore, Notify, Post,
             Finish, Goto, Resume, Ending
    <3>2. QED
      BY <2>2, <3>1
  <2>5. QED
    BY <2>2, <2>3, <2>4
<1>7. QED
  BY <1>2, <1>3, <1>4, <1>5, <1>6
     DEF Next, HandleMe, Start, Tick, RealmRemove, vars, procVars

(* An approval that calls Keycloak works on a request that is pending. *)
LEMMA AddedUser ==
  ASSUME IInv, RowSync, NEW s \in Slot, ApproveAdd(s)
  PROVE  /\ s \in Proc /\ WorksOn(s, row[s].id)
         /\ row[s] \in Row /\ row[s].id \in Req /\ SameRequest(row[s])
         /\ requests[row[s].id].status = "pending"
<1>1. s \in Proc /\ pc[s] = "approve_add" /\ pc[s] \in WritePhase
  BY SlotIsNotWorker DEF ApproveAdd, WritePhase
<1>2. row[s] \in Row /\ SameRequest(row[s]) /\ StillPending(row[s]) /\ WorksOn(s, row[s].id)
  BY <1>1, Worked DEF Ahead, RowSync, CopySync
<1>3. QED
  BY <1>1, <1>2 DEF StillPending, Row

(* With at most one request per user. *)
OnePerUser == \A q, r \in Req : /\ requests[q] # Null /\ requests[r] # Null
                                /\ requests[q].user = requests[r].user
                                => q = r

(* A goroutine that has taken a user out still has him out when it writes    *)
(* the row: only an approval of the same request could put him back.        *)
Out == \A p \in Proc : pc[p] \in Ending => row[p].user \notin member

LEMMA OutStep ==
  ASSUME IInv, RowSync, OneWriter, OnePerUser, Out, [Next]_vars
  PROVE  Out'
<1> SUFFICES ASSUME NEW p \in Proc, pc'[p] \in Ending, pc[p] \in Ending, row'[p] = row[p]
             PROVE  row'[p].user \notin member'
  BY Enters DEF Out, Ending
<1>1. CASE member' \subseteq member
  BY <1>1 DEF Out
<1>2. ASSUME NEW s \in Slot, ApproveAdd(s), member' = member \cup {row[s].user}
      PROVE  row'[p].user \notin member'
  <2>1. s # p /\ pc[p] \in WritePhase
    BY <1>2, SlotIsNotWorker DEF ApproveAdd, Ending, WritePhase
  <2>2. /\ WorksOn(p, row[p].id) /\ SameRequest(row[p]) /\ row[p].id \in Req
    BY <2>1, Worked DEF Row
  <2>3. /\ s \in Proc /\ WorksOn(s, row[s].id) /\ SameRequest(row[s]) /\ row[s].id \in Req
    BY <1>2, AddedUser
  <2>4. row[s].id # row[p].id
    BY <2>1, <2>2, <2>3 DEF OneWriter
  <2>5. row[s].user # row[p].user
    BY <2>2, <2>3, <2>4 DEF OnePerUser, SameRequest
  <2>6. QED
    BY <1>2, <2>5 DEF Out
<1>3. QED
  BY <1>1, <1>2, Membership

RInv == Out /\ OnePerUser /\ IsFiniteSet(Rows) /\ ReleasedMeansOut

LEMMA NewUser ==
  ASSUME MaxPerUser = 1, IInv, IsFiniteSet(Rows), NEW y, Change(y), requests[y.id] = Null,
         NEW r \in Req, requests[r] # Null
  PROVE  requests[r].user # y.user
<1>1. Cardinality({x \in Rows : x.user = y.user}) < 1
  BY DEF Change, SameRequest
<1>2. IsFiniteSet({x \in Rows : x.user = y.user})
  BY FS_Subset
<1>3. {x \in Rows : x.user = y.user} = {}
  BY <1>1, <1>2, FS_CardinalityType, FS_EmptySet
<1>4. requests[r] \in Rows
  BY DEF Rows
<1>5. QED
  BY <1>3, <1>4

LEMMA OnePerUserKept ==
  ASSUME MaxPerUser = 1, IInv, OnePerUser, IsFiniteSet(Rows), NEW y, Change(y)
  PROVE  OnePerUser' /\ IsFiniteSet(Rows)'
<1>1. /\ requests \in [Req -> Row \cup {Null}] /\ y \in Row /\ y.id \in Req
      /\ requests' = [requests EXCEPT ![y.id] = y]
  BY DEF IInv, TypeOK, Change, Row
<1>2. ASSUME NEW r \in Req, r # y.id, requests[r] # Null
      PROVE  requests[r].user # y.user
  <2>1. CASE requests[y.id] = Null
    BY <1>2, <2>1, NewUser
  <2>2. CASE requests[y.id] # Null
    BY <1>1, <1>2, <2>2 DEF OnePerUser, Change, SameRequest
  <2>3. QED
    BY <2>1, <2>2
<1>3. OnePerUser'
  BY <1>1, <1>2 DEF OnePerUser
<1>4. IsFiniteSet(Rows')
  <2>1. Rows' \in SUBSET (Rows \cup {y})
    BY <1>1 DEF Rows
  <2>2. QED
    BY <2>1, FS_AddElement, FS_Subset
<1>5. QED
  BY <1>3, <1>4

LEMMA ReleasedOutStep ==
  ASSUME IInv, RowSync, OneWriter, RInv, [Next]_vars
  PROVE  ReleasedMeansOut'
<1> SUFFICES ASSUME NEW r \in Req, requests'[r] # Null, requests'[r].status = "released"
             PROVE  requests'[r].user \notin member'
  BY DEF ReleasedMeansOut, Rows
<1>1. CASE requests'[r] = requests[r]
  <2>1. requests[r] \in Rows
    BY <1>1 DEF Rows
  <2>2. requests[r].user \notin member
    BY <1>1, <2>1 DEF RInv, ReleasedMeansOut
  <2>3. ASSUME NEW s \in Slot, ApproveAdd(s), member' = member \cup {row[s].user}
        PROVE  requests[r].user \notin member'
    <3>1. row[s].user # requests[r].user
      BY <1>1, <2>3, AddedUser DEF RInv, OnePerUser, SameRequest
    <3>2. QED
      BY <2>2, <2>3, <3>1
  <2>4. QED
    BY <1>1, <2>2, <2>3, Membership
<1>2. CASE requests'[r] # requests[r]
  <2>1. PICK y : Change(y)
    BY <1>2, Changes
  <2>2. requests'[r] = y /\ r = y.id
    BY <1>2, <2>1 DEF Change, IInv, TypeOK, Row
  <2>3. PICK p \in Proc : pc[p] \in Ending /\ requests[y.id] = row[p]
    BY <2>1, <2>2 DEF Change
  <2>4. y.user = row[p].user
    BY <2>1, <2>2, <2>3 DEF Change, SameRequest
  <2>5. member' \subseteq member
    BY <1>2, Membership
  <2>6. QED
    BY <2>2, <2>3, <2>4, <2>5 DEF RInv, Out
<1>3. QED
  BY <1>1, <1>2

(* Released means out (handleRelease and the reconciler take the user out    *)
(* before they write the row, and stop where Keycloak refuses): once a       *)
(* user's only request says released he is not in admin-active, whatever     *)
(* answer was lost, whatever write failed and wherever the process ended.    *)
THEOREM ReleasedAreOut ==
  MaxPerUser = 1 => (Spec /\ []OneWriter => []ReleasedMeansOut)
<1> SUFFICES ASSUME MaxPerUser = 1
             PROVE  Spec /\ []OneWriter => []ReleasedMeansOut
  OBVIOUS
<1>1. Init => RInv
  <2> SUFFICES ASSUME Init
               PROVE  RInv
    OBVIOUS
  <2>1. Rows = {}
    BY DEF Init, Rows
  <2>2. IsFiniteSet(Rows)
    BY <2>1, FS_EmptySet
  <2>3. QED
    BY <2>1, <2>2 DEF Init, RInv, Out, OnePerUser, ReleasedMeansOut
<1>2. IInv /\ RowSync /\ OneWriter /\ RInv /\ [Next]_vars => RInv'
  <2> SUFFICES ASSUME IInv, RowSync, OneWriter, RInv, [Next]_vars
               PROVE  RInv'
    OBVIOUS
  <2>1. Out' /\ ReleasedMeansOut'
    BY OutStep, ReleasedOutStep DEF RInv
  <2>2. CASE UNCHANGED requests
    <3>1. Rows' = Rows
      BY <2>2 DEF Rows
    <3>2. QED
      BY <2>1, <2>2, <3>1 DEF RInv, OnePerUser
  <2>3. ASSUME NEW y, Change(y)
        PROVE  OnePerUser' /\ IsFiniteSet(Rows)'
    BY <2>3, OnePerUserKept DEF RInv
  <2>4. QED
    BY <2>1, <2>2, <2>3, Changes DEF RInv
<1>3. RInv => ReleasedMeansOut
  BY DEF RInv
<1>4. QED
  BY <1>1, <1>2, <1>3, Invariance, RowsInSync, PTL DEF Spec

-----------------------------------------------------------------------------
(* Where Keycloak's answers are true, writes succeed and the process lives, *)
(* the table and the group agree.                                           *)
LEMMA ApprovalHeld ==
  ASSUME DbFaults = FALSE, MaxStops = 0, IInv, [Next]_vars,
         NEW s \in Slot, pc[s] = "approve_store"
  PROVE  \/ pc'[s] = "approve_store" /\ row'[s] = row[s]
         \/ requests' = [requests EXCEPT ![row[s].id] = row[s]]
<1>1. /\ s \in Proc /\ s # Worker /\ Worker \in Proc /\ pc[s] \notin NoRow
      /\ row[s] \in Row /\ SameRequest(row[s])
  BY Worked, SlotIsNotWorker DEF WritePhase, NoRow
<1>2. ASSUME NEW p \in Proc, p # s, OthersStay(p)
      PROVE  pc'[s] = "approve_store" /\ row'[s] = row[s]
  BY <1>1, <1>2 DEF OthersStay, Stays
<1>3. CASE HandlerStep(s)
  <2>1. ApproveStore(s)
    BY <1>3
       DEF HandlerStep, CreateAudit, CreateNotify, ApproveDecide, ExpireStore, ExpireAudit,
           ExpireNotify, ApproveAdd, ApproveAudit, ApproveAuditGrant, ApproveNotify,
           ReleaseRemove, ReleaseStore, ReleaseAudit, ReleaseNotify, Post
  <2>2. QED
    BY <1>1, <2>1, UpdatedIsCopy DEF ApproveStore, Update
<1>4. ASSUME NEW q \in Slot, HandlerStep(q)
      PROVE  \/ pc'[s] = "approve_store" /\ row'[s] = row[s]
             \/ requests' = [requests EXCEPT ![row[s].id] = row[s]]
  BY <1>2, <1>3, <1>4, HandlerAlone, SlotIsNotWorker
<1>5. ASSUME NEW q \in Slot, NEW r \in Req,
             \/ \E a \in User \cup {Null}, u \in User : HandleCreate(q, a, u, r)
             \/ \E a \in User : HandleApprove(q, a, r)
             \/ \E a \in User \cup {Null} : HandleRelease(q, a, r)
      PROVE  pc'[s] = "approve_store" /\ row'[s] = row[s]
  <2>1. q # s /\ q \in Proc
    BY <1>5, SlotIsNotWorker DEF HandleCreate, HandleApprove, HandleRelease
  <2>2. QED
    BY <1>2, <1>5, <2>1, CallAlone
<1>6. CASE ReconcileStep
  BY <1>1, <1>2, <1>6, WorkerAlone
<1>7. CASE UNCHANGED <<pc, row>>
  BY <1>7
<1>8. ~Stop
  BY DEF Stop, IInv, TypeOK
<1>9. QED
  BY <1>4, <1>5, <1>6, <1>7, <1>8
     DEF Next, HandleMe, Start, Tick, RealmRemove, vars, procVars

(* What accounts for u's membership: an approved request that nobody has     *)
(* taken him out for, or an approval between its group call and its write.  *)
Live(r) == HasStatus(r, "approved") /\ \A p \in Proc : pc[p] \in Ending => row[p].id # r

Covered(u) == \/ \E r \in Req : Live(r) /\ requests[r].user = u
              \/ \E s \in Slot : pc[s] = "approve_store" /\ row[s].user = u

AllCovered == \A u \in member : Covered(u)

(* Only a goroutine at work on a request can come to end its grant; one that *)
(* does so now has just taken the user out.                                 *)
LEMMA EndsNow ==
  ASSUME IInv, IInv', [Next]_vars, NEW p \in Proc, pc'[p] \in Ending, NEW r \in Req,
         row'[p].id = r, requests'[r].user \in member'
  PROVE  pc[p] \in Ending /\ row[p].id = r
<1>1. row'[p].user = requests'[r].user
  <2>1. pc'[p] \notin NoRow
    BY DEF Ending, NoRow
  <2>2. requests'[row'[p].id].user = row'[p].user
    BY <2>1 DEF IInv, CopiesFit, CopyFits, Fits, SameRequest
  <2>3. QED
    BY <2>2
<1>2. QED
  BY <1>1, Enters

LEMMA LiveStep ==
  ASSUME IInv, IInv', RowSync, [Next]_vars, NEW r \in Req, Live(r),
         requests[r].user \in member'
  PROVE  Live(r)' /\ requests'[r].user = requests[r].user
<1>1. requests'[r] = requests[r]
  <2>1. ASSUME requests'[r] # requests[r]
        PROVE  FALSE
    <3>1. PICK y : Change(y)
      BY <2>1, Changes
    <3>2. r = y.id
      BY <2>1, <3>1 DEF Change, IInv, TypeOK
    <3>3. PICK p \in Proc : pc[p] \in Ending /\ requests[r] = row[p]
      BY <3>1, <3>2 DEF Change, StillPending, Live, HasStatus
    <3>4. row[p].id = r
      BY <3>3 DEF IInv, Keyed, Live, HasStatus
    <3>5. QED
      BY <3>3, <3>4 DEF Live
  <2>2. QED
    BY <2>1
<1>2. ASSUME NEW p \in Proc, pc'[p] \in Ending
      PROVE  row'[p].id # r
  BY <1>1, <1>2, EndsNow DEF Live
<1>3. QED
  BY <1>1, <1>2 DEF Live, HasStatus

LEMMA CoveredStep ==
  ASSUME DbFaults = FALSE, MaxStops = 0, KcFaults \subseteq {"refused"},
         IInv, IInv', RowSync, OneWriter, AllCovered, [Next]_vars
  PROVE  AllCovered'
<1> SUFFICES ASSUME NEW u \in member'
             PROVE  Covered(u)'
  BY DEF AllCovered
<1>1. pc \in [Proc -> Phase] /\ row \in [Proc -> Row \cup {Null}]
      /\ requests \in [Req -> Row \cup {Null}]
  BY DEF IInv, TypeOK
<1>2. ASSUME NEW r \in Req, Live(r), requests[r].user = u
      PROVE  Covered(u)'
  BY <1>2, LiveStep DEF Covered
<1>3. ASSUME NEW s \in Slot, pc[s] = "approve_store", row[s].user = u
      PROVE  Covered(u)'
  <2>1. CASE pc'[s] = "approve_store" /\ row'[s] = row[s]
    BY <1>3, <2>1 DEF Covered
  <2>2. CASE requests' = [requests EXCEPT ![row[s].id] = row[s]]
    <3>1. s \in Proc /\ pc[s] \in WritePhase /\ pc[s] \notin NoRow /\ pc[s] \notin Ending
      BY <1>3, SlotIsNotWorker DEF WritePhase, NoRow, Ending
    <3>2. PICK r \in Req : r = row[s].id /\ WorksOn(s, r)
      BY <3>1, Worked DEF Row
    <3>3. requests'[r] = row[s] /\ row[s] # Null /\ row[s].status = "approved"
      BY <1>1, <1>3, <2>2, <3>1, <3>2, HeldRow
         DEF IInv, CopiesFit, CopyFits, PhaseStatus
    <3>4. ASSUME NEW p \in Proc, pc'[p] \in Ending, row'[p].id = r
          PROVE  FALSE
      <4>1. pc[p] \in Ending /\ row[p].id = r
        BY <1>3, <3>3, <3>4, EndsNow
      <4>2. WorksOn(p, r)
        BY <4>1 DEF WorksOn, Ending, WritePhase
      <4>3. QED
        BY <3>1, <3>2, <4>1, <4>2 DEF OneWriter
    <3>5. QED
      BY <1>3, <3>3, <3>4 DEF Covered, Live, HasStatus
  <2>3. QED
    BY <1>3, <2>1, <2>2, ApprovalHeld
<1>4. CASE u \notin member
  <2>1. PICK s \in Slot : ApproveAdd(s) /\ member' = member \cup {row[s].user}
    BY <1>4, Membership
  <2>2. ~KeycloakError(member \cup {row[s].user})
    BY <1>4, <2>1 DEF KeycloakError
  <2>3. pc'[s] = "approve_store" /\ row'[s] = row[s] /\ row[s].user = u
    BY <1>1, <1>4, <2>1, <2>2, SlotIsNotWorker DEF ApproveAdd, Goto
  <2>4. QED
    BY <2>3 DEF Covered
<1>5. QED
  BY <1>2, <1>3, <1>4 DEF AllCovered, Covered

LEMMA MembersCovered ==
  ASSUME DbFaults = FALSE, MaxStops = 0, KcFaults \subseteq {"refused"}
  PROVE  Spec /\ []OneWriter => []AllCovered
<1>1. Init => AllCovered
  BY DEF Init, AllCovered
<1>2. IInv /\ IInv' /\ RowSync /\ OneWriter /\ AllCovered /\ [Next]_vars => AllCovered'
  BY CoveredStep
<1>3. QED
  BY <1>1, <1>2, Invariance, RowsInSync, PTL DEF Spec

(* Membership follows the table (handleApprove adds before it stores, and    *)
(* handleRelease and the reconciler remove before they store): outside that  *)
(* window every member has an approved row, however many requests he has    *)
(* and whatever else goes on with them.                                     *)
THEOREM MembersAreApproved ==
  KcFaults \subseteq {"refused"} /\ DbFaults = FALSE /\ MaxStops = 0
    => (Spec /\ []OneWriter => []NoOrphan)
<1> SUFFICES ASSUME KcFaults \subseteq {"refused"}, DbFaults = FALSE, MaxStops = 0
             PROVE  Spec /\ []OneWriter => []NoOrphan
  OBVIOUS
<1>1. AllCovered => NoOrphan
  BY DEF AllCovered, Covered, Live, HasStatus, NoOrphan, Rows
<1>2. QED
  BY <1>1, MembersCovered, PTL

(* No orphaned standing access (SECURITY.md; stale_expire_orphan shows the   *)
(* reconciler's stale write leaving some): with one writer per request and  *)
(* no lost answer, failed write or stop, whoever is in the group has an     *)
(* approved request, or an approval of his is about to be stored.           *)
THEOREM NobodyLeftStanding ==
  KcFaults \subseteq {"refused"} /\ DbFaults = FALSE /\ MaxStops = 0
    => (Spec /\ []OneWriter => []NoStandingAccess)
<1> SUFFICES ASSUME KcFaults \subseteq {"refused"}, DbFaults = FALSE, MaxStops = 0
             PROVE  Spec /\ []OneWriter => []NoStandingAccess
  OBVIOUS
<1>1. IInv /\ NoOrphan => NoStandingAccess
  <2> SUFFICES ASSUME IInv, NoOrphan, NEW u \in member
               PROVE  \/ Busy(u)
                      \/ \E x \in Rows : x.user = u /\ x.status \in {"pending", "approved"}
    BY DEF NoStandingAccess
  <2>1. ASSUME NEW s \in Slot, pc[s] = "approve_store", row[s].user = u
        PROVE  Busy(u)
    <3>1. s \in Proc /\ row[s] # Null
      BY <2>1, HeldRow, SlotIsNotWorker DEF NoRow
    <3>2. u \in Held(s)
      BY <2>1, <3>1 DEF Held
    <3>3. QED
      BY <3>1, <3>2 DEF Busy
  <2>2. QED
    BY <2>1 DEF NoOrphan
<1>2. QED
  BY <1>1, Invariance, MembersAreApproved, PTL

-----------------------------------------------------------------------------
(* The service implements Elevation.  What the promise sees of a request is *)
(* its row and the goroutines between a group call and the write after it.  *)
Opening(r) == {s \in Slot : pc[s] = "approve_store" /\ row[s].id = r}

Closing(r) == {p \in Proc : pc[p] \in Ending /\ row[p].id = r}

Windows == {"approve_store"} \cup Ending

Grant(u, by, state) == [user |-> u, by |-> by, state |-> state]

GrantAs(r, by, state) == GrantOf(r) = Grant(requests[r].user, by, state)

Seen(r) ==
  LET by == requests[r].approvedBy IN
  /\ requests[r] = Null => GrantOf(r) = Null
  /\ \A s \in Opening(r) : GrantAs(r, row[s].approvedBy, "open")
  /\ HasStatus(r, "pending") /\ Opening(r) = {} => GrantAs(r, by, "asked")
  /\ HasStatus(r, "approved") /\ Closing(r) = {} => GrantAs(r, by, "open")
  /\ Closing(r) # {} => GrantAs(r, by, "closed")
  /\ HasStatus(r, "released") => GrantAs(r, by, "closed")
  /\ HasStatus(r, "expired") => GrantAs(r, by, "lapsed")

AllSeen == \A r \in Req : Seen(r)

EInv == IInv /\ RowSync /\ OneWriter /\ OwnApproval

(* Nobody else has in hand a request one works on. *)
LEMMA NobodyElse ==
  ASSUME OneWriter, NEW p \in Proc, NEW q \in Proc, NEW r \in Req,
         WorksOn(p, r), pc[q] \in WritePhase, row[q].id = r
  PROVE  p = q
BY DEF OneWriter, WorksOn

LEMMA WindowRows ==
  ASSUME EInv, NEW p \in Proc, pc[p] \in Windows
  PROVE  /\ row[p].id \in Req /\ row[p].user = requests[row[p].id].user
         /\ pc[p] = "approve_store" => /\ HasStatus(row[p].id, "pending")
                                      /\ p \in Slot /\ row[p].approvedBy = actor[p]
         /\ pc[p] \in Ending => /\ requests[row[p].id] = row[p]
                                /\ HasStatus(row[p].id, "approved")
<1>1. row[p] \in Row /\ SameRequest(row[p]) /\ row[p] # Null
  BY HeldRow, Worked DEF EInv, Windows, Ending, NoRow, WritePhase
<1>2. CASE pc[p] = "approve_store"
  BY <1>1, <1>2
     DEF EInv, OwnApproval, RowSync, CopySync, Ahead, StillPending, HasStatus, SameRequest,
         Ending, Row
<1>3. CASE pc[p] \in Ending
  BY <1>1, <1>3
     DEF EInv, RowSync, CopySync, Equal, Stored, HasStatus, SameRequest, Ending, Row,
         IInv, CopiesFit, CopyFits, PhaseStatus
<1>4. QED
  BY <1>2, <1>3 DEF Windows

LEMMA SeenAsIs == EInv => AllSeen
<1> SUFFICES ASSUME EInv, NEW r \in Req
             PROVE  Seen(r)
  BY DEF AllSeen
<1>1. requests[r] # Null => requests[r] \in Row /\ requests[r].id = r
  BY DEF EInv, IInv, TypeOK, Keyed
<1>2. At({"approve_store"}, r) <=> Opening(r) # {}
  BY WindowRows, SlotIsNotWorker DEF At, Opening, Windows
<1>3. At({"release_store", "revoke_store"}, r) <=> Closing(r) # {}
  BY DEF At, Closing, Ending
<1>4. ASSUME NEW s \in Opening(r)
      PROVE  HasStatus(r, "pending") /\ Approver(requests[r]) = row[s].approvedBy
  <2>1. s \in Proc /\ s \in Slot /\ pc[s] = "approve_store" /\ row[s].id = r
    BY <1>4, SlotIsNotWorker DEF Opening
  <2>2. HasStatus(r, "pending") /\ row[s].approvedBy = actor[s] /\ row[s].user = requests[r].user
    BY <2>1, WindowRows DEF Windows
  <2>3. \A t \in Slot : pc[t] = "approve_store" /\ row[t].id = r => t = s
    <3>1. WorksOn(s, r)
      BY <2>1 DEF WorksOn, WritePhase
    <3>2. QED
      BY <2>1, <3>1, NobodyElse, SlotIsNotWorker DEF EInv, WritePhase
  <2>4. (CHOOSE t \in Slot : pc[t] = "approve_store" /\ row[t].id = r) = s
    BY <2>1, <2>3
  <2>5. requests[r].status = "pending" /\ requests[r].id = r
    BY <1>1, <2>2 DEF HasStatus
  <2>6. QED
    BY <1>2, <1>4, <2>2, <2>4, <2>5 DEF Approver
<1>5. ASSUME Opening(r) = {}, requests[r] # Null
      PROVE  Approver(requests[r]) = requests[r].approvedBy
  BY <1>1, <1>2, <1>5 DEF Approver
<1>6. ASSUME NEW p \in Closing(r)
      PROVE  HasStatus(r, "approved")
  BY <1>6, WindowRows DEF Closing, Windows
<1>7. requests[r] # Null /\ requests[r].status # "pending" => Opening(r) = {}
  BY <1>4 DEF HasStatus
<1>8. QED
  BY <1>1, <1>2, <1>3, <1>4, <1>5, <1>6, <1>7
     DEF Seen, GrantAs, GrantOf, GrantState, Grant, HasStatus

LEMMA SeenNext == EInv' => AllSeen'
BY SeenAsIs, PTL

(* What a step leaves of the promise's view. *)
LEMMA SeenSame ==
  ASSUME EInv, EInv', NEW p \in Proc, OthersStay(p), NEW r \in Req, requests'[r] = requests[r],
         pc[p] \in Windows => row[p].id # r,
         pc'[p] \in Windows => row'[p].id # r
  PROVE  GrantOf(r)' = GrantOf(r)
<1>1. Seen(r) /\ Seen(r)'
  BY SeenAsIs, SeenNext DEF AllSeen
<1>2. /\ \A q \in Proc : pc[q] \in Windows /\ row[q].id = r =>
             pc'[q] = pc[q] /\ row'[q] = row[q]
      /\ \A q \in Proc : pc'[q] \in Windows /\ row'[q].id = r =>
             pc'[q] = pc[q] /\ row'[q] = row[q]
  BY DEF OthersStay, Stays
<1>3. /\ \A s : s \in Opening(r) => s \in Opening(r)' /\ row'[s] = row[s]
      /\ \A s : s \in Opening(r)' => s \in Opening(r)
  BY <1>2, SlotIsNotWorker DEF Opening, Windows
<1>4. Closing(r)' = Closing(r)
  BY <1>2 DEF Closing, Windows
<1>5. CASE requests[r] = Null
  BY <1>1, <1>5 DEF Seen
<1>6. ASSUME NEW s \in Opening(r)
      PROVE  GrantOf(r)' = GrantOf(r)
  BY <1>1, <1>3, <1>6 DEF Seen, GrantAs
<1>7. CASE requests[r] # Null /\ Opening(r) = {}
  <2>1. Opening(r)' = {}
    BY <1>3, <1>7
  <2>2. requests[r].status \in Status
    BY <1>7 DEF EInv, IInv, TypeOK, Row
  <2>3. CASE requests[r].status \in {"pending", "released", "expired"}
    BY <1>1, <1>7, <2>1, <2>3 DEF Seen, GrantAs, HasStatus
  <2>4. CASE requests[r].status = "approved"
    BY <1>1, <1>4, <1>7, <2>4 DEF Seen, GrantAs, HasStatus
  <2>5. QED
    BY <2>2, <2>3, <2>4 DEF Status
<1>8. QED
  BY <1>5, <1>6, <1>7

Elsewhere(r) == \A q \in Req \ {r} : GrantOf(q)' = GrantOf(q)

Becomes(r, by, from, by2, to) ==
  LET u == requests[r].user IN
  /\ r \in Req /\ Elsewhere(r)
  /\ u \in User /\ by \in User \cup {Null}
  /\ GrantOf(r) = Grant(u, by, from) /\ GrantOf(r)' = Grant(u, by2, to)

NothingSeen == (\A r \in Req : GrantOf(r)' = GrantOf(r)) /\ UNCHANGED member

LEMMA GrantIsNotNull ==
  ASSUME NEW u \in User, NEW by \in User \cup {Null},
         NEW state \in {"asked", "open", "closed", "lapsed"}
  PROVE  Grant(u, by, state) # Null
BY GrantAssumption DEF GrantAssumption, Grant

(* One record of the mapped function changes. *)
LEMMA Becoming ==
  ASSUME NEW r, NEW by, NEW from \in {"asked", "open"}, NEW by2, NEW to,
         Becomes(r, by, from, by2, to)
  PROVE  /\ r \in Req /\ E!In(r, from)
         /\ [GrantOf(r) EXCEPT !.state = to] = Grant(requests[r].user, by, to)
<1>1. /\ r \in Req /\ GrantOf(r) = Grant(requests[r].user, by, from)
      /\ requests[r].user \in User /\ by \in User \cup {Null}
  BY DEF Becomes
<1>2. GrantOf(r) # Null /\ GrantOf(r).state = from
  BY <1>1, GrantIsNotNull DEF Grant
<1>3. E!In(r, from)
  BY <1>1, <1>2 DEF E!In
<1>4. [GrantOf(r) EXCEPT !.state = to] = Grant(requests[r].user, by, to)
  BY <1>1 DEF Grant
<1>5. QED
  BY <1>1, <1>3, <1>4

LEMMA StutterStep == NothingSeen => UNCHANGED E!vars
BY DEF NothingSeen, E!vars

LEMMA LapseStep ==
  ASSUME NEW r, NEW by, Becomes(r, by, "asked", by, "lapsed"), UNCHANGED member
  PROVE  E!Next
<1>1. PICK g : g = [q \in Req |-> GrantOf(q)]
  OBVIOUS
<1>2. /\ r \in Req /\ \A q \in Req : g[q] = GrantOf(q)
      /\ [g[r] EXCEPT !.state = "lapsed"] = Grant(requests[r].user, by, "lapsed")
  BY <1>1, Becoming DEF Becomes, Grant
<1>3. [g EXCEPT ![r].state = "lapsed"]
        = [q \in Req |-> IF q = r THEN Grant(requests[r].user, by, "lapsed") ELSE GrantOf(q)]
  BY <1>1, <1>2
<1>4. [[q \in Req |-> GrantOf(q)] EXCEPT ![r].state = "lapsed"]
        = [q \in Req |-> IF q = r THEN Grant(requests[r].user, by, "lapsed") ELSE GrantOf(q)]
  BY <1>1, <1>3
<1>5. [q \in Req |-> GrantOf(q)]'
        = [q \in Req |-> IF q = r THEN Grant(requests[r].user, by, "lapsed") ELSE GrantOf(q)]
  BY DEF Becomes, Elsewhere
<1>6. [q \in Req |-> GrantOf(q)]' = [[q \in Req |-> GrantOf(q)] EXCEPT ![r].state = "lapsed"]
  BY <1>4, <1>5, Zenon
<1>7. E!In(r, "asked")
  BY Becoming
<1>8. [q \in Req |-> GrantOf(q)][r].user = requests[r].user
  BY DEF Becomes, Grant
<1>9. E!Lapse(r)
  BY <1>6, <1>7, <1>8 DEF E!Lapse
<1>10. QED
  BY <1>9 DEF E!Next, Becomes

LEMMA OpenStep ==
  ASSUME NEW r, NEW by, NEW a \in User, a \in Permanent, Becomes(r, by, "asked", a, "open"),
         member' = member \cup {requests[r].user}
  PROVE  E!Next
<1>1. [q \in Req |-> GrantOf(q)][r].user = requests[r].user
  BY DEF Becomes, Grant
<1>2. [q \in Req |-> GrantOf(q)]'
        = [[q \in Req |-> GrantOf(q)] EXCEPT
             ![r] = [user |-> requests[r].user, by |-> a, state |-> "open"]]
  BY DEF Becomes, Elsewhere, Grant
<1>3. E!In(r, "asked")
  BY Becoming
<1>4. E!Open(r, a)
  BY <1>1, <1>2, <1>3 DEF E!Open
<1>5. QED
  BY <1>4 DEF E!Next, Becomes

LEMMA CloseStep ==
  ASSUME NEW r, NEW by, Becomes(r, by, "open", by, "closed"),
         member' = member \ {requests[r].user}
  PROVE  E!Next
<1>1. PICK g : g = [q \in Req |-> GrantOf(q)]
  OBVIOUS
<1>2. /\ r \in Req /\ \A q \in Req : g[q] = GrantOf(q)
      /\ [g[r] EXCEPT !.state = "closed"] = Grant(requests[r].user, by, "closed")
  BY <1>1, Becoming DEF Becomes, Grant
<1>3. [g EXCEPT ![r].state = "closed"]
        = [q \in Req |-> IF q = r THEN Grant(requests[r].user, by, "closed") ELSE GrantOf(q)]
  BY <1>1, <1>2
<1>4. [[q \in Req |-> GrantOf(q)] EXCEPT ![r].state = "closed"]
        = [q \in Req |-> IF q = r THEN Grant(requests[r].user, by, "closed") ELSE GrantOf(q)]
  BY <1>1, <1>3
<1>5. [q \in Req |-> GrantOf(q)]'
        = [q \in Req |-> IF q = r THEN Grant(requests[r].user, by, "closed") ELSE GrantOf(q)]
  BY DEF Becomes, Elsewhere
<1>6. [q \in Req |-> GrantOf(q)]' = [[q \in Req |-> GrantOf(q)] EXCEPT ![r].state = "closed"]
  BY <1>4, <1>5, Zenon
<1>7. E!In(r, "open")
  BY Becoming
<1>8. [q \in Req |-> GrantOf(q)][r].user = requests[r].user
  BY DEF Becomes, Grant
<1>9. E!Close(r)
  BY <1>6, <1>7, <1>8 DEF E!Close
<1>10. QED
  BY <1>9 DEF E!Next, Becomes

LEMMA AskStep ==
  ASSUME NEW r \in Req, Elsewhere(r), NEW u \in User, u \in Eligible, GrantOf(r) = Null,
         GrantOf(r)' = Grant(u, Null, "asked"), UNCHANGED member
  PROVE  E!Next
<1>1. E!Ask(r, u)
  BY DEF E!Ask, Elsewhere, Grant
<1>2. QED
  BY <1>1 DEF E!Next
(* Steps aside of the windows, and those into and out of them. *)
LEMMA AsideSeen ==
  ASSUME EInv, EInv', NEW p \in Proc, OthersStay(p), UNCHANGED <<requests, member>>,
         pc[p] \notin Windows, pc'[p] \notin Windows
  PROVE  NothingSeen
BY SeenSame DEF NothingSeen

LEMMA RowWritten ==
  ASSUME EInv, NEW y \in Row, requests' = [requests EXCEPT ![y.id] = y]
  PROVE  /\ y.id \in Req /\ requests'[y.id] = y
         /\ \A r \in Req \ {y.id} : requests'[r] = requests[r]
BY DEF EInv, IInv, TypeOK, Row

LEMMA LapseSeen ==
  ASSUME EInv, EInv', NEW p \in Proc, OthersStay(p), NEW y \in Row,
         requests' = [requests EXCEPT ![y.id] = y], UNCHANGED member,
         Fits(y), StillPending(y), y.status = "expired", WorksOn(p, y.id),
         pc[p] \notin Windows, pc'[p] \notin Windows
  PROVE  E!Next
<1>1. PICK r \in Req : r = y.id
  BY RowWritten
<1>2. Elsewhere(r)
  BY <1>1, SeenSame, RowWritten DEF Elsewhere
<1>3. /\ HasStatus(r, "pending") /\ requests[r].user = y.user /\ requests'[r] = y
      /\ requests[r] \in Row /\ y # Null
  BY <1>1, RowWritten, NullAssumption
     DEF Fits, SameRequest, StillPending, HasStatus, EInv, IInv, TypeOK, NullAssumption
<1>4. Opening(r) = {}
  BY <1>1, NobodyElse, SlotIsNotWorker DEF Opening, EInv, Windows, WritePhase
<1>5. requests[r].approvedBy = Null /\ y.approvedBy = Null
  BY <1>3 DEF Fits, Coherent, HasStatus, EInv, IInv, StoredCoherent
<1>6. GrantOf(r) = Grant(y.user, Null, "asked")
  BY <1>3, <1>4, <1>5, SeenAsIs DEF AllSeen, Seen, GrantAs
<1>7. GrantOf(r)' = Grant(y.user, Null, "lapsed")
  BY <1>1, <1>3, <1>5, SeenNext DEF AllSeen, Seen, GrantAs, HasStatus
<1>8. Becomes(r, Null, "asked", Null, "lapsed")
  BY <1>2, <1>3, <1>6, <1>7 DEF Becomes, Row
<1>9. QED
  BY <1>8, LapseStep

LEMMA CloseSeen ==
  ASSUME EInv, EInv', NEW p \in Proc, OthersStay(p), UNCHANGED requests,
         NEW x \in Row, row'[p] = x, requests[x.id] = x, x.status = "approved",
         WorksOn(p, x.id), member' = member \ {x.user},
         pc[p] \notin Windows, pc'[p] \in Ending
  PROVE  E!Next
<1>1. PICK r \in Req : r = x.id
  BY DEF Row
<1>2. Elsewhere(r)
  BY <1>1, SeenSame DEF Elsewhere
<1>3. HasStatus(r, "approved")
  BY <1>1, NullAssumption DEF HasStatus, NullAssumption
<1>4. Closing(r) = {}
  BY <1>1, NobodyElse DEF Closing, EInv, Windows, Ending, WritePhase
<1>5. p \in Closing(r)'
  BY <1>1 DEF Closing
<1>6. GrantOf(r) = Grant(x.user, x.approvedBy, "open")
  BY <1>1, <1>3, <1>4, SeenAsIs DEF AllSeen, Seen, GrantAs
<1>7. GrantOf(r)' = Grant(x.user, x.approvedBy, "closed")
  BY <1>1, <1>5, SeenNext DEF AllSeen, Seen, GrantAs
<1>8. Becomes(r, x.approvedBy, "open", x.approvedBy, "closed")
  BY <1>1, <1>2, <1>6, <1>7 DEF Becomes, Row
<1>9. QED
  BY <1>1, <1>8, CloseStep

LEMMA EndSeen ==
  ASSUME EInv, EInv', NEW p \in Proc, OthersStay(p), pc[p] \in Ending, pc'[p] \notin Windows,
         NEW next, EndStore(p, next), DbFaults = FALSE
  PROVE  NothingSeen
<1>1. pc[p] \in Windows /\ pc[p] \notin NoRow /\ pc[p] # "approve_store"
  BY DEF Windows, Ending, NoRow
<1>2. PICK x \in Row : x = row[p] /\ Fits(x)
  BY <1>1, HeldRow DEF EInv
<1>3. /\ x.id \in Req /\ requests[x.id] = x /\ HasStatus(x.id, "approved")
      /\ x.status = "approved"
  BY <1>1, <1>2, WindowRows DEF HasStatus
<1>4. PICK y \in Row : y = Released(x) /\ Fits(y)
  BY <1>2, <1>3, ReleasedFits DEF EInv
<1>5. /\ y.id = x.id /\ y.user = x.user /\ y.approvedBy = x.approvedBy
      /\ y.status = "released" /\ y # Null
  BY <1>4, NullAssumption DEF Released, Row, NullAssumption
<1>6. requests' = [requests EXCEPT ![y.id] = y] /\ UNCHANGED member
  BY <1>2, <1>4, UpdatedIsCopy DEF EndStore, Update, Fits
<1>7. PICK r \in Req : r = x.id
  BY <1>3
<1>8. \A q \in Req \ {r} : GrantOf(q)' = GrantOf(q)
  BY <1>2, <1>5, <1>6, <1>7, SeenSame, RowWritten
<1>9. p \in Closing(r)
  BY <1>2, <1>7 DEF Closing
<1>10. GrantOf(r) = Grant(x.user, x.approvedBy, "closed")
  BY <1>3, <1>7, <1>9, SeenAsIs DEF AllSeen, Seen, GrantAs
<1>11. requests'[r] = y
  BY <1>5, <1>6, <1>7, RowWritten
<1>12. GrantOf(r)' = Grant(x.user, x.approvedBy, "closed")
  BY <1>5, <1>11, SeenNext DEF AllSeen, Seen, GrantAs, HasStatus
<1>13. QED
  BY <1>6, <1>8, <1>10, <1>12 DEF NothingSeen

LEMMA StoreSeen ==
  ASSUME EInv, EInv', NEW s \in Slot, OthersStay(s), ApproveStore(s), DbFaults = FALSE
  PROVE  NothingSeen
<1>1. /\ s \in Proc /\ pc[s] = "approve_store" /\ pc[s] \in Windows /\ pc[s] \in WritePhase
      /\ pc'[s] = "approve_audit" /\ pc'[s] \notin Windows /\ UNCHANGED member
  BY SlotIsNotWorker DEF ApproveStore, Goto, Windows, Ending, WritePhase, EInv, IInv, TypeOK
<1>2. PICK x \in Row : x = row[s] /\ SameRequest(x) /\ WorksOn(s, x.id)
  BY <1>1, Worked DEF EInv
<1>3. PICK r \in Req : r = x.id /\ requests[r].user = x.user
  BY <1>1, <1>2, WindowRows
<1>4. x.status = "approved" /\ x # Null
  BY <1>1, <1>2, NullAssumption
     DEF EInv, IInv, CopiesFit, CopyFits, PhaseStatus, NullAssumption
<1>5. requests' = [requests EXCEPT ![x.id] = x]
  BY <1>2, UpdatedIsCopy DEF ApproveStore, Update
<1>6. \A q \in Req \ {r} : GrantOf(q)' = GrantOf(q)
  BY <1>1, <1>2, <1>3, <1>5, SeenSame, RowWritten
<1>7. GrantOf(r) = Grant(x.user, x.approvedBy, "open")
  <2>1. s \in Opening(r)
    BY <1>1, <1>2, <1>3 DEF Opening
  <2>2. QED
    BY <1>2, <1>3, <2>1, SeenAsIs DEF AllSeen, Seen, GrantAs
<1>8. GrantOf(r)' = Grant(x.user, x.approvedBy, "open")
  <2>1. requests'[r] = x
    BY <1>3, <1>5, RowWritten
  <2>2. ASSUME NEW q \in Proc, pc'[q] \in Ending, row'[q].id = r
        PROVE  FALSE
    <3>1. q # s /\ pc[q] \in Ending /\ row[q].id = r
      BY <1>1, <2>2 DEF Windows, OthersStay, Stays
    <3>2. QED
      BY <1>1, <1>2, <1>3, <3>1, NobodyElse DEF EInv, Ending, WritePhase
  <2>3. Closing(r)' = {}
    BY <2>2 DEF Closing
  <2>4. QED
    BY <1>4, <2>1, <2>3, SeenNext DEF AllSeen, Seen, GrantAs, HasStatus
<1>9. QED
  BY <1>1, <1>6, <1>7, <1>8 DEF NothingSeen

LEMMA OpenSeen ==
  ASSUME EInv, EInv', NEW s \in Slot, OthersStay(s), ApproveAdd(s),
         KeycloakOk(member \cup {row[s].user}), Goto(s, "approve_store"), UNCHANGED <<row, actor>>
  PROVE  E!Next
<1>1. /\ s \in Proc /\ pc[s] = "approve_add" /\ pc[s] \notin Windows
      /\ pc[s] \in WritePhase /\ pc[s] \notin NoRow
      /\ pc'[s] = "approve_store" /\ UNCHANGED requests
  BY SlotIsNotWorker
     DEF ApproveAdd, Goto, Windows, Ending, WritePhase, NoRow, storeVars, EInv, IInv, TypeOK
<1>2. PICK x \in Row : x = row[s] /\ SameRequest(x) /\ StillPending(x) /\ WorksOn(s, x.id)
  BY <1>1, Worked DEF EInv, RowSync, CopySync, Ahead
<1>3. PICK r \in Req : r = x.id
  BY DEF Row
<1>4. HasStatus(r, "pending") /\ requests[r].user = x.user /\ requests[r] \in Row
  BY <1>2, <1>3 DEF SameRequest, StillPending, HasStatus, EInv, IInv, TypeOK
<1>5. Elsewhere(r)
  BY <1>1, <1>2, <1>3, SeenSame DEF Elsewhere
<1>6. x.approvedBy \in Permanent /\ x.approvedBy \in User
  BY <1>1, <1>2, ConfigAssumption
     DEF ConfigAssumption, EInv, IInv, CopiesFit, CopyFits, PhaseStatus, Fits, Coherent, NoRow
<1>7. GrantOf(r) = Grant(x.user, requests[r].approvedBy, "asked")
  <2>1. Opening(r) = {}
    BY <1>1, <1>2, <1>3, NobodyElse, SlotIsNotWorker DEF Opening, EInv, WritePhase
  <2>2. QED
    BY <1>4, <2>1, SeenAsIs DEF AllSeen, Seen, GrantAs
<1>8. GrantOf(r)' = Grant(x.user, x.approvedBy, "open")
  <2>1. s \in Opening(r)'
    BY <1>1, <1>2, <1>3 DEF Opening
  <2>2. QED
    BY <1>1, <1>2, <1>4, <2>1, SeenNext DEF AllSeen, Seen, GrantAs
<1>9. Becomes(r, requests[r].approvedBy, "asked", x.approvedBy, "open")
  BY <1>4, <1>5, <1>7, <1>8 DEF Becomes, Row
<1>10. QED
  BY <1>2, <1>4, <1>6, <1>9, OpenStep DEF KeycloakOk

LEMMA AskSeen ==
  ASSUME EInv, EInv', NEW s \in Slot, OthersStay(s), NEW r \in Req, NEW a, NEW u \in User,
         HandleCreate(s, a, u, r)
  PROVE  E!Next
<1>1. /\ s \in Proc /\ pc[s] \notin Windows /\ pc'[s] \notin Windows /\ UNCHANGED member
      /\ u \in Eligible /\ requests[r] = Null
  BY SlotIsNotWorker DEF HandleCreate, Goto, Windows, Ending, EInv, IInv, TypeOK
<1>2. now + RequestTTL \in Nat
  BY ConfigAssumption DEF ConfigAssumption, EInv, IInv, TypeOK
<1>3. PICK y \in Row : y = NewRow(r, u, now + RequestTTL)
  BY <1>2 DEF NewRow, Row, Status
<1>4. y.id = r /\ y.user = u /\ y.status = "pending" /\ y.approvedBy = Null /\ y # Null
  BY <1>3, NullAssumption DEF NewRow, NullAssumption
<1>5. requests' = [requests EXCEPT ![y.id] = y]
  BY <1>3 DEF HandleCreate, Create
<1>6. Elsewhere(r)
  BY <1>1, <1>4, <1>5, SeenSame, RowWritten DEF Elsewhere
<1>7. GrantOf(r) = Null
  BY <1>1, SeenAsIs DEF AllSeen, Seen
<1>8. Opening(r)' = {}
  <2>1. ASSUME NEW q \in Slot, pc'[q] = "approve_store", row'[q].id = r
        PROVE  FALSE
    <3>1. q \in Proc /\ pc[q] = "approve_store" /\ row[q].id = r
      BY <1>1, <2>1, SlotIsNotWorker DEF Windows, OthersStay, Stays
    <3>2. QED
      BY <1>1, <3>1, WindowRows DEF Windows, HasStatus
  <2>2. QED
    BY <2>1 DEF Opening
<1>9. GrantOf(r)' = Grant(u, Null, "asked")
  <2>1. requests'[r] = y
    BY <1>4, <1>5, RowWritten
  <2>2. QED
    BY <1>4, <1>8, <2>1, SeenNext DEF AllSeen, Seen, GrantAs, HasStatus
<1>10. QED
  BY <1>1, <1>6, <1>7, <1>9, AskStep

-----------------------------------------------------------------------------
(* Every step is one of the promise.  Faults that leave the promise intact:  *)
(* a refused call has no effect, all else works.                            *)
Reliable == /\ KcFaults \subseteq {"refused"} /\ DbFaults = FALSE
            /\ MaxStops = 0 /\ Removals = {}

PromiseKept == E!Next \/ NothingSeen

LEMMA HandlerPromise ==
  ASSUME Reliable, EInv, EInv', NEW s \in Slot, HandlerStep(s)
  PROVE  PromiseKept
<1>1. /\ s \in Proc /\ s # Worker /\ OthersStay(s) /\ pc \in [Proc -> Phase]
      /\ row \in [Proc -> Row \cup {Null}] /\ DbFaults = FALSE
  BY HandlerAlone, SlotIsNotWorker DEF EInv, IInv, TypeOK, Reliable
<1>2. ASSUME NEW ph, Finish(s) \/ (Goto(s, ph) /\ ph \notin Windows),
             pc[s] \notin Windows, UNCHANGED <<requests, member>>
      PROVE  PromiseKept
  <2>1. pc'[s] \notin Windows
    BY <1>1, <1>2 DEF Finish, Goto, Resume, Windows, Ending
  <2>2. QED
    BY <1>1, <1>2, <2>1, AsideSeen DEF PromiseKept
<1>3. CASE ReleaseStore(s)
  <2>1. EndStore(s, "release_audit") /\ pc[s] \in Ending
    BY <1>3 DEF ReleaseStore, Ending
  <2>2. pc'[s] \notin Windows
    BY <1>1, <2>1 DEF EndStore, Goto, Windows, Ending
  <2>3. QED
    BY <1>1, <2>1, <2>2, EndSeen DEF PromiseKept
<1>4. CASE ApproveStore(s)
  BY <1>1, <1>4, StoreSeen DEF PromiseKept
<1>5. CASE ExpireStore(s)
  <2>1. /\ pc[s] = "expire_store" /\ pc[s] \in WritePhase /\ pc[s] \notin NoRow
        /\ pc[s] \notin Windows
        /\ pc'[s] \notin Windows /\ UNCHANGED member /\ Update(row[s])
    BY <1>1, <1>5 DEF ExpireStore, Goto, WritePhase, NoRow, Windows, Ending
  <2>2. PICK y \in Row : y = row[s] /\ Fits(y) /\ WorksOn(s, y.id)
    BY <1>1, <2>1, HeldRow, Worked DEF EInv
  <2>3. StillPending(y) /\ y.status = "expired"
    BY <1>1, <2>1, <2>2
       DEF EInv, RowSync, CopySync, Ahead, IInv, CopiesFit, CopyFits, PhaseStatus
  <2>4. requests' = [requests EXCEPT ![y.id] = y]
    BY <2>1, <2>2, UpdatedIsCopy DEF Update, Fits
  <2>5. QED
    BY <1>1, <2>1, <2>2, <2>3, <2>4, LapseSeen DEF PromiseKept
<1>6. CASE ApproveAdd(s)
  <2>1. CASE KeycloakError(member \cup {row[s].user}) /\ Finish(s)
    <3>1. UNCHANGED <<requests, member>> /\ pc[s] \notin Windows
      BY <1>6, <2>1 DEF ApproveAdd, KeycloakError, Reliable, storeVars, Windows, Ending
    <3>2. QED
      BY <1>2, <2>1, <3>1
  <2>2. QED
    BY <1>1, <1>6, <2>1, OpenSeen DEF ApproveAdd, PromiseKept
<1>7. CASE ReleaseRemove(s)
  <2>1. pc[s] = "release_remove" /\ pc[s] \in WritePhase /\ pc[s] \notin Windows
        /\ UNCHANGED requests
    BY <1>7 DEF ReleaseRemove, WritePhase, Windows, Ending, storeVars
  <2>2. CASE KeycloakError(member \ {row[s].user}) /\ Finish(s)
    <3>1. UNCHANGED member
      BY <2>2 DEF KeycloakError, Reliable
    <3>2. QED
      BY <1>2, <2>1, <2>2, <3>1
  <2>3. CASE KeycloakOk(member \ {row[s].user}) /\ Goto(s, "release_store") /\ UNCHANGED row
    <3>1. PICK x \in Row : x = row[s] /\ WorksOn(s, x.id)
      BY <1>1, <2>1, Worked DEF EInv
    <3>2. requests[x.id] = x /\ x.status = "approved"
      BY <1>1, <2>1, <3>1
         DEF EInv, RowSync, CopySync, Equal, Stored, IInv, CopiesFit, CopyFits, PhaseStatus
    <3>3. row'[s] = x /\ pc'[s] \in Ending /\ member' = member \ {x.user}
      BY <1>1, <2>3, <3>1 DEF Goto, Ending, KeycloakOk
    <3>4. QED
      BY <1>1, <2>1, <3>1, <3>2, <3>3, CloseSeen DEF PromiseKept
  <2>4. QED
    BY <1>7, <2>2, <2>3 DEF ReleaseRemove
<1>8. CASE ApproveDecide(s)
  BY <1>2, <1>8 DEF ApproveDecide, storeVars, Windows, Ending
<1>9. CASE \/ CreateAudit(s) \/ ApproveAudit(s) \/ ApproveAuditGrant(s) \/ ReleaseAudit(s)
           \/ ExpireAudit(s)
  <2>1. UNCHANGED <<requests, member>> /\ pc[s] \notin Windows
    BY <1>9
       DEF CreateAudit, ApproveAudit, ApproveAuditGrant, ReleaseAudit, ExpireAudit, Windows, Ending
  <2>2. pc'[s] \notin Windows
    BY <1>1, <1>9
       DEF CreateAudit, ApproveAudit, ApproveAuditGrant, ReleaseAudit, ExpireAudit, Goto, Windows,
           Ending
  <2>3. QED
    BY <1>1, <2>1, <2>2, AsideSeen DEF PromiseKept
<1>10. CASE \/ CreateNotify(s) \/ ApproveNotify(s) \/ ReleaseNotify(s) \/ ExpireNotify(s)
            \/ Post(s)
  BY <1>2, <1>10
     DEF CreateNotify, ApproveNotify, ReleaseNotify, ExpireNotify, Notify, Post, storeVars,
         Windows, Ending
<1>11. QED
  BY <1>3, <1>4, <1>5, <1>6, <1>7, <1>8, <1>9, <1>10 DEF HandlerStep

LEMMA WorkerPromise ==
  ASSUME Reliable, EInv, EInv', ReconcileStep
  PROVE  PromiseKept
<1>1. /\ Worker \in Proc /\ OthersStay(Worker) /\ pc \in [Proc -> Phase]
      /\ row \in [Proc -> Row \cup {Null}] /\ DbFaults = FALSE
  BY WorkerAlone DEF Proc, EInv, IInv, TypeOK, Reliable
<1>2. ASSUME NEW ph, Finish(Worker) \/ UNCHANGED pc \/ (Goto(Worker, ph) /\ ph \notin Windows),
             pc[Worker] \notin Windows, UNCHANGED <<requests, member>>
      PROVE  PromiseKept
  <2>1. pc'[Worker] \notin Windows
    BY <1>1, <1>2 DEF Finish, Goto, Resume, Windows, Ending
  <2>2. QED
    BY <1>1, <1>2, <2>1, AsideSeen DEF PromiseKept
<1>3. CASE RevokeStore
  <2>1. EndStore(Worker, "revoke_audit") /\ pc[Worker] \in Ending
    BY <1>3 DEF RevokeStore, Ending
  <2>2. pc'[Worker] \notin Windows
    BY <1>1, <2>1 DEF EndStore, Goto, Windows, Ending
  <2>3. QED
    BY <1>1, <2>1, <2>2, EndSeen DEF PromiseKept
<1>4. ASSUME NEW x \in todo, ExpireRow(x) \/ RevokeRow(x)
      PROVE  x \in Row /\ requests[x.id] = x /\ WorksOn(Worker, x.id)
  BY <1>1, <1>4 DEF EInv, IInv, TypeOK, RowSync, TodoSync, Stored, WorksOn
<1>5. ASSUME NEW x \in todo, ExpireRow(x)
      PROVE  PromiseKept
  <2>1. PICK y : y = [x EXCEPT !.status = "expired"]
    OBVIOUS
  <2>2. y \in Row /\ Fits(y) /\ y.status = "expired" /\ y.id = x.id /\ x.status = "pending"
    BY <1>5, <2>1, ExpiredFits DEF ExpireRow, EInv, IInv, CopiesFit, TodoFits, TodoStatus
  <2>3. /\ Update(y) /\ UNCHANGED member /\ pc[Worker] \notin Windows
        /\ pc'[Worker] \notin Windows
    BY <1>1, <1>5, <2>1 DEF ExpireRow, Goto, Windows, Ending
  <2>4. requests' = [requests EXCEPT ![y.id] = y]
    BY <2>2, <2>3, UpdatedIsCopy DEF Update, Fits
  <2>5. StillPending(y) /\ WorksOn(Worker, y.id)
    BY <1>4, <1>5, <2>2 DEF StillPending
  <2>6. QED
    BY <1>1, <2>2, <2>3, <2>4, <2>5, LapseSeen DEF PromiseKept
<1>6. ASSUME NEW x \in todo, RevokeRow(x)
      PROVE  PromiseKept
  <2>1. pc[Worker] = "revoke" /\ pc[Worker] \notin Windows /\ UNCHANGED requests
    BY <1>6 DEF RevokeRow, storeVars, Windows, Ending
  <2>2. CASE KeycloakError(member \ {x.user}) /\ UNCHANGED <<pc, row>>
    <3>1. UNCHANGED member
      BY <2>2 DEF KeycloakError, Reliable
    <3>2. QED
      BY <1>2, <2>1, <2>2, <3>1
  <2>3. CASE /\ KeycloakOk(member \ {x.user}) /\ Goto(Worker, "revoke_store")
             /\ row' = [row EXCEPT ![Worker] = x]
    <3>1. x.status = "approved"
      BY <1>1, <2>1 DEF EInv, IInv, CopiesFit, CopyFits, TodoFits, TodoStatus, NoRow
    <3>2. row'[Worker] = x /\ pc'[Worker] \in Ending /\ member' = member \ {x.user}
      BY <1>1, <2>3 DEF Goto, Ending, KeycloakOk
    <3>3. QED
      BY <1>1, <1>4, <1>6, <2>1, <3>1, <3>2, CloseSeen DEF PromiseKept
  <2>4. QED
    BY <1>6, <2>2, <2>3 DEF RevokeRow
<1>7. CASE \/ Reconcile \/ ReconcileActive \/ ReconcileReturn \/ ExpireAudit(Worker)
           \/ RevokeAudit
  <2>1. UNCHANGED <<requests, member>> /\ pc[Worker] \notin Windows
    BY <1>7
       DEF Reconcile, ReconcileActive, ReconcileReturn, ExpireAudit, RevokeAudit, storeVars,
           Windows, Ending
  <2>2. pc'[Worker] \notin Windows
    BY <1>1, <1>7
       DEF Reconcile, ReconcileActive, ReconcileReturn, ExpireAudit, RevokeAudit, Goto, Windows,
           Ending
  <2>3. QED
    BY <1>1, <2>1, <2>2, AsideSeen DEF PromiseKept
<1>8. CASE ExpireNotify(Worker) \/ RevokeNotify \/ Post(Worker)
  BY <1>2, <1>8
     DEF ExpireNotify, RevokeNotify, Notify, Post, storeVars, Windows, Ending
<1>9. QED
  BY <1>3, <1>5, <1>6, <1>7, <1>8 DEF ReconcileStep

LEMMA Promise ==
  ASSUME Reliable, EInv, EInv', [Next]_vars
  PROVE  PromiseKept
<1>1. ASSUME NEW s \in Slot, NEW r \in Req, NEW a \in User \cup {Null}, NEW u \in User,
             HandleCreate(s, a, u, r)
      PROVE  PromiseKept
  BY <1>1, AskSeen, CallAlone DEF PromiseKept, EInv
<1>2. ASSUME NEW s \in Slot, NEW r \in Req,
             \/ \E a \in User : HandleApprove(s, a, r)
             \/ \E a \in User \cup {Null} : HandleRelease(s, a, r)
      PROVE  PromiseKept
  <2>1. s \in Proc /\ OthersStay(s)
    BY <1>2, CallAlone, SlotIsNotWorker DEF EInv
  <2>2. /\ UNCHANGED <<requests, member>> /\ pc[s] \notin Windows /\ pc'[s] \notin Windows
    BY <1>2, <2>1
       DEF HandleApprove, HandleRelease, Goto, storeVars, Windows, Ending, EInv, IInv, TypeOK
  <2>3. QED
    BY <2>1, <2>2, AsideSeen DEF PromiseKept
<1>3. CASE UNCHANGED <<requests, pc, row, actor, member>>
  <2>1. \A r \in Req : GrantOf(r)' = GrantOf(r)
    BY <1>3 DEF GrantOf, Approver, GrantState, At
  <2>2. QED
    BY <1>3, <2>1 DEF PromiseKept, NothingSeen
<1>4. ~Stop /\ \A u \in Removals : ~RealmRemove(u)
  BY DEF Stop, Reliable, EInv, IInv, TypeOK
<1>5. QED
  BY <1>1, <1>2, <1>3, <1>4, HandlerPromise, WorkerPromise
     DEF Next, HandleMe, Start, Tick, vars, storeVars, procVars

(* The service implements the promise (handleCreate, handleApprove,          *)
(* handleRelease and the reconciler against Elevation): with one writer per  *)
(* request, where Keycloak's answers are true, writes succeed, the process   *)
(* lives and nobody else removes members, every step is one of the promise   *)
(* or changes nothing of it.  The group changes with an approval by a        *)
(* permanent administrator and with the end of such a grant, and at no other *)
(* time.                                                                    *)
THEOREM ElevationImplemented ==
  KcFaults \subseteq {"refused"} /\ DbFaults = FALSE /\ MaxStops = 0 /\ Removals = {}
    => (Spec /\ []OneWriter => ElevationSpec)
<1> SUFFICES ASSUME Reliable
             PROVE  Spec /\ []OneWriter => ElevationSpec
  BY DEF Reliable
<1>1. Init => E!Init
  BY DEF Init, E!Init, GrantOf
<1>2. EInv /\ EInv' /\ [Next]_vars => [E!Next]_E!vars
  BY Promise, StutterStep DEF PromiseKept
<1>3. Init => OwnApproval
  BY DEF Init, OwnApproval
<1>4. IInv /\ OwnApproval /\ [Next]_vars => OwnApproval'
  BY OwnStep
<1>5. IInv /\ RowSync /\ OneWriter /\ OwnApproval => EInv
  BY DEF EInv
<1>6. QED
  BY <1>1, <1>2, <1>3, <1>4, <1>5, Invariance, RowsInSync, PTL
     DEF Spec, ElevationSpec, E!Spec

-----------------------------------------------------------------------------
(* One operation per user at a time.  Where Isolated restricts what may      *)
(* overlap, the users that goroutines hold stay apart.                      *)
Apart == \A p, q \in Proc : p # q => Held(p) \cap Held(q) = {}

LEMMA HeldUsers ==
  ASSUME NEW p
  PROVE  \A u : u \in Held(p) <=> \/ row[p] # Null /\ row[p].user = u
                                  \/ p = Worker /\ \E x \in todo : x.user = u
BY DEF Held

LEMMA HeldUsersNext ==
  ASSUME NEW p \in Proc
  PROVE  \A u : u \in Held(p)' <=> \/ row'[p] # Null /\ row'[p].user = u
                                   \/ p = Worker /\ \E x \in todo' : x.user = u
BY DEF Held

(* A goroutine takes up nobody another one holds. *)
HeldStep(p) == \A u : u \in Held(p)' =>
                 u \in Held(p) \/ \A q \in Proc \ {p} : u \notin Held(q)

LEMMA ApartStep ==
  ASSUME Apart, NEW p \in Proc, OthersStay(p), p # Worker => todo' = todo, HeldStep(p)
  PROVE  Apart'
<1>1. ASSUME NEW q \in Proc \ {p}, NEW u, u \in Held(q)'
      PROVE  u \in Held(q)
  BY <1>1, HeldUsers, HeldUsersNext DEF OthersStay, Stays
<1>2. ASSUME NEW q \in Proc \ {p}, NEW u, u \in Held(q)', u \in Held(p)'
      PROVE  FALSE
  BY <1>1, <1>2 DEF HeldStep, Apart
<1>3. ASSUME NEW q \in Proc \ {p}, NEW w \in Proc \ {p}, q # w,
             NEW u, u \in Held(q)', u \in Held(w)'
      PROVE  FALSE
  BY <1>1, <1>3 DEF Apart
<1>4. QED
  BY <1>2, <1>3 DEF Apart

(* A row in hand is one whose user is held. *)
LEMMA HoldsItsUser ==
  ASSUME IInv, NEW p \in Proc, pc[p] \notin NoRow
  PROVE  row[p].user \in Held(p) /\ SameRequest(row[p]) /\ row[p] \in Row
BY HeldRow, HeldUsers DEF Fits

(* Nothing taken up: the same row, a row of the same user, or none. *)
LEMMA SameUser ==
  ASSUME NEW p \in Proc, todo' \subseteq todo,
         row'[p] = Null \/ (row'[p].user \in Held(p))
  PROVE  HeldStep(p)
BY HeldUsers, HeldUsersNext DEF HeldStep

(* A handler goes on for the user it works for. *)
LEMMA HandlerApart ==
  ASSUME IInv, Apart, NEW s \in Slot, HandlerStep(s)
  PROVE  Apart'
<1>1. s \in Proc /\ s # Worker /\ OthersStay(s) /\ row \in [Proc -> Row \cup {Null}]
      /\ UNCHANGED todo
  BY HandlerAlone, HandlerWrites, SlotIsNotWorker DEF IInv, TypeOK, sweepVars
<1>2. CASE row'[s] = Null
  BY <1>1, <1>2, SameUser, ApartStep
<1>3. CASE pc[s] \notin NoRow /\ row'[s].user = row[s].user
  BY <1>1, <1>3, HoldsItsUser, SameUser, ApartStep
<1>4. CASE UNCHANGED row
  <2>1. row[s] # Null => row[s].user \in Held(s)
    BY HeldUsers
  <2>2. QED
    BY <1>1, <1>4, <2>1, SameUser, ApartStep
<1>5. CASE ApproveDecide(s)
  <2>1. pc[s] \notin NoRow
    BY <1>5 DEF ApproveDecide, NoRow
  <2>2. PICK x \in Row : x = row[s]
    BY <1>1, <2>1, HoldsItsUser
  <2>3. row'[s] = [x EXCEPT !.status = "expired"] \/ row'[s] = Approved(x, actor[s])
    BY <1>1, <1>5, <2>2 DEF ApproveDecide
  <2>4. row'[s].user = row[s].user
    BY <2>2, <2>3 DEF Approved, Row
  <2>5. QED
    BY <1>3, <2>1, <2>4
<1>6. CASE ReleaseStore(s)
  <2>1. pc[s] \notin NoRow
    BY <1>6 DEF ReleaseStore, NoRow
  <2>2. row[s] \in Row
    BY <1>1, <2>1, HoldsItsUser
  <2>3. CASE row' = [row EXCEPT ![s] = Released(row[s])]
    BY <1>1, <1>3, <2>1, <2>2, <2>3 DEF Released, Row
  <2>4. QED
    BY <1>1, <1>2, <1>6, <2>3 DEF ReleaseStore, EndStore, Finish
<1>7. CASE Finish(s)
  BY <1>1, <1>2, <1>7 DEF Finish
<1>8. CASE \/ CreateNotify(s) \/ ApproveNotify(s) \/ ReleaseNotify(s) \/ ExpireNotify(s)
           \/ Post(s)
  BY <1>4, <1>7, <1>8
     DEF CreateNotify, ApproveNotify, ReleaseNotify, ExpireNotify, Notify, Post
<1>9. CASE \/ CreateAudit(s) \/ ExpireAudit(s) \/ ApproveAudit(s) \/ ApproveAuditGrant(s)
           \/ ReleaseAudit(s)
  BY <1>4, <1>9 DEF CreateAudit, ExpireAudit, ApproveAudit, ApproveAuditGrant, ReleaseAudit
<1>10. CASE ExpireStore(s) \/ ApproveStore(s) \/ ApproveAdd(s) \/ ReleaseRemove(s)
  BY <1>4, <1>7, <1>10 DEF ExpireStore, ApproveStore, ApproveAdd, ReleaseRemove
<1>11. QED
  BY <1>5, <1>6, <1>8, <1>9, <1>10 DEF HandlerStep

(* The reconciler takes up what its query returned, and those users nobody  *)
(* else holds.                                                             *)
LEMMA WorkerApart ==
  ASSUME Isolated, IInv, Apart, ReconcileStep
  PROVE  Apart'
<1>1. Worker \in Proc /\ OthersStay(Worker) /\ row \in [Proc -> Row \cup {Null}]
  BY WorkerAlone DEF Proc, IInv, TypeOK
<1>2. CASE Reconcile \/ ReconcileActive
  <2>1. pc[Worker] \in NoRow /\ UNCHANGED row /\ Alone(Worker, {x.user : x \in todo'})
    BY <1>2 DEF Reconcile, ReconcileActive, NoRow
  <2>2. row'[Worker] = Null
    BY <1>1, <2>1 DEF IInv, CopiesFit, CopyFits
  <2>3. HeldStep(Worker)
    BY <1>1, <2>1, <2>2, HeldUsersNext DEF HeldStep, Alone
  <2>4. QED
    BY <1>1, <2>3, ApartStep
<1>3. CASE todo' \subseteq todo /\ UNCHANGED row
  <2>1. row[Worker] # Null => row[Worker].user \in Held(Worker)
    BY HeldUsers
  <2>2. QED
    BY <1>1, <1>3, <2>1, SameUser, ApartStep
<1>4. CASE todo' \subseteq todo /\ Finish(Worker)
  BY <1>1, <1>4, SameUser, ApartStep DEF Finish
<1>5. ASSUME NEW x \in todo, ExpireRow(x) \/ RevokeRow(x)
      PROVE  Apart'
  <2>1. x \in Row /\ x.user \in Held(Worker) /\ todo' \subseteq todo
    BY <1>5, HeldUsers DEF IInv, TypeOK, ExpireRow, RevokeRow
  <2>2. CASE row'[Worker].user = x.user
    BY <1>1, <2>1, <2>2, SameUser, ApartStep
  <2>3. \/ row' = [row EXCEPT ![Worker] = x]
        \/ row' = [row EXCEPT ![Worker] = [x EXCEPT !.status = "expired"]]
        \/ UNCHANGED row
    BY <1>5 DEF ExpireRow, RevokeRow
  <2>4. [x EXCEPT !.status = "expired"].user = x.user
    BY <2>1 DEF Row
  <2>5. QED
    BY <1>1, <1>3, <2>1, <2>2, <2>3, <2>4
<1>6. CASE RevokeStore
  <2>1. pc[Worker] \notin NoRow /\ UNCHANGED todo
    BY <1>6 DEF RevokeStore, EndStore, NoRow, sweepVars
  <2>2. row[Worker] \in Row /\ row[Worker].user \in Held(Worker)
    BY <1>1, <2>1, HoldsItsUser
  <2>3. CASE row' = [row EXCEPT ![Worker] = Released(row[Worker])]
    <3>1. row'[Worker].user = row[Worker].user
      BY <1>1, <2>2, <2>3 DEF Released, Row
    <3>2. QED
      BY <1>1, <2>1, <2>2, <3>1, SameUser, ApartStep
  <2>4. QED
    BY <1>4, <1>6, <2>1, <2>3 DEF RevokeStore, EndStore
<1>7. CASE ExpireAudit(Worker) \/ RevokeAudit \/ ReconcileReturn
  BY <1>3, <1>7 DEF ExpireAudit, RevokeAudit, ReconcileReturn, sweepVars
<1>8. CASE ExpireNotify(Worker) \/ RevokeNotify \/ Post(Worker)
  BY <1>3, <1>4, <1>8 DEF ExpireNotify, RevokeNotify, Notify, Post, sweepVars
<1>9. QED
  BY <1>2, <1>5, <1>6, <1>7, <1>8 DEF ReconcileStep

LEMMA CallApart ==
  ASSUME Isolated, IInv, Apart, NEW s \in Slot, NEW r \in Req,
         \/ \E a \in User \cup {Null}, u \in User : HandleCreate(s, a, u, r)
         \/ \E a \in User : HandleApprove(s, a, r)
         \/ \E a \in User \cup {Null} : HandleRelease(s, a, r)
  PROVE  Apart'
<1>1. s \in Proc /\ s # Worker /\ OthersStay(s) /\ UNCHANGED todo
      /\ row \in [Proc -> Row \cup {Null}]
  BY CallAlone, CallWrites, SlotIsNotWorker DEF IInv, TypeOK, sweepVars
<1>2. PICK u : Alone(s, {u}) /\ row'[s].user = u
  <2>1. ASSUME NEW a, NEW u, HandleCreate(s, a, u, r)
        PROVE  Alone(s, {u}) /\ row'[s].user = u
    <3>1. PICK y : y = NewRow(r, u, now + RequestTTL)
      OBVIOUS
    <3>2. row'[s] = y /\ y.user = u
      BY <1>1, <2>1, <3>1 DEF HandleCreate, NewRow
    <3>3. QED
      BY <2>1, <3>2 DEF HandleCreate
  <2>2. ASSUME NEW a, HandleApprove(s, a, r) \/ HandleRelease(s, a, r)
        PROVE  Alone(s, {requests[r].user}) /\ row'[s] = requests[r]
    BY <1>1, <2>2 DEF HandleApprove, HandleRelease
  <2>3. QED
    BY <2>1, <2>2
<1>3. HeldStep(s)
  BY <1>1, <1>2, HeldUsersNext DEF HeldStep, Alone
<1>4. QED
  BY <1>1, <1>3, ApartStep

LEMMA ApartInductive ==
  ASSUME Isolated
  PROVE  IInv /\ Apart /\ [Next]_vars => Apart'
<1> SUFFICES ASSUME IInv, Apart, [Next]_vars
             PROVE  Apart'
  OBVIOUS
<1>1. CASE Stop
  BY <1>1 DEF Stop, Apart, Held
<1>2. CASE UNCHANGED <<row, todo>>
  BY <1>2 DEF Apart, Held
<1>3. QED
  BY <1>1, <1>2, CallApart, HandlerApart, WorkerApart
     DEF Next, HandleMe, Start, Tick, RealmRemove, vars, procVars, sweepVars

(* Who works on a request holds its user. *)
LEMMA ApartWriters == IInv /\ Apart => OneWriter
<1> SUFFICES ASSUME IInv, Apart, NEW r \in Req, NEW p \in Proc, NEW q \in Proc,
                    WorksOn(p, r), WorksOn(q, r)
             PROVE  p = q
  BY DEF OneWriter
<1>1. ASSUME NEW w \in Proc, WorksOn(w, r)
      PROVE  requests[r].user \in Held(w)
  <2>1. CASE pc[w] \in WritePhase /\ row[w].id = r
    <3>1. pc[w] \notin NoRow
      BY <2>1 DEF WritePhase, NoRow
    <3>2. QED
      BY <2>1, <3>1, HoldsItsUser DEF SameRequest
  <2>2. ASSUME NEW x \in todo, x.id = r, w = Worker
        PROVE  requests[r].user \in Held(w)
    BY <2>2, HeldUsers DEF IInv, CopiesFit, TodoFits, Fits, SameRequest
  <2>3. QED
    BY <1>1, <2>1, <2>2 DEF WorksOn
<1>2. QED
  BY <1>1 DEF Apart

(* One operation per user at a time is one writer per request (what a lock   *)
(* per user around handleCreate, handleApprove, handleRelease and the        *)
(* reconciler's passes would give): all of the above holds there.           *)
THEOREM OneAtATime == Isolated => (Spec => []OneWriter)
<1> SUFFICES ASSUME Isolated
             PROVE  Spec => []OneWriter
  OBVIOUS
<1>1. Init => Apart
  BY DEF Init, Apart, Held
<1>2. IInv /\ Apart /\ [Next]_vars => Apart'
  BY ApartInductive
<1>3. IInv /\ Apart => OneWriter
  BY ApartWriters
<1>4. QED
  BY <1>1, <1>2, <1>3, Invariance, PTL DEF Spec
=============================================================================
