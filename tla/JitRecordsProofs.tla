--------------------------- MODULE JitRecordsProofs ---------------------------
(***************************************************************************)
(* What the service puts on record beside the table, messages and ledger.  *)
(*                                                                         *)
(* Messages: every step of JitAccess is a step of Notifier or leaves its    *)
(* variables alone, so what is proved of Notifier holds of the service.     *)
(*                                                                         *)
(* Ledger: an event or a message is written from a goroutine's copy, which *)
(* may be stale, and not from the table.  It is never ahead of the table    *)
(* because a request that has left pending never comes back, whatever      *)
(* copy is stored over it, and because every place that announces more     *)
(* than a creation is reached after such a copy was stored: all but the one *)
(* past ExpireStore, whose failure the code ignores.                       *)
(*                                                                         *)
(* Nor does it skip a step: a handler works on what another one wrote, but *)
(* whoever wrote it stands at the call that records it until it has.        *)
(***************************************************************************)
EXTENDS JitAccessProofs

NP == INSTANCE NotifierProofs

(* The moves of Notifier that the service makes. *)
NoteStep == N!Next \/ UNCHANGED noteVars

LEMMA NotifyIsMark ==
  ASSUME IInv, NEW p \in Proc, NEW kind \in Kind, pc[p] \notin NoRow, Notify(p, kind)
  PROVE  NoteStep
<1>1. <<row[p].id, kind>> \in Note
  BY HeldRow DEF Note, Row
<1>2. QED
  BY <1>1 DEF Notify, NoteStep, N!Next

LEMMA HandlerNotes ==
  ASSUME IInv, NEW s \in Slot, HandlerStep(s)
  PROVE  NoteStep
<1>1. s \in Proc
  BY DEF Proc
<1>2. CASE CreateNotify(s) \/ ApproveNotify(s) \/ ReleaseNotify(s) \/ ExpireNotify(s)
  BY <1>1, <1>2, NotifyIsMark
     DEF CreateNotify, ApproveNotify, ReleaseNotify, ExpireNotify, NoRow, Kind
<1>3. CASE Post(s)
  BY <1>1, <1>3 DEF Post, NoteStep, N!Next
<1>4. CASE \/ CreateAudit(s) \/ ApproveDecide(s) \/ ExpireStore(s) \/ ExpireAudit(s)
           \/ ApproveAdd(s) \/ ApproveStore(s) \/ ApproveAudit(s) \/ ApproveAuditGrant(s)
           \/ ReleaseRemove(s) \/ ReleaseStore(s) \/ ReleaseAudit(s)
  BY <1>4 DEF CreateAudit, ApproveDecide, ExpireStore, ExpireAudit, ApproveAdd,
              ApproveStore, ApproveAudit, ApproveAuditGrant, ReleaseRemove,
              ReleaseStore, EndStore, ReleaseAudit, NoteStep
<1>5. QED
  BY <1>2, <1>3, <1>4 DEF HandlerStep

LEMMA WorkerNotes ==
  ASSUME IInv, ReconcileStep
  PROVE  NoteStep
<1>1. Worker \in Proc
  BY DEF Proc
<1>2. CASE ExpireNotify(Worker) \/ RevokeNotify
  BY <1>1, <1>2, NotifyIsMark DEF ExpireNotify, RevokeNotify, NoRow, Kind
<1>3. CASE Post(Worker)
  BY <1>1, <1>3 DEF Post, NoteStep, N!Next
<1>4. CASE \/ Reconcile \/ ExpireAudit(Worker) \/ ReconcileActive \/ RevokeStore
           \/ RevokeAudit \/ ReconcileReturn
           \/ \E x \in todo : ExpireRow(x) \/ RevokeRow(x)
  BY <1>4 DEF Reconcile, ExpireRow, ExpireAudit, ReconcileActive, RevokeRow,
              RevokeStore, EndStore, RevokeAudit, ReconcileReturn, storeVars, NoteStep
<1>5. QED
  BY <1>2, <1>3, <1>4 DEF ReconcileStep

(* Every step of the service is a step of the notifier or none. *)
LEMMA StepNotes ==
  ASSUME IInv, [Next]_vars
  PROVE  NoteStep
<1>1. CASE \E s \in Slot : HandlerStep(s)
  BY <1>1, HandlerNotes
<1>2. CASE ReconcileStep
  BY <1>2, WorkerNotes
<1>3. CASE Stop
  BY <1>3 DEF Stop, NoteStep, N!Next
<1>4. ASSUME NEW s \in Slot, NEW r \in Req, NEW a \in User \cup {Null}
      PROVE  /\ \A u \in User : HandleCreate(s, a, u, r) => NoteStep
             /\ HandleApprove(s, a, r) => NoteStep
             /\ HandleRelease(s, a, r) => NoteStep
  BY DEF HandleCreate, HandleApprove, HandleRelease, NoteStep
<1>5. CASE (\E a \in User : HandleMe(a)) \/ Start \/ Tick \/ UNCHANGED vars
  BY <1>5 DEF HandleMe, Start, Tick, vars, NoteStep
<1>6. CASE \E u \in Removals : RealmRemove(u)
  BY <1>6 DEF RealmRemove, NoteStep
<1>7. QED
  BY <1>1, <1>2, <1>3, <1>4, <1>5, <1>6 DEF Next

(* Whoever announces it, a kind of a request is posted once at most: every   *)
(* notify call of the service, its handlers' and its worker's, goes through *)
(* the mark, and no step of theirs takes a mark back.                       *)
THEOREM ServicePostsOnce == Spec => []AtMostOnce
<1>1. Init => N!Init
  BY DEF Init
<1>2. IInv /\ [Next]_vars => [N!Next]_N!vars
  BY StepNotes DEF NoteStep, noteVars, N!vars
<1>3. Spec => N!Spec
  BY <1>1, <1>2, Invariance, PTL DEF Spec, N!Spec
<1>4. Null \notin Note
  BY ConfigAssumption
<1>5. N!Spec => []N!AtMostOnce
  BY <1>4, NP!PostedAtMostOnce DEF N!Spec, NP!Spec, N!Init, NP!Init, N!AtMostOnce, NP!AtMostOnce,
     N!Next, NP!Next, N!vars, NP!vars, N!Mark, NP!Mark, N!Post, NP!Post, N!Crash, NP!Crash,
     N!FirstTime, NP!FirstTime
<1>6. QED
  BY <1>3, <1>5, PTL DEF AtMostOnce

-----------------------------------------------------------------------------
(* Never ahead of the table.                                               *)

Left(r) == requests[r] # Null /\ requests[r].status # "pending"

LeftNow(r) == requests'[r] # Null /\ requests'[r].status # "pending"

(* Where a goroutine works on a request that has left pending. *)
AfterPending == {"approve_audit", "approve_audit_grant", "approve_notify",
                 "release_remove", "release_store", "release_audit", "release_notify",
                 "revoke_store", "revoke_audit", "revoke_notify"}
                  \cup IF DbFaults THEN {} ELSE {"expire_audit", "expire_notify"}

CopiesLeft == \A p \in Proc : pc[p] \in AfterPending => Left(row[p].id)

TodoLeft == \A x \in todo : x.status = "approved" => Left(x.id)

LInv == CopiesLeft /\ TodoLeft /\ AuditNeverAhead /\ NoticeNeverAhead

Forward == \A r \in Req :
             /\ requests[r] # Null => requests'[r] # Null
             /\ Left(r) => LeftNow(r)

(* A stored copy that is no longer pending takes its request along. *)
LEMMA WriteLeft ==
  ASSUME IInv, NEW y \in Row, Fits(y), y.status # "pending", Update(y)
  PROVE  Forward /\ LeftNow(y.id)
<1>1. requests' = [requests EXCEPT ![y.id] = y] /\ y.id \in Req /\ y # Null
  BY UpdatedIsCopy, NullAssumption DEF Update, Fits, Row, NullAssumption
<1>2. requests \in [Req -> Row \cup {Null}]
  BY DEF IInv, TypeOK
<1>3. QED
  BY <1>1, <1>2 DEF Forward, Left, LeftNow

(* What the writes of the service have in common. *)
LEMMA WriterLeft ==
  ASSUME IInv, NEW p \in Proc, pc[p] \in {"expire_store", "approve_store"}, Update(row[p])
  PROVE  Forward /\ LeftNow(row[p].id)
<1>1. pc[p] \notin NoRow /\ pc[p] \in DOMAIN PhaseStatus /\ PhaseStatus[pc[p]] # "pending"
  BY DEF NoRow, PhaseStatus
<1>2. row[p] \in Row /\ Fits(row[p]) /\ row[p].status # "pending"
  BY <1>1, HeldRow DEF IInv, CopiesFit, CopyFits
<1>3. QED
  BY <1>2, WriteLeft

LEMMA EnderLeft ==
  ASSUME IInv, NEW p \in Proc, pc[p] \in {"release_store", "revoke_store"},
         Update(Released(row[p]))
  PROVE  Forward /\ LeftNow(row[p].id)
<1>1. pc[p] \notin NoRow /\ pc[p] \in DOMAIN PhaseStatus /\ PhaseStatus[pc[p]] = "approved"
  BY DEF NoRow, PhaseStatus
<1>2. row[p] \in Row /\ Fits(row[p]) /\ row[p].status = "approved"
  BY <1>1, HeldRow DEF IInv, CopiesFit, CopyFits
<1>3. PICK y \in Row : y = Released(row[p]) /\ Fits(y) /\ y.status = "released"
  BY <1>2, ReleasedFits
<1>4. y.id = row[p].id
  BY <1>2, <1>3 DEF Released, Row
<1>5. QED
  BY <1>3, <1>4, WriteLeft

(* No step takes a request back to pending. *)
LEMMA SameTableForward == UNCHANGED requests => Forward
BY DEF Forward, Left, LeftNow

LEMMA HandlerForward ==
  ASSUME IInv, NEW s \in Slot, HandlerStep(s)
  PROVE  Forward
<1>1. s \in Proc
  BY SlotIsNotWorker
<1>2. CASE ExpireStore(s) \/ ApproveStore(s)
  BY <1>1, <1>2, WriterLeft, SameTableForward DEF ExpireStore, ApproveStore
<1>3. CASE ReleaseStore(s)
  BY <1>1, <1>3, EnderLeft, SameTableForward DEF ReleaseStore, EndStore
<1>4. QED
  BY <1>2, <1>3, HandlerWrites, SameTableForward

LEMMA WorkerForward ==
  ASSUME IInv, ReconcileStep
  PROVE  Forward
<1>1. Worker \in Proc
  BY DEF Proc
<1>2. ASSUME NEW x \in todo, ExpireRow(x)
      PROVE  Forward
  <2>1. PICK y : y = [x EXCEPT !.status = "expired"]
    OBVIOUS
  <2>2. y \in Row /\ Fits(y) /\ y.status = "expired"
    BY <1>2, <2>1, ExpiredFits DEF ExpireRow
  <2>3. QED
    BY <1>2, <2>1, <2>2, WriteLeft, SameTableForward DEF ExpireRow
<1>3. CASE RevokeStore
  BY <1>1, <1>3, EnderLeft, SameTableForward DEF RevokeStore, EndStore
<1>4. QED
  BY <1>2, <1>3, ReconcileWrites, SameTableForward

LEMMA StepForward ==
  ASSUME IInv, [Next]_vars
  PROVE  Forward
<1>1. ASSUME NEW s \in Slot, NEW r \in Req, NEW a \in User \cup {Null}, NEW u \in User,
             HandleCreate(s, a, u, r)
      PROVE  Forward
  <2>1. PICK y : y = NewRow(r, u, now + RequestTTL)
    OBVIOUS
  <2>2. /\ requests' = [requests EXCEPT ![r] = y] /\ requests[r] = Null
        /\ requests \in [Req -> Row \cup {Null}]
    BY <1>1, <2>1 DEF HandleCreate, Create, NewRow, IInv, TypeOK
  <2>3. QED
    BY <2>2 DEF Forward, Left, LeftNow
<1>2. QED
  BY <1>1, TableWriters, HandlerForward, WorkerForward, SameTableForward

-----------------------------------------------------------------------------
(* The copies stay among the requests that have left pending. *)
LEMMA MoverLeft ==
  ASSUME IInv, CopiesLeft, Forward, NEW p \in Proc, NEW ph, Goto(p, ph),
         \A q \in Proc \ {p} : row'[q] = row[q],
         ph \in AfterPending => LeftNow(row'[p].id)
  PROVE  CopiesLeft'
<1>1. pc' = [pc EXCEPT ![p] = ph] /\ pc \in [Proc -> Phase]
  BY DEF Goto, IInv, TypeOK
<1>2. ASSUME NEW q \in Proc, pc'[q] \in AfterPending
      PROVE  LeftNow(row'[q].id)
  <2>1. CASE q = p
    BY <1>1, <1>2, <2>1
  <2>2. CASE q # p
    <3>1. pc[q] \in AfterPending /\ row'[q] = row[q]
      BY <1>1, <1>2, <2>2
    <3>2. row[q].id \in Req
      BY <3>1, HeldRow DEF AfterPending, NoRow, Row
    <3>3. QED
      BY <3>1, <3>2 DEF CopiesLeft, Forward
  <2>3. QED
    BY <2>1, <2>2
<1>3. QED
  BY <1>2 DEF CopiesLeft, Left, LeftNow

(* The same row at the next place. *)
LEMMA GoesOnLeft ==
  ASSUME IInv, CopiesLeft, Forward, NEW p \in Proc, NEW ph, Goto(p, ph), UNCHANGED row,
         ph \in AfterPending => pc[p] \in AfterPending
  PROVE  CopiesLeft'
<1>1. ASSUME pc[p] \in AfterPending
      PROVE  LeftNow(row[p].id)
  <2>1. row[p].id \in Req
    BY <1>1, HeldRow DEF AfterPending, NoRow, Row
  <2>2. QED
    BY <1>1, <2>1 DEF CopiesLeft, Forward
<1>2. QED
  BY <1>1, MoverLeft

LEMMA FinishLeft ==
  ASSUME IInv, CopiesLeft, Forward, NEW p \in Proc, Finish(p)
  PROVE  CopiesLeft'
<1>1. Resume(p) \notin AfterPending
  BY DEF Resume, AfterPending
<1>2. Goto(p, Resume(p)) /\ \A q \in Proc \ {p} : row'[q] = row[q]
  BY DEF Finish, IInv, TypeOK
<1>3. QED
  BY <1>1, <1>2, MoverLeft

LEMMA NotifyLeft ==
  ASSUME IInv, CopiesLeft, Forward, NEW p \in Proc, NEW kind, Notify(p, kind)
  PROVE  CopiesLeft'
<1>1. "post" \notin AfterPending
  BY DEF AfterPending
<1>2. QED
  BY <1>1, FinishLeft, GoesOnLeft DEF Notify

LEMMA HandlerLeft ==
  ASSUME IInv, CopiesLeft, NEW s \in Slot, HandlerStep(s)
  PROVE  CopiesLeft'
<1>1. s \in Proc /\ Forward
  BY SlotIsNotWorker, HandlerForward
<1>2. CASE Finish(s)
  BY <1>1, <1>2, FinishLeft
<1>3. CASE CreateNotify(s) \/ ApproveNotify(s) \/ ReleaseNotify(s) \/ ExpireNotify(s)
  BY <1>1, <1>3, NotifyLeft DEF CreateNotify, ApproveNotify, ReleaseNotify, ExpireNotify
<1>4. ASSUME NEW ph, Goto(s, ph), UNCHANGED row, ph \in AfterPending => pc[s] \in AfterPending
      PROVE  CopiesLeft'
  BY <1>1, <1>4, GoesOnLeft
<1>5. CASE \/ CreateAudit(s) \/ ApproveAudit(s) \/ ApproveAuditGrant(s) \/ ReleaseAudit(s)
           \/ ExpireAudit(s) \/ ReleaseRemove(s) \/ ApproveAdd(s)
  BY <1>2, <1>4, <1>5
     DEF CreateAudit, ApproveAudit, ApproveAuditGrant, ReleaseAudit, ExpireAudit,
         ReleaseRemove, ApproveAdd, AfterPending
<1>6. CASE ApproveDecide(s)
  <2>1. PICK ph \in {"expire_store", "approve_add"} : Goto(s, ph)
    BY <1>6 DEF ApproveDecide
  <2>2. \A q \in Proc \ {s} : row'[q] = row[q]
    BY <1>6 DEF ApproveDecide, IInv, TypeOK
  <2>3. QED
    BY <1>1, <2>1, <2>2, MoverLeft DEF AfterPending
<1>7. CASE ExpireStore(s) \/ ApproveStore(s)
  <2>1. CASE Update(row[s]) /\ UNCHANGED row /\ \E ph : Goto(s, ph)
    <3>1. LeftNow(row[s].id)
      BY <1>1, <1>7, <2>1, WriterLeft DEF ExpireStore, ApproveStore
    <3>2. QED
      BY <1>1, <2>1, <3>1, MoverLeft
  <2>2. CASE DbFaults /\ Goto(s, "expire_audit") /\ UNCHANGED row
    BY <1>4, <2>2 DEF AfterPending
  <2>3. QED
    BY <1>2, <1>7, <2>1, <2>2 DEF ExpireStore, ApproveStore
<1>8. CASE ReleaseStore(s)
  <2> SUFFICES ASSUME ~Finish(s)
               PROVE  CopiesLeft'
    BY <1>2
  <2>1. /\ LeftNow(row[s].id) /\ Goto(s, "release_audit")
        /\ row' = [row EXCEPT ![s] = Released(row[s])]
    BY <1>1, <1>8, EnderLeft DEF ReleaseStore, EndStore
  <2>2. row \in [Proc -> Row \cup {Null}] /\ row[s] \in Row
    BY <1>1, <1>8, HeldRow DEF ReleaseStore, NoRow, IInv, TypeOK
  <2>3. row'[s].id = row[s].id /\ \A q \in Proc \ {s} : row'[q] = row[q]
    BY <1>1, <2>1, <2>2 DEF Released, Row
  <2>4. QED
    BY <1>1, <2>1, <2>3, MoverLeft
<1>9. CASE Post(s)
  BY <1>2, <1>9 DEF Post
<1>10. QED
  BY <1>3, <1>5, <1>6, <1>7, <1>8, <1>9 DEF HandlerStep

LEMMA WorkerLeft ==
  ASSUME IInv, CopiesLeft, TodoLeft, ReconcileStep
  PROVE  CopiesLeft'
<1>1. Worker \in Proc /\ Forward
  BY WorkerForward DEF Proc
<1>2. CASE Finish(Worker)
  BY <1>1, <1>2, FinishLeft
<1>3. CASE ExpireNotify(Worker) \/ RevokeNotify
  BY <1>1, <1>3, NotifyLeft DEF ExpireNotify, RevokeNotify
<1>4. ASSUME NEW ph, Goto(Worker, ph), UNCHANGED row,
             ph \in AfterPending => pc[Worker] \in AfterPending
      PROVE  CopiesLeft'
  BY <1>1, <1>4, GoesOnLeft
<1>5. CASE Reconcile \/ ReconcileActive \/ ReconcileReturn \/ ExpireAudit(Worker) \/ RevokeAudit
  BY <1>4, <1>5
     DEF Reconcile, ReconcileActive, ReconcileReturn, ExpireAudit, RevokeAudit, AfterPending
<1>6. ASSUME NEW x \in todo, ExpireRow(x)
      PROVE  CopiesLeft'
  <2> SUFFICES ASSUME ~UNCHANGED <<requests, pc, row>>
               PROVE  CopiesLeft'
    BY DEF CopiesLeft, Left
  <2>1. PICK y : y = [x EXCEPT !.status = "expired"]
    OBVIOUS
  <2>2. y \in Row /\ Fits(y) /\ y.status = "expired"
    BY <1>6, <2>1, ExpiredFits DEF ExpireRow
  <2>3. Update(y) /\ Goto(Worker, "expire_audit") /\ row' = [row EXCEPT ![Worker] = y]
    BY <1>6, <2>1 DEF ExpireRow
  <2>4. LeftNow(y.id)
    BY <2>2, <2>3, WriteLeft
  <2>5. row'[Worker] = y /\ \A q \in Proc \ {Worker} : row'[q] = row[q]
    BY <1>1, <2>3 DEF IInv, TypeOK
  <2>6. QED
    BY <1>1, <2>3, <2>4, <2>5, MoverLeft
<1>7. ASSUME NEW x \in todo, RevokeRow(x)
      PROVE  CopiesLeft'
  <2>1. CASE Goto(Worker, "revoke_store") /\ row' = [row EXCEPT ![Worker] = x]
    <3>1. pc[Worker] = "revoke" /\ row[Worker] = Null
      BY <1>1, <1>7 DEF RevokeRow, IInv, CopiesFit, CopyFits, NoRow
    <3>2. x \in Row /\ x.status = "approved" /\ x.id \in Req
      BY <3>1 DEF IInv, TypeOK, CopiesFit, TodoFits, TodoStatus, Row
    <3>3. LeftNow(x.id)
      BY <1>1, <3>2 DEF TodoLeft, Forward
    <3>4. row'[Worker] = x /\ \A q \in Proc \ {Worker} : row'[q] = row[q]
      BY <1>1, <2>1 DEF IInv, TypeOK
    <3>5. QED
      BY <1>1, <2>1, <3>3, <3>4, MoverLeft
  <2>2. CASE UNCHANGED <<pc, row, requests>>
    BY <2>2 DEF CopiesLeft, Left
  <2>3. QED
    BY <1>7, <2>1, <2>2 DEF RevokeRow, storeVars
<1>8. CASE RevokeStore
  <2> SUFFICES ASSUME ~Finish(Worker)
               PROVE  CopiesLeft'
    BY <1>2
  <2>1. /\ LeftNow(row[Worker].id) /\ Goto(Worker, "revoke_audit")
        /\ row' = [row EXCEPT ![Worker] = Released(row[Worker])]
    BY <1>1, <1>8, EnderLeft DEF RevokeStore, EndStore
  <2>2. row \in [Proc -> Row \cup {Null}] /\ row[Worker] \in Row
    BY <1>1, <1>8, HeldRow DEF RevokeStore, NoRow, IInv, TypeOK
  <2>3. row'[Worker].id = row[Worker].id /\ \A q \in Proc \ {Worker} : row'[q] = row[q]
    BY <1>1, <2>1, <2>2 DEF Released, Row
  <2>4. QED
    BY <1>1, <2>1, <2>3, MoverLeft
<1>9. CASE Post(Worker)
  BY <1>2, <1>9 DEF Post
<1>10. QED
  BY <1>3, <1>5, <1>6, <1>7, <1>8, <1>9 DEF ReconcileStep

(* A handler that takes up a stored row. *)
LEMMA CallLeft ==
  ASSUME IInv, CopiesLeft, Forward, NEW s \in Slot, NEW r \in Req,
         \/ \E a \in User \cup {Null}, u \in User : HandleCreate(s, a, u, r)
         \/ \E a \in User : HandleApprove(s, a, r)
         \/ \E a \in User \cup {Null} : HandleRelease(s, a, r)
  PROVE  CopiesLeft'
<1>1. s \in Proc /\ row \in [Proc -> Row \cup {Null}]
  BY SlotIsNotWorker DEF IInv, TypeOK
<1>2. \A q \in Proc \ {s} : row'[q] = row[q]
  BY <1>1 DEF HandleCreate, HandleApprove, HandleRelease
<1>3. ASSUME NEW ph, Goto(s, ph), ph \notin AfterPending
      PROVE  CopiesLeft'
  BY <1>1, <1>2, <1>3, MoverLeft
<1>4. ASSUME NEW a \in User \cup {Null}, HandleRelease(s, a, r)
      PROVE  CopiesLeft'
  <2>1. Left(r) /\ Goto(s, "release_remove") /\ row' = [row EXCEPT ![s] = requests[r]]
    BY <1>4 DEF HandleRelease, Releasable, Left
  <2>2. row'[s].id = r
    BY <1>1, <2>1 DEF Left, IInv, Keyed
  <2>3. QED
    BY <1>1, <1>2, <2>1, <2>2, MoverLeft DEF Forward
<1>5. QED
  BY <1>3, <1>4 DEF HandleCreate, HandleApprove, AfterPending

(* The rows of the second query are approved ones. *)
LEMMA TodoStaysLeft ==
  ASSUME IInv, TodoLeft, [Next]_vars
  PROVE  TodoLeft'
<1>1. Forward /\ todo \subseteq Row
  BY StepForward DEF IInv, TypeOK
<1>2. CASE todo' \subseteq todo
  BY <1>1, <1>2 DEF TodoLeft, Forward, Left, LeftNow, Row
<1>3. CASE Reconcile
  BY <1>3 DEF Reconcile, PendingExpired, TodoLeft
<1>4. CASE ReconcileActive
  <2>1. ASSUME NEW x \in todo'
        PROVE  Left(x.id) /\ x.id \in Req
    <3>1. x \in Rows /\ x.status = "approved"
      BY <1>4, <2>1 DEF ReconcileActive, ActiveExpired
    <3>2. PICK r \in Req : x = requests[r] /\ requests[r] # Null
      BY <3>1 DEF Rows
    <3>3. QED
      BY <3>1, <3>2 DEF Left, IInv, Keyed
  <2>2. QED
    BY <1>1, <2>1 DEF TodoLeft, Forward, Left, LeftNow
<1>5. QED
  BY <1>2, <1>3, <1>4, QueryWriters

-----------------------------------------------------------------------------
(* The ledger and the messages.                                            *)

(* An event about a request that is there, and has left pending if it says  *)
(* so.                                                                      *)
LEMMA EventBehind ==
  ASSUME IInv, AuditNeverAhead, Forward, NEW action, NEW who, NEW bg, NEW r \in Req \cup {Null},
         r # Null => requests[r] # Null /\ (action \in LeftPending => Left(r)),
         Audit(action, who, r, bg)
  PROVE  AuditNeverAhead'
<1>1. PICK new : /\ new.req = r /\ new.action = action
                 /\ audit' \subseteq audit \cup {new}
  <2>1. [action |-> action, actor |-> who, req |-> r, breakGlass |-> bg].req = r
        /\ [action |-> action, actor |-> who, req |-> r, breakGlass |-> bg].action = action
    OBVIOUS
  <2>2. QED
    BY <2>1 DEF Audit, AppendAudit
<1>2. ASSUME NEW e \in audit', e.req # Null
      PROVE  requests'[e.req] # Null /\ (e.action \in LeftPending => LeftNow(e.req))
  <2>1. CASE e \in audit
    <3>1. e.req \in Req
      BY <1>2, <2>1 DEF IInv, TypeOK, Event
    <3>2. QED
      BY <1>2, <2>1, <3>1 DEF AuditNeverAhead, Forward, Left
  <2>2. CASE e = new
    BY <1>1, <1>2, <2>2 DEF Forward
  <2>3. QED
    BY <1>1, <2>1, <2>2
<1>3. QED
  BY <1>2 DEF AuditNeverAhead, LeftNow

LEMMA SameLedgerBehind ==
  ASSUME IInv, AuditNeverAhead, Forward, UNCHANGED audit
  PROVE  AuditNeverAhead'
<1>1. \A e \in audit : e.req \in Req \cup {Null}
  BY DEF IInv, TypeOK, Event
<1>2. QED
  BY <1>1 DEF AuditNeverAhead, Forward, Left, LeftNow

(* A goroutine's event about its row. *)
LEMMA OwnEventBehind ==
  ASSUME IInv, AuditNeverAhead, CopiesLeft, Forward, NEW p \in Proc, pc[p] \notin NoRow,
         NEW action, NEW who, NEW bg, action \in LeftPending => pc[p] \in AfterPending,
         Audit(action, who, row[p].id, bg)
  PROVE  AuditNeverAhead'
<1>1. row[p].id \in Req /\ requests[row[p].id] # Null
  BY HeldRow DEF Row, Fits, SameRequest
<1>2. action \in LeftPending => Left(row[p].id)
  BY DEF CopiesLeft
<1>3. QED
  BY <1>1, <1>2, EventBehind

LEMMA LedgerBehind ==
  ASSUME IInv, AuditNeverAhead, CopiesLeft, [Next]_vars
  PROVE  AuditNeverAhead'
<1>1. Forward /\ Worker \in Proc /\ \A s \in Slot : s \in Proc
  BY StepForward DEF Proc
<1>2. CASE UNCHANGED audit
  BY <1>1, <1>2, SameLedgerBehind
<1>3. ASSUME NEW s \in Slot, CreateAudit(s)
      PROVE  AuditNeverAhead'
  <2>1. PICK bg : Audit("request_created", actor[s], row[s].id, bg)
    BY <1>3 DEF CreateAudit
  <2>2. "request_created" \notin LeftPending /\ pc[s] \notin NoRow
    BY <1>3 DEF CreateAudit, LeftPending, NoRow
  <2>3. QED
    BY <1>1, <2>1, <2>2, OwnEventBehind
<1>4. ASSUME NEW p \in Proc,
             \/ ApproveAudit(p) \/ ApproveAuditGrant(p) \/ ReleaseAudit(p)
             \/ ExpireAudit(p) \/ (RevokeAudit /\ p = Worker)
      PROVE  AuditNeverAhead'
  <2>1. PICK action, who, bg : /\ Audit(action, who, row[p].id, bg)
                               /\ pc[p] = "expire_audit" => action = "request_expired"
    BY <1>4 DEF ApproveAudit, ApproveAuditGrant, ReleaseAudit, ExpireAudit, RevokeAudit
  <2>2. pc[p] \in {"approve_audit", "approve_audit_grant", "release_audit", "expire_audit",
                   "revoke_audit"}
    BY <1>4 DEF ApproveAudit, ApproveAuditGrant, ReleaseAudit, ExpireAudit, RevokeAudit
  <2>3. pc[p] \notin NoRow /\ (action \in LeftPending => pc[p] \in AfterPending)
    BY <2>1, <2>2 DEF NoRow, LeftPending, AfterPending
  <2>4. QED
    BY <1>1, <2>1, <2>3, OwnEventBehind
<1>5. ASSUME NEW a \in User, HandleMe(a)
      PROVE  AuditNeverAhead'
  BY <1>1, <1>5, EventBehind DEF HandleMe
<1>6. QED
  BY <1>1, <1>2, <1>3, <1>4, <1>5, LedgerWriters

LEMMA SameNotesBehind ==
  ASSUME IInv, NoticeNeverAhead, Forward, UNCHANGED notified
  PROVE  NoticeNeverAhead'
<1>1. \A n \in notified : n[1] \in Req
  BY DEF IInv, TypeOK, N!TypeOK, Note
<1>2. QED
  BY <1>1 DEF NoticeNeverAhead, Forward, Left, LeftNow

(* A message about a goroutine's row. *)
LEMMA NotifyBehind ==
  ASSUME IInv, NoticeNeverAhead, CopiesLeft, Forward, NEW p \in Proc, NEW kind,
         kind \in LeftPendingKind => pc[p] \in AfterPending, Notify(p, kind)
  PROVE  NoticeNeverAhead'
<1>1. CASE N!Mark(p, <<row[p].id, kind>>)
  <2>1. notified' = notified \cup {<<row[p].id, kind>>}
    BY <1>1 DEF N!Mark
  <2>2. ASSUME kind \in LeftPendingKind
        PROVE  LeftNow(row[p].id)
    <3>1. row[p].id \in Req
      BY <2>2, HeldRow DEF AfterPending, NoRow, Row
    <3>2. QED
      BY <2>2, <3>1 DEF CopiesLeft, Forward
  <2>3. \A n \in notified : n[1] \in Req
    BY DEF IInv, TypeOK, N!TypeOK, Note
  <2>4. ASSUME NEW n \in notified', n[2] \in LeftPendingKind
        PROVE  LeftNow(n[1])
    BY <2>1, <2>2, <2>3, <2>4 DEF NoticeNeverAhead, Forward, Left
  <2>5. QED
    BY <2>4 DEF NoticeNeverAhead, LeftNow
<1>2. CASE UNCHANGED notified
  BY <1>2, SameNotesBehind
<1>3. QED
  BY <1>1, <1>2 DEF Notify, noteVars

LEMMA NotesBehind ==
  ASSUME IInv, NoticeNeverAhead, CopiesLeft, [Next]_vars
  PROVE  NoticeNeverAhead'
<1>1. Forward /\ Worker \in Proc /\ \A s \in Slot : s \in Proc
  BY StepForward DEF Proc
<1>2. CASE UNCHANGED notified
  BY <1>1, <1>2, SameNotesBehind
<1>3. ASSUME NEW p \in Proc,
             \/ CreateNotify(p) \/ ApproveNotify(p) \/ ReleaseNotify(p) \/ ExpireNotify(p)
             \/ (RevokeNotify /\ p = Worker)
      PROVE  NoticeNeverAhead'
  BY <1>1, <1>3, NotifyBehind
     DEF CreateNotify, ApproveNotify, ReleaseNotify, ExpireNotify, RevokeNotify,
         AfterPending, LeftPendingKind
<1>4. QED
  BY <1>1, <1>2, <1>3, NoteWriters

LEMMA LedgerInitially == Init => LInv
BY Initially DEF Init, N!Init, LInv, CopiesLeft, TodoLeft, AuditNeverAhead, NoticeNeverAhead, AfterPending

LEMMA LedgerInductive == IInv /\ LInv /\ [Next]_vars => LInv'
<1> SUFFICES ASSUME IInv, LInv, [Next]_vars
             PROVE  LInv'
  OBVIOUS
<1>1. CopiesLeft /\ TodoLeft /\ AuditNeverAhead /\ NoticeNeverAhead /\ Forward
  BY StepForward DEF LInv
<1>2. CopiesLeft'
  <2>1. CASE Stop
    BY <2>1 DEF Stop, CopiesLeft, AfterPending
  <2>2. CASE UNCHANGED <<requests, pc, row>>
    BY <1>1, <2>2 DEF CopiesLeft, Left
  <2>3. QED
    BY <1>1, <2>1, <2>2, HandlerLeft, WorkerLeft, CallLeft
       DEF Next, HandleMe, Start, Tick, RealmRemove, vars, storeVars, procVars
<1>3. QED
  BY <1>1, <1>2, TodoStaysLeft, LedgerBehind, NotesBehind DEF LInv

LEMMA LedgerInvariance == Spec => []LInv
<1>1. Init => LInv
  BY LedgerInitially
<1>2. IInv /\ LInv /\ [Next]_vars => LInv'
  BY LedgerInductive
<1>3. QED
  BY <1>1, <1>2, Invariance, PTL DEF Spec

(* The ledger never tells of a transition the table did not make, whatever  *)
(* handlers and reconciler overlap, whatever fails and wherever the process *)
(* ends: internal/api and internal/worker write the event after the row,   *)
(* from their own copy.  Only an expiry may be told of too early, and only  *)
(* where writes fail (handleApprove ignores that error).                    *)
THEOREM LedgerNeverAhead == Spec => []AuditNeverAhead
<1>1. LInv => AuditNeverAhead
  BY DEF LInv
<1>2. QED
  BY <1>1, LedgerInvariance, PTL

(* Nor is anyone told of an approval, an expiry or an end before the table   *)
(* has it (internal/notify, called after the write), with the same          *)
(* exception.                                                              *)
THEOREM MessagesNeverAhead == Spec => []NoticeNeverAhead
<1>1. LInv => NoticeNeverAhead
  BY DEF LInv
<1>2. QED
  BY <1>1, LedgerInvariance, PTL

-----------------------------------------------------------------------------
(* Nothing missing in the ledger.                                          *)

(* What a goroutine is about to record at its audit call. *)
PlaceAction == [create_audit |-> "request_created", approve_audit |-> "request_approved",
                expire_audit |-> "request_expired", release_audit |-> "early_release",
                revoke_audit |-> "grant_expired"]

Logs(q) == \E e \in audit' : /\ e.req = row[q].id /\ e.action = PlaceAction[pc[q]]
                             /\ pc[q] = "approve_audit" => e.actor = actor[q]

(* Whoever leaves an audit call has recorded. *)
Accounts(q) == Stays(q) \/ pc[q] \notin DOMAIN PlaceAction \/ Logs(q)

AllAccount == audit \subseteq audit' /\ \A q \in Proc : Accounts(q)

CInv == LedgerComplete /\ OwnApproval

(* What is recorded, or about to be, stays so. *)
LEMMA RecordedLater ==
  ASSUME NEW x \in Row, Recorded(x), AllAccount
  PROVE  Recorded(x)'
<1>1. audit \subseteq audit' /\ \A q \in Proc : Accounts(q)
  BY DEF AllAccount
<1>2. x.status \in Status
  BY DEF Row
<1>3. ASSUME NEW q \in Proc, pc[q] \in DOMAIN PlaceAction, row[q].id = x.id
      PROVE  \/ pc'[q] = pc[q] /\ row'[q].id = x.id /\ actor'[q] = actor[q]
             \/ \E e \in audit' : /\ e.req = x.id /\ e.action = PlaceAction[pc[q]]
                                  /\ pc[q] = "approve_audit" => e.actor = actor[q]
  BY <1>1, <1>3 DEF Accounts, Stays, Logs
<1>4. CASE x.status = "pending"
  BY <1>1, <1>3, <1>4 DEF Recorded, PlaceAction
<1>5. CASE x.status = "expired"
  BY <1>1, <1>3, <1>5 DEF Recorded, PlaceAction
<1>6. CASE x.status = "released"
  BY <1>1, <1>3, <1>6 DEF Recorded, PlaceAction
<1>7. CASE x.status = "approved"
  BY <1>1, <1>3, <1>7 DEF Recorded, PlaceAction, Proc
<1>8. QED
  BY <1>2, <1>4, <1>5, <1>6, <1>7 DEF Status

(* Every step accounts for the audit calls that are left. *)
LEMMA OneAccounts ==
  ASSUME NEW p \in Proc, OthersStay(p), audit \subseteq audit', Accounts(p)
  PROVE  AllAccount
BY DEF OthersStay, Accounts, AllAccount

LEMMA Accounting ==
  ASSUME DbFaults = FALSE, IInv, [Next]_vars, ~Stop
  PROVE  AllAccount
<1>1. Worker \in Proc /\ \A s \in Slot : s \in Proc
  BY DEF Proc
<1>2. ASSUME NEW action, NEW who, NEW r, NEW bg, Audit(action, who, r, bg)
      PROVE  /\ audit \subseteq audit'
             /\ \E e \in audit' : e.req = r /\ e.action = action /\ e.actor = who
  <2>1. PICK new : new = [action |-> action, actor |-> who, req |-> r, breakGlass |-> bg]
    OBVIOUS
  <2>2. audit' = audit \cup {new} /\ new.req = r /\ new.action = action /\ new.actor = who
    BY <1>2, <2>1 DEF Audit, AppendAudit
  <2>3. QED
    BY <2>2
<1>3. ASSUME NEW s \in Slot, HandlerStep(s)
      PROVE  AllAccount
  <2>1. s \in Proc /\ OthersStay(s)
    BY <1>3, HandlerAlone, SlotIsNotWorker
  <2>2. CASE CreateAudit(s)
    <3>1. PICK bg : Audit("request_created", actor[s], row[s].id, bg)
      BY <2>2 DEF CreateAudit
    <3>2. Logs(s) /\ audit \subseteq audit'
      BY <1>2, <2>2, <3>1 DEF CreateAudit, Logs, PlaceAction
    <3>3. QED
      BY <2>1, <3>2, OneAccounts DEF Accounts
  <2>3. CASE ApproveAudit(s)
    <3>1. PICK bg : Audit("request_approved", actor[s], row[s].id, bg)
      BY <2>3 DEF ApproveAudit
    <3>2. Logs(s) /\ audit \subseteq audit'
      BY <1>2, <2>3, <3>1 DEF ApproveAudit, Logs, PlaceAction
    <3>3. QED
      BY <2>1, <3>2, OneAccounts DEF Accounts
  <2>4. CASE ReleaseAudit(s)
    <3>1. PICK who, bg : Audit("early_release", who, row[s].id, bg)
      BY <2>4 DEF ReleaseAudit
    <3>2. Logs(s) /\ audit \subseteq audit'
      BY <1>2, <2>4, <3>1 DEF ReleaseAudit, Logs, PlaceAction
    <3>3. QED
      BY <2>1, <3>2, OneAccounts DEF Accounts
  <2>5. CASE ExpireAudit(s)
    <3>1. PICK bg : Audit("request_expired", "system", row[s].id, bg)
      BY <2>5 DEF ExpireAudit
    <3>2. Logs(s) /\ audit \subseteq audit'
      BY <1>2, <2>5, <3>1 DEF ExpireAudit, Logs, PlaceAction
    <3>3. QED
      BY <2>1, <3>2, OneAccounts DEF Accounts
  <2>6. ASSUME pc[s] \notin DOMAIN PlaceAction, audit \subseteq audit'
        PROVE  AllAccount
    BY <2>1, <2>6, OneAccounts DEF Accounts
  <2>7. CASE ApproveAuditGrant(s)
    BY <1>2, <2>6, <2>7 DEF ApproveAuditGrant, PlaceAction
  <2>8. CASE \/ CreateNotify(s) \/ ApproveDecide(s) \/ ExpireStore(s) \/ ExpireNotify(s)
             \/ ApproveAdd(s) \/ ApproveStore(s) \/ ApproveNotify(s) \/ ReleaseRemove(s)
             \/ ReleaseStore(s) \/ ReleaseNotify(s) \/ Post(s)
    BY <2>6, <2>8
       DEF CreateNotify, ApproveDecide, ExpireStore, ExpireNotify, ApproveAdd, ApproveStore,
           ApproveNotify, ReleaseRemove, ReleaseStore, EndStore, ReleaseNotify, Notify, Post,
           storeVars, PlaceAction
  <2>9. QED
    BY <1>3, <2>2, <2>3, <2>4, <2>5, <2>7, <2>8 DEF HandlerStep
<1>4. CASE ReconcileStep
  <2>1. OthersStay(Worker)
    BY <1>4, WorkerAlone
  <2>2. CASE ExpireAudit(Worker)
    <3>1. PICK bg : Audit("request_expired", "system", row[Worker].id, bg)
      BY <2>2 DEF ExpireAudit
    <3>2. Logs(Worker) /\ audit \subseteq audit'
      BY <1>2, <2>2, <3>1 DEF ExpireAudit, Logs, PlaceAction
    <3>3. QED
      BY <1>1, <2>1, <3>2, OneAccounts DEF Accounts
  <2>3. CASE RevokeAudit
    <3>1. PICK bg : Audit("grant_expired", "system", row[Worker].id, bg)
      BY <2>3 DEF RevokeAudit
    <3>2. Logs(Worker) /\ audit \subseteq audit'
      BY <1>2, <2>3, <3>1 DEF RevokeAudit, Logs, PlaceAction
    <3>3. QED
      BY <1>1, <2>1, <3>2, OneAccounts DEF Accounts
  <2>4. CASE pc[Worker] \notin DOMAIN PlaceAction /\ audit \subseteq audit'
    BY <1>1, <2>1, <2>4, OneAccounts DEF Accounts
  <2>5. QED
    BY <1>4, <2>2, <2>3, <2>4
       DEF ReconcileStep, Reconcile, ExpireRow, RevokeRow, ExpireNotify, ReconcileActive,
           RevokeStore, EndStore, RevokeNotify, ReconcileReturn, Notify, Post, storeVars,
           PlaceAction
<1>5. ASSUME NEW s \in Slot, NEW r \in Req,
             \/ \E a \in User \cup {Null}, u \in User : HandleCreate(s, a, u, r)
             \/ \E a \in User : HandleApprove(s, a, r)
             \/ \E a \in User \cup {Null} : HandleRelease(s, a, r)
      PROVE  AllAccount
  <2>1. OthersStay(s) /\ UNCHANGED audit /\ pc[s] = "idle"
    BY <1>5, CallAlone DEF HandleCreate, HandleApprove, HandleRelease, storeVars
  <2>2. QED
    BY <1>1, <2>1, OneAccounts DEF Accounts, PlaceAction
<1>6. CASE /\ UNCHANGED <<pc, row, actor>> /\ audit \subseteq audit'
  BY <1>6 DEF AllAccount, Accounts, Stays
<1>7. ASSUME NEW a \in User, HandleMe(a)
      PROVE  AllAccount
  BY <1>2, <1>6, <1>7 DEF HandleMe, procVars
<1>8. QED
  BY <1>3, <1>4, <1>5, <1>6, <1>7 DEF Next, Start, Tick, RealmRemove, vars, storeVars, procVars

(* Whoever stores a row stands at the audit call for it.  He stores over    *)
(* another row, unless he creates it, and ends a grant from its last place. *)
StoredFrom(y) ==
  /\ y.status # "pending" => requests[y.id] # Null
  /\ y.status = "released" =>
       \E p \in Proc : pc[p] \in {"release_store", "revoke_store"} /\ row[p].id = y.id

WritesRecorded ==
  \/ UNCHANGED requests
  \/ \E y \in Row : /\ Recorded(y)' /\ requests' = [requests EXCEPT ![y.id] = y]
                   /\ StoredFrom(y)

LEMMA AboutToRecord ==
  ASSUME NEW y \in Row, NEW p \in Proc, row'[p].id = y.id,
         \/ y.status = "pending" /\ pc'[p] = "create_audit"
         \/ y.status = "expired" /\ pc'[p] = "expire_audit"
         \/ y.status = "released" /\ pc'[p] \in {"release_audit", "revoke_audit"}
         \/ /\ y.status = "approved" /\ pc'[p] = "approve_audit"
            /\ p \in Slot /\ y.approvedBy = actor'[p]
  PROVE  Recorded(y)'
<1>1. CASE y.status = "pending"
  BY <1>1 DEF Recorded
<1>2. CASE y.status = "expired"
  BY <1>2 DEF Recorded
<1>3. CASE y.status = "released"
  BY <1>3 DEF Recorded
<1>4. CASE y.status = "approved"
  BY <1>4 DEF Recorded
<1>5. QED
  BY <1>1, <1>2, <1>3, <1>4

LEMMA EndRecorded ==
  ASSUME DbFaults = FALSE, IInv, NEW p \in Proc, pc[p] \in {"release_store", "revoke_store"},
         NEW next \in {"release_audit", "revoke_audit"}, EndStore(p, next)
  PROVE  WritesRecorded
<1>1. pc[p] \notin NoRow /\ pc[p] \in DOMAIN PhaseStatus /\ PhaseStatus[pc[p]] = "approved"
  BY DEF NoRow, PhaseStatus
<1>2. row[p] \in Row /\ Fits(row[p]) /\ row[p].status = "approved"
  BY <1>1, HeldRow DEF IInv, CopiesFit, CopyFits
<1>3. PICK y \in Row : y = Released(row[p]) /\ Fits(y) /\ y.status = "released"
  BY <1>2, ReleasedFits
<1>4. /\ requests' = [requests EXCEPT ![y.id] = y]
      /\ row'[p] = y /\ pc'[p] = next
  BY <1>3, UpdatedIsCopy DEF EndStore, Update, Fits, Goto, IInv, TypeOK
<1>5. Recorded(y)'
  BY <1>3, <1>4, AboutToRecord
<1>6. y.id = row[p].id
  BY <1>2, <1>3 DEF Released, Row
<1>7. StoredFrom(y)
  BY <1>3, <1>6 DEF StoredFrom, Fits, SameRequest
<1>8. QED
  BY <1>4, <1>5, <1>7 DEF WritesRecorded

LEMMA HandlerRecords ==
  ASSUME DbFaults = FALSE, IInv, OwnApproval, NEW s \in Slot, HandlerStep(s)
  PROVE  WritesRecorded
<1>1. s \in Proc
  BY SlotIsNotWorker
<1>2. CASE ExpireStore(s) \/ ApproveStore(s)
  <2>1. pc[s] \notin NoRow /\ pc[s] \in DOMAIN PhaseStatus
    BY <1>2 DEF ExpireStore, ApproveStore, NoRow, PhaseStatus
  <2>2. row[s] \in Row /\ Fits(row[s]) /\ row[s].status = PhaseStatus[pc[s]]
    BY <1>1, <2>1, HeldRow DEF IInv, CopiesFit, CopyFits
  <2>3. requests' = [requests EXCEPT ![row[s].id] = row[s]]
    BY <1>2, <2>2, UpdatedIsCopy DEF ExpireStore, ApproveStore, Update, Fits
  <2>4. PICK y \in Row : y = row[s]
    BY <2>2
  <2>5. Recorded(y)'
    <3>1. CASE ExpireStore(s)
      <4>1. y.status = "expired" /\ pc'[s] = "expire_audit" /\ row'[s].id = y.id
        BY <1>1, <2>2, <2>4, <3>1 DEF ExpireStore, Goto, PhaseStatus, IInv, TypeOK
      <4>2. QED
        BY <1>1, <4>1, AboutToRecord
    <3>2. CASE ApproveStore(s)
      <4>1. /\ y.status = "approved" /\ pc'[s] = "approve_audit" /\ row'[s].id = y.id
            /\ y.approvedBy = actor'[s]
        BY <1>1, <2>2, <2>4, <3>2
           DEF ApproveStore, Goto, PhaseStatus, IInv, TypeOK, OwnApproval
      <4>2. QED
        BY <1>1, <4>1, AboutToRecord
    <3>3. QED
      BY <1>2, <3>1, <3>2
  <2>6. StoredFrom(y)
    BY <1>2, <2>2, <2>4 DEF StoredFrom, Fits, SameRequest, ExpireStore, ApproveStore, PhaseStatus
  <2>7. QED
    BY <2>3, <2>4, <2>5, <2>6 DEF WritesRecorded
<1>3. CASE ReleaseStore(s)
  BY <1>1, <1>3, EndRecorded DEF ReleaseStore
<1>4. QED
  BY <1>2, <1>3, HandlerWrites DEF WritesRecorded

LEMMA WorkerRecords ==
  ASSUME DbFaults = FALSE, IInv, ReconcileStep
  PROVE  WritesRecorded
<1>1. Worker \in Proc
  BY DEF Proc
<1>2. ASSUME NEW x \in todo, ExpireRow(x)
      PROVE  WritesRecorded
  <2>1. PICK y : y = [x EXCEPT !.status = "expired"]
    OBVIOUS
  <2>2. y \in Row /\ Fits(y) /\ y.status = "expired"
    BY <1>2, <2>1, ExpiredFits DEF ExpireRow
  <2>3. /\ requests' = [requests EXCEPT ![y.id] = y]
        /\ row'[Worker] = y /\ pc'[Worker] = "expire_audit"
    BY <1>1, <1>2, <2>1, <2>2, UpdatedIsCopy DEF ExpireRow, Update, Fits, Goto, IInv, TypeOK
  <2>4. Recorded(y)'
    BY <1>1, <2>2, <2>3, AboutToRecord
  <2>5. StoredFrom(y)
    BY <2>2 DEF StoredFrom, Fits, SameRequest
  <2>6. QED
    BY <2>2, <2>3, <2>4, <2>5 DEF WritesRecorded
<1>3. CASE RevokeStore
  BY <1>1, <1>3, EndRecorded DEF RevokeStore
<1>4. QED
  BY <1>2, <1>3, ReconcileWrites DEF WritesRecorded

LEMMA StepRecords ==
  ASSUME DbFaults = FALSE, IInv, OwnApproval, [Next]_vars
  PROVE  WritesRecorded
<1>1. ASSUME NEW s \in Slot, NEW r \in Req, NEW a \in User \cup {Null}, NEW u \in User,
             HandleCreate(s, a, u, r)
      PROVE  WritesRecorded
  <2>1. now + RequestTTL \in Nat
    BY ConfigAssumption DEF ConfigAssumption, IInv, TypeOK
  <2>2. PICK y \in Row : y = NewRow(r, u, now + RequestTTL)
    BY <2>1 DEF NewRow, Row, Status
  <2>3. y.status = "pending"
    BY <2>2 DEF NewRow
  <2>4. /\ requests' = [requests EXCEPT ![y.id] = y] /\ s \in Proc
        /\ row'[s] = y /\ pc'[s] = "create_audit"
    BY <1>1, <2>2, SlotIsNotWorker DEF HandleCreate, Create, Goto, IInv, TypeOK
  <2>5. Recorded(y)'
    BY <2>3, <2>4, AboutToRecord
  <2>6. QED
    BY <2>3, <2>4, <2>5 DEF WritesRecorded, StoredFrom
<1>2. QED
  BY <1>1, TableWriters, HandlerRecords, WorkerRecords DEF WritesRecorded

LEMMA CompleteKept ==
  ASSUME DbFaults = FALSE, IInv, LedgerComplete, OwnApproval, [Next]_vars, ~Stop
  PROVE  LedgerComplete'
<1>1. AllAccount /\ WritesRecorded
  BY Accounting, StepRecords
<1>2. requests \in [Req -> Row \cup {Null}]
  BY DEF IInv, TypeOK
<1>3. ASSUME NEW x \in Rows
      PROVE  Recorded(x)'
  BY <1>1, <1>3, QueriedFits, RecordedLater DEF LedgerComplete
<1>4. ASSUME NEW x, x \in Rows'
      PROVE  x \in Rows \/ Recorded(x)'
  <2>1. PICK r \in Req : x = requests'[r] /\ x # Null
    BY <1>4 DEF Rows
  <2>2. CASE requests'[r] = requests[r]
    BY <2>1, <2>2 DEF Rows
  <2>3. ASSUME NEW y \in Row, Recorded(y)', requests' = [requests EXCEPT ![y.id] = y]
        PROVE  x \in Rows \/ Recorded(x)'
    <3>1. x = y \/ requests'[r] = requests[r]
      BY <1>2, <2>1, <2>3
    <3>2. QED
      BY <2>2, <2>3, <3>1
  <2>4. QED
    BY <1>1, <2>2, <2>3 DEF WritesRecorded
<1>5. \A x : x \in Rows' => Recorded(x)'
  BY <1>3, <1>4
<1>6. QED
  BY <1>5 DEF LedgerComplete

LEMMA CompleteInitially == Init => CInv
BY DEF Init, CInv, LedgerComplete, Rows, OwnApproval

LEMMA CompleteInductive ==
  ASSUME DbFaults = FALSE, MaxStops = 0
  PROVE  IInv /\ CInv /\ [Next]_vars => CInv'
<1> SUFFICES ASSUME IInv, CInv, [Next]_vars
             PROVE  CInv'
  OBVIOUS
<1>1. ~Stop
  BY DEF Stop, IInv, TypeOK
<1>2. QED
  BY <1>1, CompleteKept, OwnStep DEF CInv

(* While the process lives and writes succeed, the ledger accounts for the   *)
(* table: the status a row has is on record, with its approver, or the       *)
(* goroutine that stored it stands at the audit call for it.  Two handlers   *)
(* and the reconciler may overwrite each other's rows; none of them takes    *)
(* away what the other has still to record.                                 *)
THEOREM LedgerAccounts == DbFaults = FALSE /\ MaxStops = 0 => (Spec => []LedgerComplete)
<1> SUFFICES ASSUME DbFaults = FALSE, MaxStops = 0
             PROVE  Spec => []LedgerComplete
  OBVIOUS
<1>1. Init => CInv
  BY CompleteInitially
<1>2. IInv /\ CInv /\ [Next]_vars => CInv'
  BY CompleteInductive
<1>3. CInv => LedgerComplete
  BY DEF CInv
<1>4. QED
  BY <1>1, <1>2, <1>3, Invariance, PTL DEF Spec

-----------------------------------------------------------------------------
(* No step missing before another.  What is on record about a request rests *)
(* on what was on record when it was written: a row that is there was       *)
(* created; who ends a grant has read it as approved; who records a grant   *)
(* has recorded its approval.                                              *)
CreatedOn(r) == OnRecord(r, "request_created", "create_audit")

ApprovedOn(r) == OnRecord(r, "request_approved", "approve_audit")

ApprovalBy(who, r) ==
  \E d \in audit : d.action = "request_approved" /\ d.req = r /\ d.actor = who

EndPlace == {"release_remove", "release_store", "release_audit",
             "revoke_store", "revoke_audit"}

RowsCreated == \A r \in Req : requests[r] # Null => CreatedOn(r)

EndsApproved == \A r \in Req : HasStatus(r, "released") => ApprovedOn(r)

EndersApproved == \A p \in Proc : pc[p] \in EndPlace => ApprovedOn(row[p].id)

TodoApproved == \A x \in todo : x.status = "approved" => ApprovedOn(x.id)

GrantersApproved ==
  \A p \in Proc : pc[p] = "approve_audit_grant" => ApprovalBy(actor[p], row[p].id)

SInv == /\ RowsCreated /\ EndsApproved /\ EndersApproved /\ TodoApproved
        /\ GrantersApproved /\ NoStepSkipped

(* On record, or about to be, for good. *)
LEMMA OnRecordLater ==
  ASSUME AllAccount, NEW r
  PROVE  /\ CreatedOn(r) => CreatedOn(r)'
         /\ ApprovedOn(r) => ApprovedOn(r)'
         /\ \A who : ApprovalBy(who, r) => ApprovalBy(who, r)'
<1>1. audit \subseteq audit' /\ \A q \in Proc : Accounts(q)
  BY DEF AllAccount
<1>2. ASSUME NEW q \in Proc, pc[q] \in DOMAIN PlaceAction, row[q].id = r
      PROVE  \/ pc'[q] = pc[q] /\ row'[q].id = r
             \/ \E e \in audit' : e.req = r /\ e.action = PlaceAction[pc[q]]
  BY <1>1, <1>2 DEF Accounts, Stays, Logs
<1>3. CreatedOn(r) => CreatedOn(r)'
  BY <1>1, <1>2 DEF CreatedOn, OnRecord, PlaceAction
<1>4. ApprovedOn(r) => ApprovedOn(r)'
  BY <1>1, <1>2 DEF ApprovedOn, OnRecord, PlaceAction
<1>5. QED
  BY <1>1, <1>3, <1>4 DEF ApprovalBy

(* What LedgerComplete says of pending and approved rows. *)
LEMMA RecordedRows ==
  ASSUME NEW x, Recorded(x)
  PROVE  /\ x.status = "pending" => CreatedOn(x.id)
         /\ x.status = "approved" => ApprovedOn(x.id)
<1>1. x.status = "pending" => CreatedOn(x.id)
  BY DEF Recorded, CreatedOn, OnRecord
<1>2. x.status = "approved" => ApprovedOn(x.id)
  BY DEF Recorded, ApprovedOn, OnRecord, Proc
<1>3. QED
  BY <1>1, <1>2

LEMMA RowsKept ==
  ASSUME IInv, SInv, AllAccount, WritesRecorded
  PROVE  RowsCreated' /\ EndsApproved'
<1>1. requests \in [Req -> Row \cup {Null}]
  BY DEF IInv, TypeOK
<1>2. CASE UNCHANGED requests
  BY <1>2, OnRecordLater DEF SInv, RowsCreated, EndsApproved, HasStatus
<1>3. ASSUME NEW y \in Row, Recorded(y)', StoredFrom(y), requests' = [requests EXCEPT ![y.id] = y]
      PROVE  RowsCreated' /\ EndsApproved'
  <2>1. /\ y.status = "pending" => CreatedOn(y.id)'
        /\ y.status # "pending" => CreatedOn(y.id)
    <3>1. y.status = "pending" => CreatedOn(y.id)'
      BY <1>3 DEF Recorded, CreatedOn, OnRecord
    <3>2. y.id \in Req
      BY DEF Row
    <3>3. QED
      BY <1>3, <3>1, <3>2 DEF StoredFrom, SInv, RowsCreated
  <2>2. y.status = "released" => ApprovedOn(y.id)
    BY <1>3 DEF StoredFrom, SInv, EndersApproved, EndPlace
  <2>3. ASSUME NEW r \in Req
        PROVE  /\ requests'[r] # Null => CreatedOn(r)'
               /\ requests'[r] # Null /\ requests'[r].status = "released" => ApprovedOn(r)'
    <3>1. CASE r = y.id
      BY <1>1, <1>3, <2>1, <2>2, <3>1, OnRecordLater
    <3>2. CASE r # y.id
      BY <1>1, <1>3, <3>2, OnRecordLater DEF SInv, RowsCreated, EndsApproved, HasStatus
    <3>3. QED
      BY <3>1, <3>2
  <2>4. QED
    BY <2>3 DEF RowsCreated, EndsApproved, HasStatus
<1>4. QED
  BY <1>2, <1>3 DEF WritesRecorded

(* Whoever is at a place that ends a grant was at such a place before, or    *)
(* has taken up an approved row, from the table or from a query.            *)
LEMMA EndersEnter ==
  ASSUME IInv, [Next]_vars, NEW p \in Proc, pc'[p] \in EndPlace
  PROVE  \/ pc[p] \in EndPlace /\ row'[p].id = row[p].id
         \/ \E x \in Rows \cup todo : x.status = "approved" /\ row'[p].id = x.id
<1>1. pc \in [Proc -> Phase] /\ row \in [Proc -> Row \cup {Null}]
  BY DEF IInv, TypeOK
<1>2. CASE UNCHANGED <<pc, row>>
  BY <1>2
<1>3. CASE Stop
  BY <1>3 DEF Stop, EndPlace
<1>5. CASE Stays(p)
  BY <1>5 DEF Stays
<1>6. ASSUME NEW s \in Slot, NEW r \in Req,
             \/ \E a \in User \cup {Null}, u \in User : HandleCreate(s, a, u, r)
             \/ \E a \in User : HandleApprove(s, a, r)
             \/ \E a \in User \cup {Null} : HandleRelease(s, a, r)
      PROVE  \/ Stays(p)
             \/ \E x \in Rows \cup todo : x.status = "approved" /\ row'[p].id = x.id
  <2>1. s \in Proc /\ OthersStay(s)
    BY <1>6, CallAlone, SlotIsNotWorker
  <2>2. CASE p # s
    BY <2>1, <2>2 DEF OthersStay
  <2>3. ASSUME NEW a \in User \cup {Null}, HandleRelease(s, a, r), p = s
        PROVE  \E x \in Rows : x.status = "approved" /\ row'[p].id = x.id
    <3>1. requests[r] \in Rows /\ requests[r].status = "approved" /\ row'[s] = requests[r]
      BY <1>1, <2>1, <2>3 DEF HandleRelease, Releasable, Rows
    <3>2. QED
      BY <2>3, <3>1
  <2>4. CASE \/ \E a \in User \cup {Null}, u \in User : HandleCreate(s, a, u, r)
             \/ \E a \in User : HandleApprove(s, a, r)
    <3>1. pc'[s] \notin EndPlace
      BY <1>1, <2>1, <2>4 DEF HandleCreate, HandleApprove, Goto, EndPlace
    <3>2. QED
      BY <2>2, <3>1
  <2>5. QED
    BY <1>6, <2>2, <2>3, <2>4
<1>7. ASSUME NEW s \in Slot, HandlerStep(s)
      PROVE  Stays(p) \/ (pc[p] \in EndPlace /\ row'[p].id = row[p].id)
  <2>1. s \in Proc /\ s # Worker /\ OthersStay(s)
    BY <1>7, HandlerAlone, SlotIsNotWorker
  <2>2. CASE p # s
    BY <2>1, <2>2 DEF OthersStay
  <2>3. CASE ReleaseRemove(s) /\ p = s
    BY <1>1, <2>1, <2>3 DEF ReleaseRemove, Finish, Goto, Resume, EndPlace
  <2>4. CASE ReleaseStore(s) /\ p = s
    <3>1. pc[s] = "release_store" /\ row[s] \in Row
      BY <2>1, <2>4, HeldRow DEF ReleaseStore, NoRow
    <3>2. row' = [row EXCEPT ![s] = Released(row[s])]
      BY <1>1, <2>1, <2>4 DEF ReleaseStore, EndStore, Finish, Goto, Resume, EndPlace
    <3>3. QED
      BY <1>1, <2>1, <2>4, <3>1, <3>2 DEF Released, Row, EndPlace
  <2>5. CASE ~ReleaseRemove(s) /\ ~ReleaseStore(s)
    <3>1. pc'[s] \notin EndPlace
      BY <1>1, <1>7, <2>1, <2>5
         DEF HandlerStep, CreateAudit, CreateNotify, ApproveDecide, ExpireStore, ExpireAudit,
             ExpireNotify, ApproveAdd, ApproveStore, ApproveAudit, ApproveAuditGrant,
             ApproveNotify, ReleaseAudit, ReleaseNotify, Notify, Post, Finish, Goto,
             Resume, EndPlace
    <3>2. QED
      BY <2>2, <3>1
  <2>6. QED
    BY <2>2, <2>3, <2>4, <2>5
<1>8. CASE ReconcileStep
  <2>1. Worker \in Proc /\ OthersStay(Worker)
    BY <1>8, WorkerAlone DEF Proc
  <2>2. CASE p # Worker
    BY <1>5, <2>1, <2>2 DEF OthersStay
  <2>3. ASSUME NEW x \in todo, RevokeRow(x), p = Worker
        PROVE  \E y \in todo : y.status = "approved" /\ row'[p].id = y.id
    <3>1. pc[Worker] = "revoke" /\ row[Worker] = Null
      BY <2>1, <2>3 DEF RevokeRow, IInv, CopiesFit, CopyFits, NoRow
    <3>2. x.status = "approved"
      BY <3>1 DEF IInv, CopiesFit, TodoFits, TodoStatus
    <3>3. row' = [row EXCEPT ![Worker] = x]
      BY <2>3, <3>1 DEF RevokeRow, EndPlace
    <3>4. QED
      BY <1>1, <2>1, <2>3, <3>2, <3>3
  <2>4. CASE RevokeStore /\ p = Worker
    <3>1. pc[Worker] = "revoke_store" /\ row[Worker] \in Row
      BY <2>1, <2>4, HeldRow DEF RevokeStore, NoRow
    <3>2. row' = [row EXCEPT ![Worker] = Released(row[Worker])]
      BY <1>1, <2>1, <2>4 DEF RevokeStore, EndStore, Finish, Goto, Resume, EndPlace
    <3>3. QED
      BY <1>1, <2>1, <2>4, <3>1, <3>2 DEF Released, Row, EndPlace
  <2>5. CASE ~RevokeStore /\ \A x \in todo : ~RevokeRow(x)
    <3>1. pc'[Worker] \notin EndPlace
      BY <1>1, <1>8, <2>1, <2>5
         DEF ReconcileStep, Reconcile, ExpireRow, ExpireAudit, ExpireNotify, ReconcileActive,
             RevokeAudit, RevokeNotify, ReconcileReturn, Notify, Post, Finish, Goto,
             Resume, EndPlace
    <3>2. QED
      BY <2>2, <3>1
  <2>6. QED
    BY <2>2, <2>3, <2>4, <2>5
<1>9. QED
  BY <1>2, <1>3, <1>5, <1>6, <1>7, <1>8
     DEF Next, HandleMe, Start, Tick, RealmRemove, vars, procVars

LEMMA EndersKept ==
  ASSUME IInv, SInv, LedgerComplete, AllAccount, [Next]_vars
  PROVE  EndersApproved'
<1>1. ASSUME NEW p \in Proc, pc'[p] \in EndPlace
      PROVE  ApprovedOn(row'[p].id)
  <2>1. CASE pc[p] \in EndPlace /\ row'[p].id = row[p].id
    BY <2>1 DEF SInv, EndersApproved
  <2>2. ASSUME NEW x \in Rows \cup todo, x.status = "approved", row'[p].id = x.id
        PROVE  ApprovedOn(row'[p].id)
    BY <2>2, RecordedRows DEF LedgerComplete, SInv, TodoApproved
  <2>3. QED
    BY <1>1, <2>1, <2>2, EndersEnter
<1>2. ASSUME NEW p \in Proc, pc'[p] \in EndPlace
      PROVE  \E r : r = row'[p].id /\ ApprovedOn(r)'
  BY <1>1, <1>2, OnRecordLater
<1>3. QED
  BY <1>2 DEF EndersApproved, ApprovedOn, OnRecord

LEMMA TodoStaysApproved ==
  ASSUME IInv, SInv, LedgerComplete, AllAccount, [Next]_vars
  PROVE  TodoApproved'
<1>1. ASSUME NEW x \in todo', x.status = "approved"
      PROVE  ApprovedOn(x.id)
  <2>1. CASE todo' \subseteq todo
    BY <1>1, <2>1 DEF SInv, TodoApproved
  <2>2. CASE Reconcile
    BY <1>1, <2>2 DEF Reconcile, PendingExpired
  <2>3. CASE ReconcileActive
    <3>1. x \in Rows
      BY <2>3 DEF ReconcileActive, ActiveExpired
    <3>2. QED
      BY <1>1, <3>1, RecordedRows DEF LedgerComplete
  <2>4. QED
    BY <2>1, <2>2, <2>3, QueryWriters
<1>2. ASSUME NEW x \in todo', x.status = "approved"
      PROVE  ApprovedOn(x.id)'
  BY <1>1, <1>2, OnRecordLater
<1>3. QED
  BY <1>2 DEF TodoApproved

(* An approver comes to the second audit call from the first. *)
LEMMA GrantersEnter ==
  ASSUME IInv, [Next]_vars, NEW p \in Proc, pc'[p] = "approve_audit_grant"
  PROVE  Stays(p) \/ ApproveAudit(p)
<1>1. pc \in [Proc -> Phase]
  BY DEF IInv, TypeOK
<1>2. CASE UNCHANGED <<pc, row, actor>>
  BY <1>2 DEF Stays
<1>3. CASE Stop
  BY <1>3 DEF Stop
<1>4. ASSUME NEW s \in Slot, NEW r \in Req,
             \/ \E a \in User \cup {Null}, u \in User : HandleCreate(s, a, u, r)
             \/ \E a \in User : HandleApprove(s, a, r)
             \/ \E a \in User \cup {Null} : HandleRelease(s, a, r)
      PROVE  Stays(p)
  <2>1. pc'[s] # "approve_audit_grant" /\ OthersStay(s)
    BY <1>1, <1>4, CallAlone, SlotIsNotWorker
       DEF HandleCreate, HandleApprove, HandleRelease, Goto
  <2>2. QED
    BY <2>1 DEF OthersStay
<1>5. ASSUME NEW s \in Slot, HandlerStep(s)
      PROVE  Stays(p) \/ ApproveAudit(p)
  <2>1. s \in Proc /\ s # Worker /\ OthersStay(s)
    BY <1>5, HandlerAlone, SlotIsNotWorker
  <2>2. CASE ~ApproveAudit(s)
    <3>1. pc'[s] # "approve_audit_grant"
      BY <1>1, <1>5, <2>1, <2>2
         DEF HandlerStep, CreateAudit, CreateNotify, ApproveDecide, ExpireStore, ExpireAudit,
             ExpireNotify, ApproveAdd, ApproveStore, ApproveAuditGrant, ApproveNotify,
             ReleaseRemove, ReleaseStore, ReleaseAudit, ReleaseNotify, EndStore, Notify,
             Post, Finish, Goto, Resume
    <3>2. QED
      BY <2>1, <3>1 DEF OthersStay
  <2>3. QED
    BY <2>1, <2>2 DEF OthersStay
<1>6. CASE ReconcileStep
  <2>1. Worker \in Proc /\ OthersStay(Worker)
    BY <1>6, WorkerAlone DEF Proc
  <2>2. pc'[Worker] # "approve_audit_grant"
    BY <1>1, <1>6, <2>1
       DEF ReconcileStep, Reconcile, ExpireRow, ExpireAudit, ExpireNotify, ReconcileActive,
           RevokeRow, RevokeStore, RevokeAudit, RevokeNotify, ReconcileReturn, EndStore,
           Notify, Post, Finish, Goto, Resume
  <2>3. QED
    BY <2>1, <2>2 DEF OthersStay
<1>7. QED
  BY <1>2, <1>3, <1>4, <1>5, <1>6
     DEF Next, HandleMe, Start, Tick, RealmRemove, vars, procVars

LEMMA GrantersKept ==
  ASSUME IInv, SInv, AllAccount, [Next]_vars
  PROVE  GrantersApproved'
<1>1. pc \in [Proc -> Phase] /\ row \in [Proc -> Row \cup {Null}]
  BY DEF IInv, TypeOK
<1>2. ASSUME NEW p \in Proc, pc'[p] = "approve_audit_grant"
      PROVE  \E d \in audit' : /\ d.action = "request_approved" /\ d.req = row'[p].id
                               /\ d.actor = actor'[p]
  <2>1. CASE Stays(p)
    BY <1>2, <2>1 DEF Stays, SInv, GrantersApproved, ApprovalBy, AllAccount
  <2>2. CASE ApproveAudit(p)
    <3>1. pc[p] = "approve_audit" /\ UNCHANGED <<row, actor>>
      BY <2>2 DEF ApproveAudit
    <3>2. ~Stays(p) /\ pc[p] \in DOMAIN PlaceAction /\ PlaceAction[pc[p]] = "request_approved"
      BY <1>2, <3>1 DEF Stays, PlaceAction
    <3>3. QED
      BY <3>1, <3>2 DEF AllAccount, Accounts, Logs
  <2>3. QED
    BY <1>2, <2>1, <2>2, GrantersEnter
<1>3. QED
  BY <1>2 DEF GrantersApproved, ApprovalBy

(* The event of a step, if there is one, has what comes before it. *)
LEMMA EventFollows ==
  ASSUME IInv, SInv, [Next]_vars, NEW e \in audit', e \notin audit, e.req # Null
  PROVE  /\ CreatedOn(e.req)
         /\ e.action \in EndEvent => ApprovedOn(e.req)
         /\ e.action = "grant_active" => ApprovalBy(e.actor, e.req)
<1>1. ASSUME NEW action, NEW who, NEW r, NEW bg, Audit(action, who, r, bg)
      PROVE  e.action = action /\ e.actor = who /\ e.req = r
  BY <1>1 DEF Audit, AppendAudit
<1>2. ASSUME NEW p \in Proc, pc[p] \notin NoRow
      PROVE  CreatedOn(row[p].id)
  BY <1>2, HeldRow DEF SInv, RowsCreated, Fits, SameRequest, Row
<1>3. ASSUME NEW p \in Proc, CreateAudit(p) \/ ApproveAudit(p) \/ ExpireAudit(p)
      PROVE  /\ e.action \in {"request_created", "request_approved", "request_expired"}
             /\ e.req = row[p].id /\ pc[p] \notin NoRow
  BY <1>1, <1>3 DEF CreateAudit, ApproveAudit, ExpireAudit, NoRow
<1>4. ASSUME NEW p \in Proc, ReleaseAudit(p) \/ (p = Worker /\ RevokeAudit)
      PROVE  /\ e.action \in EndEvent /\ e.action # "grant_active"
             /\ e.req = row[p].id /\ pc[p] \notin NoRow /\ pc[p] \in EndPlace
  BY <1>1, <1>4 DEF ReleaseAudit, RevokeAudit, EndEvent, EndPlace, NoRow
<1>5. ASSUME NEW p \in Proc, ApproveAuditGrant(p)
      PROVE  /\ e.action = "grant_active" /\ e.actor = actor[p]
             /\ e.req = row[p].id /\ pc[p] = "approve_audit_grant" /\ pc[p] \notin NoRow
  BY <1>1, <1>5 DEF ApproveAuditGrant, NoRow
<1>6. ~(\E a \in User : HandleMe(a))
  BY <1>1 DEF HandleMe
<1>7. PICK p \in Proc : \/ CreateAudit(p) \/ ApproveAudit(p) \/ ExpireAudit(p)
                       \/ ReleaseAudit(p) \/ (p = Worker /\ RevokeAudit)
                       \/ ApproveAuditGrant(p)
  BY <1>6, LedgerWriters DEF Proc
<1>8. CASE CreateAudit(p) \/ ApproveAudit(p) \/ ExpireAudit(p)
  BY <1>2, <1>3, <1>8 DEF EndEvent
<1>9. CASE ReleaseAudit(p) \/ (p = Worker /\ RevokeAudit)
  BY <1>2, <1>4, <1>9 DEF SInv, EndersApproved
<1>10. CASE ApproveAuditGrant(p)
  BY <1>2, <1>5, <1>10 DEF SInv, GrantersApproved, EndEvent
<1>11. QED
  BY <1>7, <1>8, <1>9, <1>10

LEMMA NoSkipKept ==
  ASSUME IInv, SInv, AllAccount, [Next]_vars
  PROVE  NoStepSkipped'
<1>1. ASSUME NEW e \in audit', e.req # Null
      PROVE  /\ CreatedOn(e.req)
             /\ e.action \in EndEvent => ApprovedOn(e.req)
             /\ e.action = "grant_active" => ApprovalBy(e.actor, e.req)
  <2>1. CASE e \in audit
    BY <1>1, <2>1 DEF SInv, NoStepSkipped, CreatedOn, ApprovedOn, ApprovalBy
  <2>2. QED
    BY <1>1, <2>1, EventFollows
<1>2. ASSUME NEW e \in audit', e.req # Null
      PROVE  /\ CreatedOn(e.req)'
             /\ e.action \in EndEvent => ApprovedOn(e.req)'
             /\ e.action = "grant_active" => ApprovalBy(e.actor, e.req)'
  BY <1>1, <1>2, OnRecordLater
<1>3. QED
  BY <1>2 DEF NoStepSkipped, CreatedOn, ApprovedOn, ApprovalBy

LEMMA SkipInitially == Init => SInv
BY DEF Init, SInv, RowsCreated, EndsApproved, HasStatus, EndersApproved, EndPlace,
       TodoApproved, GrantersApproved, NoStepSkipped

LEMMA SkipInductive ==
  ASSUME DbFaults = FALSE, MaxStops = 0
  PROVE  IInv /\ CInv /\ SInv /\ [Next]_vars => SInv'
<1> SUFFICES ASSUME IInv, CInv, SInv, [Next]_vars
             PROVE  SInv'
  OBVIOUS
<1>1. ~Stop
  BY DEF Stop, IInv, TypeOK
<1>2. AllAccount /\ WritesRecorded /\ LedgerComplete
  BY <1>1, Accounting, StepRecords DEF CInv
<1>3. QED
  BY <1>2, RowsKept, EndersKept, TodoStaysApproved, GrantersKept, NoSkipKept DEF SInv

(* While the process lives and writes succeed, the ledger skips no step of a  *)
(* request: whatever it tells of one, its creation is told too, or its        *)
(* creator stands at the call that tells it; an end of a grant has an         *)
(* approval before it in the same sense; and a grant is told by an approver   *)
(* whose approval is.  Handlers and reconciler overtake each other between a  *)
(* write and its event; none of them tells what rests on nothing.             *)
THEOREM LedgerSkipsNothing == DbFaults = FALSE /\ MaxStops = 0 => (Spec => []NoStepSkipped)
<1> SUFFICES ASSUME DbFaults = FALSE, MaxStops = 0
             PROVE  Spec => []NoStepSkipped
  OBVIOUS
<1>1. Init => CInv /\ SInv
  BY CompleteInitially, SkipInitially
<1>2. IInv /\ CInv /\ SInv /\ [Next]_vars => CInv' /\ SInv'
  BY CompleteInductive, SkipInductive
<1>3. SInv => NoStepSkipped
  BY DEF SInv
<1>4. QED
  BY <1>1, <1>2, <1>3, Invariance, PTL DEF Spec
=============================================================================
