------------------------------ MODULE JitAccess ------------------------------
(***************************************************************************)
(* The access service: the HTTP handlers of internal/api, the reconciler   *)
(* that main runs at start and internal/worker runs on every tick, and     *)
(* what they share: the request store, the notifier and the membership of  *)
(* the Keycloak group admin-active.                                        *)
(*                                                                         *)
(* A step is the code between two effects another goroutine can observe: a *)
(* database statement, a Keycloak call, a webhook post or a clock reading. *)
(* A handler keeps its copy of the row (row[p]) across these steps; nothing *)
(* in the code takes a lock over more than one of them.                    *)
(*                                                                         *)
(* Keycloak is external.  A group call succeeds, is refused without effect *)
(* ("refused"), or takes effect while its answer is lost ("lost").         *)
(***************************************************************************)
EXTENDS RequestStore, FiniteSets

CONSTANTS
  Slot,        \* HTTP handlers that may run at the same time
  Worker,      \* the goroutine that reconciles
  Eligible, Permanent, BreakGlass,  \* members of the role groups
  RequestTTL, ActiveTTL,            \* config.RequestTTL, config.ActiveTTL
  KcFaults,    \* the ways a Keycloak group call may fail
  DbFaults,    \* may a database write or a reconciler query fail?
  Webhook,     \* is config.NotifyWebhookURL set?
  Removals,    \* users the realm's administrator may take out of admin-active
  Isolated,    \* environment: no two operations on one user's requests overlap
  MaxTime,     \* bound on the clock
  MaxStops,    \* bound on process ends
  MaxPerUser   \* bound on the requests of one user

Proc == Slot \cup {Worker}

Kind == {"pending_approvers", "approved_requester", "expired_requester",
         "released_early_release", "released_expire"}

Note == Req \X Kind

ASSUME ConfigAssumption ==
  /\ Worker \notin Slot
  /\ Eligible \subseteq User /\ Permanent \subseteq User
  /\ BreakGlass \subseteq User /\ Removals \subseteq User
  /\ RequestTTL \in Nat /\ ActiveTTL \in Nat
  /\ KcFaults \subseteq {"refused", "lost"}
  /\ {DbFaults, Webhook, Isolated} \subseteq BOOLEAN
  /\ MaxTime \in Nat /\ MaxStops \in Nat /\ MaxPerUser \in Nat
  /\ Null \notin Note

VARIABLES
  notified, posting, posts, delivered,  \* the notifier
  member,   \* users in admin-active
  now,      \* the clock
  server,   \* "down", "booting" (startup reconcile) or "serving"
  stops,    \* process ends so far
  pc,       \* where each goroutine is
  row,      \* its copy of a row of the requests table
  actor,    \* the authenticated user of a handler, Null for ""
  flag,     \* the break-glass flag a handler has looked up
  at,       \* the time a reconcile took at its start
  todo      \* the rows of its query it has not handled yet

N == INSTANCE Notifier

storeVars == <<requests, audit>>
noteVars == <<notified, posting, posts, delivered>>
envVars == <<now, server, stops>>
procVars == <<pc, row, actor, flag>>
sweepVars == <<at, todo>>
vars == <<storeVars, noteVars, member, envVars, procVars, sweepVars>>

-----------------------------------------------------------------------------
(* What a goroutine works on at each program point: the status its copy    *)
(* has there.  At "idle", "expire" and "revoke" it holds no row; "post" is *)
(* shared by all notifications.                                            *)
NoRow == {"idle", "expire", "revoke"}

PhaseStatus ==
  [create_audit |-> "pending", create_notify |-> "pending",
   approve_decide |-> "pending", approve_add |-> "approved",
   approve_store |-> "approved", approve_audit |-> "approved",
   approve_audit_grant |-> "approved", approve_notify |-> "approved",
   expire_store |-> "expired", expire_audit |-> "expired",
   expire_notify |-> "expired",
   release_remove |-> "approved", release_store |-> "approved",
   release_audit |-> "released", release_notify |-> "released",
   revoke_store |-> "approved", revoke_audit |-> "released",
   revoke_notify |-> "released"]

Phase == NoRow \cup DOMAIN PhaseStatus \cup {"post"}

TypeOK ==
  /\ requests \in [Req -> Row \cup {Null}]
  /\ audit \subseteq Event
  /\ N!TypeOK
  /\ member \subseteq User
  /\ now \in Nat
  /\ server \in {"down", "booting", "serving"}
  /\ stops \in Nat
  /\ pc \in [Proc -> Phase]
  /\ row \in [Proc -> Row \cup {Null}]
  /\ actor \in [Proc -> User \cup {Null}]
  /\ flag \in [Proc -> BOOLEAN]
  /\ at \in Nat
  /\ todo \subseteq Row

Init ==
  /\ requests = [r \in Req |-> Null]
  /\ audit = {}
  /\ N!Init
  /\ member = {}
  /\ now = 0
  /\ server = "down"
  /\ stops = 0
  /\ pc = [p \in Proc |-> "idle"]
  /\ row = [p \in Proc |-> Null]
  /\ actor = [p \in Proc |-> Null]
  /\ flag = [p \in Proc |-> FALSE]
  /\ at = 0
  /\ todo = {}

-----------------------------------------------------------------------------
(* The users a goroutine is working for, and the environment restriction.  *)
Held(p) == {x.user : x \in ({row[p]} \ {Null})
                           \cup (IF p = Worker THEN todo ELSE {})}

Alone(p, users) == Isolated => \A q \in Proc \ {p} : Held(q) \cap users = {}

Goto(p, phase) == pc' = [pc EXCEPT ![p] = phase]

(* A handler is over, or the reconciler turns to its next row. *)
Resume(p) == IF p # Worker THEN "idle"
             ELSE IF row[p].status = "expired" THEN "expire" ELSE "revoke"

Finish(p) ==
  /\ Goto(p, Resume(p))
  /\ row' = [row EXCEPT ![p] = Null]
  /\ actor' = [actor EXCEPT ![p] = Null]
  /\ flag' = [flag EXCEPT ![p] = FALSE]

(* A Keycloak group call that leaves admin-active as members: the answer  *)
(* 2xx, or an error with or without the effect.                            *)
KeycloakOkUnchecked(members) ==        \* mutant: an error goes unnoticed
  member' = members \/ ("refused" \in KcFaults /\ member' = member)

KeycloakOk(members) == member' = members

KeycloakError(members) == \/ "refused" \in KcFaults /\ member' = member
                          \/ "lost" \in KcFaults /\ member' = members

(* The answer to InGroup(u, BreakGlass) when its error is discarded. *)
BreakGlassFlag(u) ==
  {u \in BreakGlass} \cup (IF KcFaults = {} THEN {} ELSE {FALSE})

AuditNamedOnly(action, who, r, bg) ==  \* mutant: "system" is not recorded
  IF who = "system" THEN UNCHANGED audit ELSE AppendAudit(action, who, r, bg)

AuditBusy(action, who, r, bg) ==       \* mutant: lost while others are at work
  IF Cardinality({p \in Proc : row[p] # Null}) > 1
  THEN UNCHANGED audit ELSE AppendAudit(action, who, r, bg)

(* audit(...): the result of the insert is discarded by every caller. *)
Audit(action, who, r, bg) ==
  \/ AppendAudit(action, who, r, bg)
  \/ DbFaults /\ UNCHANGED audit

(* A notify.* call on the goroutine's row: marked and about to post, or    *)
(* not sent because the webhook is off, the note is marked already, or the *)
(* insert failed.                                                          *)
Notify(p, kind) ==
  LET n == <<row[p].id, kind>> IN
  /\ \/ Webhook /\ N!Mark(p, n) /\ Goto(p, "post")
        /\ UNCHANGED <<row, actor, flag>>
     \/ ~Webhook /\ Finish(p) /\ UNCHANGED noteVars
     \/ Webhook /\ ~N!FirstTime(n) /\ Finish(p) /\ UNCHANGED noteVars
     \/ Webhook /\ DbFaults /\ Finish(p) /\ UNCHANGED noteVars
  /\ UNCHANGED <<storeVars, member, envVars, sweepVars>>

Post(p) ==
  /\ pc[p] = "post"
  /\ N!Post(p)
  /\ Finish(p)
  /\ UNCHANGED <<storeVars, member, envVars, sweepVars>>

-----------------------------------------------------------------------------
(* POST /api/v1/requests.  a is the session's user, Null without a session:   *)
(* then the body names the user.  The clock is read and the row inserted   *)
(* after the only Keycloak call that can stop the handler.                 *)
HandleCreate(s, a, u, r) ==
  /\ server = "serving" /\ pc[s] = "idle"
  /\ a \in {Null, u} /\ u \in Eligible
  /\ requests[r] = Null
  /\ Cardinality({x \in Rows : x.user = u}) < MaxPerUser
  /\ Alone(s, {u})
  /\ Create(NewRow(r, u, now + RequestTTL))
  /\ row' = [row EXCEPT ![s] = NewRow(r, u, now + RequestTTL)]
  /\ actor' = [actor EXCEPT ![s] = a]
  /\ Goto(s, "create_audit")
  /\ UNCHANGED <<audit, noteVars, member, envVars, flag, sweepVars>>

CreateAudit(s) ==
  /\ pc[s] = "create_audit"
  /\ \E bg \in BreakGlassFlag(row[s].user) :
       Audit("request_created", actor[s], row[s].id, bg)
  /\ Goto(s, "create_notify")
  /\ UNCHANGED <<requests, noteVars, member, envVars, row, actor, flag, sweepVars>>

CreateNotify(s) == pc[s] = "create_notify" /\ Notify(s, "pending_approvers")

-----------------------------------------------------------------------------
ApprovableAny(x) == x.status \in {"pending", "approved"}  \* mutant: a weaker check

Approvable(x) == x.status = "pending"

(* POST /api/v1/requests/{id}/approve, up to the status check on its copy. *)
HandleApprove(s, a, r) ==
  /\ server = "serving" /\ pc[s] = "idle"
  /\ a \in Permanent
  /\ requests[r] # Null /\ Approvable(requests[r])
  /\ Alone(s, {requests[r].user})
  /\ row' = [row EXCEPT ![s] = requests[r]]
  /\ actor' = [actor EXCEPT ![s] = a]
  /\ Goto(s, "approve_decide")
  /\ UNCHANGED <<storeVars, noteVars, member, envVars, flag, sweepVars>>

(* now.After(req.RequestExpiresAt) *)
TooLate(x) == now > x.requestExpiresAt

Approved(x, who) == [x EXCEPT !.status = "approved", !.approvedAt = now,
                              !.approvedBy = who, !.activeExpiresAt = now + ActiveTTL]

(* The clock is read: the copy becomes the row this handler will write. *)
ApproveDecide(s) ==
  /\ pc[s] = "approve_decide"
  /\ \/ /\ TooLate(row[s])
        /\ row' = [row EXCEPT ![s].status = "expired"]
        /\ Goto(s, "expire_store")
     \/ /\ ~TooLate(row[s])
        /\ row' = [row EXCEPT ![s] = Approved(row[s], actor[s])]
        /\ Goto(s, "approve_add")
  /\ UNCHANGED <<storeVars, noteVars, member, envVars, actor, flag, sweepVars>>

ExpireStoreForgotten(s) ==             \* mutant: the copy is not written
  /\ pc[s] = "expire_store"
  /\ Goto(s, "expire_audit")
  /\ UNCHANGED <<storeVars, noteVars, member, envVars, row, actor, flag, sweepVars>>

(* The expiry branch writes the copy, and goes on if the write fails. *)
ExpireStore(s) ==
  /\ pc[s] = "expire_store"
  /\ \/ Update(row[s])
     \/ DbFaults /\ UNCHANGED requests
  /\ Goto(s, "expire_audit")
  /\ UNCHANGED <<audit, noteVars, member, envVars, row, actor, flag, sweepVars>>

ApproveAdd(s) ==
  LET added == member \cup {row[s].user} IN
  /\ pc[s] = "approve_add"
  /\ \/ KeycloakOk(added) /\ Goto(s, "approve_store") /\ UNCHANGED <<row, actor, flag>>
     \/ KeycloakError(added) /\ Finish(s)
  /\ UNCHANGED <<storeVars, noteVars, envVars, sweepVars>>

ApproveStoreUnchecked(s) ==           \* mutant: a failed write is ignored
  /\ pc[s] = "approve_store"
  /\ Update(row[s]) \/ (DbFaults /\ UNCHANGED requests)
  /\ Goto(s, "approve_audit")
  /\ UNCHANGED <<audit, noteVars, member, envVars, row, actor, flag, sweepVars>>

(* A failed write answers 500; the user stays in the group. *)
ApproveStore(s) ==
  /\ pc[s] = "approve_store"
  /\ \/ Update(row[s]) /\ Goto(s, "approve_audit") /\ UNCHANGED <<row, actor, flag>>
     \/ DbFaults /\ UNCHANGED requests /\ Finish(s)
  /\ UNCHANGED <<audit, noteVars, member, envVars, sweepVars>>

ApproveAudit(s) ==
  /\ pc[s] = "approve_audit"
  /\ \E bg \in BreakGlassFlag(actor[s]) :
       /\ Audit("request_approved", actor[s], row[s].id, bg)
       /\ flag' = [flag EXCEPT ![s] = bg]
  /\ Goto(s, "approve_audit_grant")
  /\ UNCHANGED <<requests, noteVars, member, envVars, row, actor, sweepVars>>

ApproveAuditGrant(s) ==
  /\ pc[s] = "approve_audit_grant"
  /\ Audit("grant_active", actor[s], row[s].id, flag[s])
  /\ Goto(s, "approve_notify")
  /\ UNCHANGED <<requests, noteVars, member, envVars, row, actor, flag, sweepVars>>

ApproveNotify(s) == pc[s] = "approve_notify" /\ Notify(s, "approved_requester")

-----------------------------------------------------------------------------
ReleasableAny(x) == x.status # "pending"  \* mutant: a weaker check

Releasable(x) == x.status = "approved"

(* POST /api/v1/requests/{id}/release: no session, the subject, or a permanent *)
(* administrator.                                                           *)
HandleRelease(s, a, r) ==
  /\ server = "serving" /\ pc[s] = "idle"
  /\ requests[r] # Null /\ Releasable(requests[r])
  /\ a \in {Null, requests[r].user} \cup Permanent
  /\ Alone(s, {requests[r].user})
  /\ row' = [row EXCEPT ![s] = requests[r]]
  /\ actor' = [actor EXCEPT ![s] = a]
  /\ Goto(s, "release_remove")
  /\ UNCHANGED <<storeVars, noteVars, member, envVars, flag, sweepVars>>

ReleaseRemove(s) ==
  LET removed == member \ {row[s].user} IN
  /\ pc[s] = "release_remove"
  /\ \/ KeycloakOk(removed) /\ Goto(s, "release_store") /\ UNCHANGED <<row, actor, flag>>
     \/ KeycloakError(removed) /\ Finish(s)
  /\ UNCHANGED <<storeVars, noteVars, envVars, sweepVars>>

Released(x) == [x EXCEPT !.status = "released", !.releasedAt = now]

(* The write that ends a grant, by a handler or by the reconciler. *)
EndStore(p, next) ==
  /\ \/ /\ Update(Released(row[p]))
        /\ row' = [row EXCEPT ![p] = Released(row[p])]
        /\ Goto(p, next) /\ UNCHANGED <<actor, flag>>
     \/ DbFaults /\ UNCHANGED requests /\ Finish(p)
  /\ UNCHANGED <<audit, noteVars, member, envVars, sweepVars>>

ReleaseStore(s) == pc[s] = "release_store" /\ EndStore(s, "release_audit")

ReleaseAudit(s) ==
  /\ pc[s] = "release_audit"
  /\ Audit("early_release", IF actor[s] = Null THEN "system" ELSE actor[s],
           row[s].id, FALSE)
  /\ Goto(s, "release_notify")
  /\ UNCHANGED <<requests, noteVars, member, envVars, row, actor, flag, sweepVars>>

ReleaseNotify(s) == pc[s] = "release_notify" /\ Notify(s, "released_early_release")

(* GET /api/v1/me by a break-glass user: the only read that writes. *)
HandleMe(a) ==
  /\ server = "serving"
  /\ TRUE \in BreakGlassFlag(a)
  /\ Audit("break_glass_session", a, Null, TRUE)
  /\ UNCHANGED <<requests, noteVars, member, envVars, procVars, sweepVars>>

-----------------------------------------------------------------------------
(* Reconcile: one reading of the clock, then the requests whose time ran   *)
(* out, then the grants.                                                   *)
Reconcile ==
  /\ server # "down" /\ pc[Worker] = "idle"
  /\ Alone(Worker, {x.user : x \in PendingExpired(now)})
  /\ at' = now
  /\ todo' = PendingExpired(now)
  /\ Goto(Worker, "expire")
  /\ UNCHANGED <<storeVars, noteVars, member, envVars, row, actor, flag>>

ExpireRow(x) ==
  LET y == [x EXCEPT !.status = "expired"] IN
  /\ pc[Worker] = "expire" /\ x \in todo
  /\ todo' = todo \ {x}
  /\ \/ Update(y) /\ Goto(Worker, "expire_audit") /\ row' = [row EXCEPT ![Worker] = y]
     \/ DbFaults /\ UNCHANGED <<requests, pc, row>>
  /\ UNCHANGED <<audit, noteVars, member, envVars, actor, flag, at>>

(* Shared by the reconciler and the expiry branch of handleApprove. *)
ExpireAudit(p) ==
  /\ pc[p] = "expire_audit"
  /\ Audit("request_expired", "system", row[p].id, FALSE)
  /\ Goto(p, "expire_notify")
  /\ UNCHANGED <<requests, noteVars, member, envVars, row, actor, flag, sweepVars>>

ExpireNotify(p) == pc[p] = "expire_notify" /\ Notify(p, "expired_requester")

ReconcileActive ==
  /\ pc[Worker] = "expire" /\ todo = {}
  /\ Alone(Worker, {x.user : x \in ActiveExpired(at)})
  /\ todo' = ActiveExpired(at)
  /\ at' = 0                     \* its last use
  /\ Goto(Worker, "revoke")
  /\ UNCHANGED <<storeVars, noteVars, member, envVars, row, actor, flag>>

(* A group removal that fails leaves the row for the next tick. *)
RevokeRow(x) ==
  LET removed == member \ {x.user} IN
  /\ pc[Worker] = "revoke" /\ x \in todo
  /\ todo' = todo \ {x}
  /\ \/ /\ KeycloakOk(removed)
        /\ Goto(Worker, "revoke_store") /\ row' = [row EXCEPT ![Worker] = x]
     \/ KeycloakError(removed) /\ UNCHANGED <<pc, row>>
  /\ UNCHANGED <<storeVars, noteVars, envVars, actor, flag, at>>

RevokeStore == pc[Worker] = "revoke_store" /\ EndStore(Worker, "revoke_audit")

RevokeAudit ==
  /\ pc[Worker] = "revoke_audit"
  /\ Audit("grant_expired", "system", row[Worker].id, FALSE)
  /\ Goto(Worker, "revoke_notify")
  /\ UNCHANGED <<requests, noteVars, member, envVars, row, actor, flag, sweepVars>>

RevokeNotify == pc[Worker] = "revoke_notify" /\ Notify(Worker, "released_expire")

(* The end of a reconcile: its rows are done, or one of its two queries     *)
(* failed.  main starts the HTTP server after the first one either way.    *)
ReconcileReturn ==
  /\ \/ pc[Worker] = "revoke" /\ todo = {}
     \/ DbFaults /\ pc[Worker] = "expire" /\ todo = {}
     \/ DbFaults /\ pc[Worker] = "idle" /\ server = "booting"
  /\ Goto(Worker, "idle")
  /\ at' = 0 /\ todo' = {}
  /\ server' = "serving"
  /\ UNCHANGED <<storeVars, noteVars, member, now, stops, row, actor, flag>>

-----------------------------------------------------------------------------
(* The process starts, ends (a crash, or the end of main while handlers or *)
(* the worker are under way), time passes, and an administrator takes a    *)
(* user out of admin-active in Keycloak itself.                            *)
Start ==
  /\ server = "down"
  /\ server' = "booting"
  /\ UNCHANGED <<storeVars, noteVars, member, now, stops, procVars, sweepVars>>

Stop ==
  /\ server # "down" /\ stops < MaxStops
  /\ server' = "down" /\ stops' = stops + 1
  /\ pc' = [p \in Proc |-> "idle"]
  /\ row' = [p \in Proc |-> Null]
  /\ actor' = [p \in Proc |-> Null]
  /\ flag' = [p \in Proc |-> FALSE]
  /\ at' = 0 /\ todo' = {}
  /\ N!Crash
  /\ UNCHANGED <<storeVars, member, now>>

Tick ==
  /\ now < MaxTime
  /\ now' = now + 1
  /\ UNCHANGED <<storeVars, noteVars, member, server, stops, procVars, sweepVars>>

RealmRemove(u) ==
  /\ u \in member
  /\ member' = member \ {u}
  /\ UNCHANGED <<storeVars, noteVars, envVars, procVars, sweepVars>>

-----------------------------------------------------------------------------
(* What a handler does once its request is in. *)
HandlerStep(s) ==
  \/ CreateAudit(s) \/ CreateNotify(s)
  \/ ApproveDecide(s) \/ ExpireStore(s) \/ ExpireAudit(s) \/ ExpireNotify(s)
  \/ ApproveAdd(s) \/ ApproveStore(s) \/ ApproveAudit(s)
  \/ ApproveAuditGrant(s) \/ ApproveNotify(s)
  \/ ReleaseRemove(s) \/ ReleaseStore(s) \/ ReleaseAudit(s) \/ ReleaseNotify(s)
  \/ Post(s)

ReconcileStep ==
  \/ Reconcile
  \/ \E x \in todo : ExpireRow(x) \/ RevokeRow(x)
  \/ ExpireAudit(Worker) \/ ExpireNotify(Worker)
  \/ ReconcileActive
  \/ RevokeStore \/ RevokeAudit \/ RevokeNotify
  \/ Post(Worker)
  \/ ReconcileReturn

Next ==
  \/ \E s \in Slot, r \in Req :
       \/ \E a \in User \cup {Null}, u \in User : HandleCreate(s, a, u, r)
       \/ \E a \in User : HandleApprove(s, a, r)
       \/ \E a \in User \cup {Null} : HandleRelease(s, a, r)
  \/ \E a \in User : HandleMe(a)
  \/ \E s \in Slot : HandlerStep(s)
  \/ ReconcileStep
  \/ Start \/ Stop \/ Tick
  \/ \E u \in Removals : RealmRemove(u)

Spec == Init /\ [][Next]_vars

-----------------------------------------------------------------------------
(* Whatever handlers and reconciler interleave and wherever the process    *)
(* ends, a stored row is one that some single transition produced: the     *)
(* columns of a grant are all there or all NULL, its approver was a        *)
(* permanent administrator, its request had not timed out when it was      *)
(* approved, its end is ActiveTTL after its start, and no request is       *)
(* expired before its time.  Update rewrites the whole row from copies     *)
(* that may be stale; this is what keeps that from mixing two of them.     *)
Coherent(x) ==
  /\ x.status \in {"pending", "expired"} =>
       {x.approvedAt, x.approvedBy, x.activeExpiresAt} = {Null}
  /\ x.status \in {"approved", "released"} =>
       /\ x.approvedBy \in Permanent
       /\ x.approvedAt \in Nat
       /\ x.approvedAt <= x.requestExpiresAt /\ x.approvedAt <= now
       /\ x.activeExpiresAt = x.approvedAt + ActiveTTL
  /\ x.status # "released" => x.releasedAt = Null
  /\ x.status = "released" => x.releasedAt \in x.approvedAt .. now
  /\ x.status = "expired" => x.requestExpiresAt <= now

RowsCoherent == \A x \in Rows : Coherent(x)

(* A goroutine's copy fits the place it is at: it has the status that place *)
(* works on, it is coherent itself, and it agrees with the stored row on    *)
(* the columns no statement changes.  The rows of a query fit likewise.     *)
SameRequest(x) == /\ requests[x.id] # Null
                  /\ requests[x.id].user = x.user
                  /\ requests[x.id].requestExpiresAt = x.requestExpiresAt

Fits(x) == Coherent(x) /\ SameRequest(x)

TodoStatus == IF \/ pc[Worker] = "expire"
                 \/ row[Worker] # Null /\ row[Worker].status = "expired"
              THEN "pending" ELSE "approved"

CopyFits(p) ==
  /\ pc[p] \in NoRow <=> row[p] = Null
  /\ row[p] # Null => Fits(row[p])
  /\ pc[p] \in DOMAIN PhaseStatus => row[p].status = PhaseStatus[pc[p]]

TodoFits(x) ==
  /\ Fits(x)
  /\ x.status = TodoStatus
  /\ x.status = "pending" => x.requestExpiresAt <= now

CopiesFit ==
  /\ \A p \in Proc : CopyFits(p)
  /\ \A x \in todo : TodoFits(x)
  /\ pc[Worker] = "idle" => todo = {}

(* The ledger never tells of a transition the table did not make: an event *)
(* about a grant or its end is written after the row left pending, and the *)
(* audit of a request's expiry only once the table says expired or another *)
(* handler has overwritten that.  A failed write allows one exception: the *)
(* expiry branch of handleApprove ignores it and audits the expiry anyway. *)
LeftPending == {"request_approved", "grant_active", "early_release", "grant_expired"}
                 \cup IF DbFaults THEN {} ELSE {"request_expired"}

AuditNeverAhead ==
  \A e \in audit : e.req # Null =>
    /\ requests[e.req] # Null
    /\ e.action \in LeftPending => requests[e.req].status # "pending"

(* Nor does a message to the webhook: whoever is told of an approval or an  *)
(* end is told of a request that has left pending, and of an expiry too    *)
(* where its write cannot have failed.                                     *)
LeftPendingKind == {"approved_requester", "released_early_release", "released_expire"}
                     \cup IF DbFaults THEN {} ELSE {"expired_requester"}

NoticeNeverAhead ==
  \A n \in notified : n[2] \in LeftPendingKind =>
    requests[n[1]] # Null /\ requests[n[1]].status # "pending"

(* While the process lives and writes succeed, the ledger accounts for the *)
(* table: the status a row has now is on record with its approver, or the  *)
(* goroutine that gave it that status is about to record it.               *)
Recorded(x) ==
  LET Logged(actions) == \E e \in audit : e.req = x.id /\ e.action \in actions
      Writing(phases) == \E p \in Proc : pc[p] \in phases /\ row[p].id = x.id
  IN CASE x.status = "pending" -> Logged({"request_created"}) \/ Writing({"create_audit"})
       [] x.status = "expired" -> Logged({"request_expired"}) \/ Writing({"expire_audit"})
       [] x.status = "released" -> \/ Logged({"early_release", "grant_expired"})
                                  \/ Writing({"release_audit", "revoke_audit"})
       [] x.status = "approved" ->
            \/ \E e \in audit : /\ e.action = "request_approved" /\ e.req = x.id
                                /\ e.actor = x.approvedBy
            \/ \E s \in Slot : /\ pc[s] = "approve_audit" /\ row[s].id = x.id
                               /\ actor[s] = x.approvedBy

LedgerComplete == \A x \in Rows : Recorded(x)

(* Nor does it skip a step.  Whatever is on record about a request, its     *)
(* creation is too, or its creator stands at the call that records it; an   *)
(* end is preceded in the same sense by somebody's approval; and a grant is *)
(* recorded by an approver whose approval is.  A handler can be overtaken   *)
(* between its write and its event by one that works on the row it wrote.   *)
OnRecord(r, action, place) ==
  \/ \E e \in audit : e.req = r /\ e.action = action
  \/ \E p \in Proc : pc[p] = place /\ row[p].id = r

EndEvent == {"early_release", "grant_expired"}

NoStepSkipped ==
  \A e \in audit : e.req # Null =>
    /\ OnRecord(e.req, "request_created", "create_audit")
    /\ e.action \in EndEvent => OnRecord(e.req, "request_approved", "approve_audit")
    /\ e.action = "grant_active" =>
         \E d \in audit : /\ d.action = "request_approved"
                          /\ d.req = e.req /\ d.actor = e.actor

(* A grant ends once in the ledger: whoever is about to record an end finds *)
(* none on record.  (Two goroutines that end one grant at the same time do  *)
(* record it twice; the property is about operations that do not overlap.)  *)
EndsOnce ==
  \A p \in Proc, e \in audit :
    pc[p] \in {"release_audit", "revoke_audit"} /\ e.req = row[p].id =>
      e.action \notin EndEvent

(* Between reading a request and writing it, a goroutine works on a copy.   *)
(* Nothing keeps two from working on the same request at a time; OneWriter  *)
(* says that in a state they do not.                                       *)
WritePhase == {"approve_decide", "approve_add", "approve_store", "expire_store",
               "release_remove", "release_store", "revoke_store"}

WorksOn(p, r) == \/ pc[p] \in WritePhase /\ row[p].id = r
                 \/ p = Worker /\ \E x \in todo : x.id = r

OneWriter ==
  \A r \in Req : \A p, q \in Proc : WorksOn(p, r) /\ WorksOn(q, r) => p = q

(* Is some goroutine in the middle of an operation on one of u's requests? *)
Busy(u) == \E p \in Proc : u \in Held(p)

(* Reconciliation leaves no orphaned standing access: whoever is in        *)
(* admin-active while no operation on his requests is under way has a      *)
(* request left that release, approval or a later reconcile still acts on. *)
(* Without one nothing in the program would ever take him out.             *)
NoStandingAccess ==
  \A u \in member : \/ Busy(u)
                    \/ \E x \in Rows : x.user = u /\ x.status \in {"pending", "approved"}

(* Membership follows the table: outside the window between an approval's  *)
(* group call and its write, every member has an approved row.             *)
NoOrphan ==
  \A u \in member :
    \/ \E x \in Rows : x.user = u /\ x.status = "approved"
    \/ \E s \in Slot : pc[s] = "approve_store" /\ row[s].user = u

(* Released means out: once the row of a user's only request says released *)
(* he is not in admin-active, whatever failed or ended on the way.         *)
ReleasedMeansOut == \A x \in Rows : x.status = "released" => x.user \notin member

(* The reconciler ends no grant before its term: a grant_expired event is  *)
(* about a released row whose term is over.                                *)
GrantRunsItsTerm ==
  \A e \in audit : e.action = "grant_expired" =>
    /\ requests[e.req].status = "released"
    /\ requests[e.req].activeExpiresAt <= now

(* The state machine of a request: pending, then approved or expired; then *)
(* approved, then released; and an approval is not replaced by another.    *)
LifecycleStep(x, y) ==
  \/ y = x
  \/ x.status = "pending" /\ y.status \in {"approved", "expired"}
  \/ x.status = "approved" /\ y.status = "released" /\ y.approvedAt = x.approvedAt

LifecycleOneWay ==
  [][\A r \in Req : requests[r] # Null => LifecycleStep(requests[r], requests'[r])]_vars

(* Once a request has been released it stays so. *)
ReleasedIsFinal ==
  [][\A x \in Rows : x.status = "released" => requests'[x.id].status = "released"]_vars

(* NotifyOnce keeps what it says of itself, "posts at most once per         *)
(* (requestID, kind)", for all who call it, across process ends.            *)
AtMostOnce == N!AtMostOnce

-----------------------------------------------------------------------------
(* Fairness.  The ticker and the Go scheduler run the worker again and      *)
(* again, the process is restarted when it ends, the clock advances, and a *)
(* handler that is in goes on (WF).  An outage of Keycloak or of the disk   *)
(* ends: a call that is tried for one row again and again succeeds once     *)
(* (SF).                                                                    *)
Fairness ==
  /\ WF_vars(Tick) /\ WF_vars(Start)
  /\ WF_vars(ReconcileStep)
  /\ \A s \in Slot : WF_vars(HandlerStep(s))
  /\ SF_vars(Reconcile) /\ SF_vars(ReconcileActive)
  /\ \A r \in Req :
       /\ SF_vars(\E x \in todo : x.id = r /\ ExpireRow(x) /\ requests' # requests)
       /\ SF_vars(\E x \in todo : x.id = r /\ RevokeRow(x) /\ row' # row)
       /\ SF_vars(row[Worker] # Null /\ row[Worker].id = r /\ RevokeStore
                    /\ pc'[Worker] = "revoke_audit")

FairSpec == Spec /\ Fairness

(* A request past its time does not stay pending, a grant past its time    *)
(* does not stay approved, and the access behind it ends, across restarts  *)
(* and outages: the worker's next tick tries again what failed.            *)
HasStatus(r, status) == requests[r] # Null /\ requests[r].status = status

TimedOut(r) == HasStatus(r, "pending") /\ requests[r].requestExpiresAt <= now

Lapsed(r) == HasStatus(r, "approved") /\ requests[r].activeExpiresAt <= now

PendingResolved == \A r \in Req : TimedOut(r) ~> ~HasStatus(r, "pending")

GrantEnds == \A r \in Req : Lapsed(r) ~> ~HasStatus(r, "approved")

AccessEnds ==
  \A r \in Req, u \in User :
    Lapsed(r) /\ requests[r].user = u ~> u \notin member
=============================================================================
