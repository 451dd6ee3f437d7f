----------------------------- MODULE RequestStore -----------------------------
(***************************************************************************)
(* The SQLite store of internal/store: the requests table and the audit    *)
(* ledger, with the statements that read and write them.  The connection   *)
(* pool holds one connection (SetMaxOpenConns(1)), so each statement is    *)
(* atomic; nothing groups two statements in a transaction.                 *)
(*                                                                         *)
(* This module has no behaviour of its own: JitAccess runs the handlers    *)
(* that call it.  Null stands for SQL NULL, for the empty user name of a   *)
(* request without a session, and for "no row".                            *)
(***************************************************************************)
EXTENDS Naturals

CONSTANTS User,  \* user names of the realm
          Req,   \* request identifiers that newID can return
          Null

VARIABLES requests,  \* the requests table: Req -> Row, Null where no row is
          audit      \* the audit_events table, as a set of events

Status == {"pending", "approved", "expired", "released"}

Row == [id               : Req,
        user             : User,
        status           : Status,
        requestExpiresAt : Nat,
        approvedAt       : Nat \cup {Null},
        approvedBy       : User \cup {Null},
        activeExpiresAt  : Nat \cup {Null},
        releasedAt       : Nat \cup {Null}]

Action == {"request_created", "request_approved", "grant_active",
           "request_expired", "early_release", "grant_expired",
           "break_glass_session"}

Event == [action     : Action,
          actor      : User \cup {Null, "system"},
          req        : Req \cup {Null},
          breakGlass : BOOLEAN]

ASSUME NullAssumption == /\ Null \notin Row
                         /\ Null \notin Nat
                         /\ Null \notin User

-----------------------------------------------------------------------------
NewRowWithoutDeadline(r, u, deadline) ==  \* mutant
  [id |-> r, user |-> u, status |-> "pending", requestExpiresAt |-> Null,
   approvedAt |-> Null, approvedBy |-> Null, activeExpiresAt |-> Null,
   releasedAt |-> Null]

(* A request as handleCreate builds it: every later column is NULL. *)
NewRow(r, u, deadline) ==
  [id |-> r, user |-> u, status |-> "pending", requestExpiresAt |-> deadline,
   approvedAt |-> Null, approvedBy |-> Null, activeExpiresAt |-> Null,
   releasedAt |-> Null]

Rows == {requests[r] : r \in Req} \ {Null}

Create(x) == requests' = [requests EXCEPT ![x.id] = x]

UpdatedStatusOnly(x) == [requests[x.id] EXCEPT !.status = x.status]  \* mutant

(* UPDATE ... WHERE id = ?: every mutable column takes the caller's copy,  *)
(* whatever the row holds now; the immutable columns stay as stored.       *)
Updated(x) == [x EXCEPT !.user = requests[x.id].user,
                        !.requestExpiresAt = requests[x.id].requestExpiresAt]

Update(x) == requests' = [requests EXCEPT ![x.id] = Updated(x)]

PendingExpiredEarly(t) ==              \* mutant: off by one
  {x \in Rows : x.status = "pending" /\ x.requestExpiresAt <= t + 1}

PendingExpiredLate(t) ==               \* mutant: < for <=
  {x \in Rows : x.status = "pending" /\ x.requestExpiresAt < t}

PendingExpired(t) ==
  {x \in Rows : x.status = "pending" /\ x.requestExpiresAt <= t}

ActiveExpiredEarly(t) ==               \* mutant: off by one
  {x \in Rows : /\ x.status = "approved"
                /\ x.activeExpiresAt # Null
                /\ x.activeExpiresAt <= t + 1}

ActiveExpiredLate(t) ==                \* mutant: < for <=
  {x \in Rows : /\ x.status = "approved"
                /\ x.activeExpiresAt # Null
                /\ x.activeExpiresAt < t}

ActiveExpired(t) ==
  {x \in Rows : /\ x.status = "approved"
                /\ x.activeExpiresAt # Null
                /\ x.activeExpiresAt <= t}

AppendAudit(action, who, r, bg) ==
  audit' = audit \cup {[action |-> action, actor |-> who, req |-> r,
                        breakGlass |-> bg]}
=============================================================================
