-------------------------- MODULE JitAccessElevation --------------------------
(***************************************************************************)
(* JitAccess implements Elevation as long as no two operations on one      *)
(* user's requests overlap, Keycloak calls either work or are refused, and *)
(* writes and the process do not fail.  The grant of the abstract          *)
(* specification opens with the group call of an approval, before the row  *)
(* says approved, and closes with the group call of a release or           *)
(* revocation.                                                             *)
(***************************************************************************)
EXTENDS JitAccess

At(phases, r) == \E p \in Proc : pc[p] \in phases /\ row[p].id = r

GrantState(x) ==
  CASE x.status = "pending" -> IF At({"approve_store"}, x.id) THEN "open" ELSE "asked"
    [] x.status = "approved" ->
         IF At({"release_store", "revoke_store"}, x.id) THEN "closed" ELSE "open"
    [] x.status = "released" -> "closed"
    [] x.status = "expired" -> "lapsed"

Approver(x) ==
  IF x.status = "pending" /\ At({"approve_store"}, x.id)
  THEN actor[CHOOSE s \in Slot : pc[s] = "approve_store" /\ row[s].id = x.id]
  ELSE x.approvedBy

ASSUME GrantAssumption ==
  Null \notin [user : User, by : User \cup {Null},
              state : {"asked", "open", "closed", "lapsed"}]

GrantOf(r) == IF requests[r] = Null THEN Null
              ELSE [user |-> requests[r].user, by |-> Approver(requests[r]),
                    state |-> GrantState(requests[r])]

E == INSTANCE Elevation WITH grant <- [r \in Req |-> GrantOf(r)]

(* Every step of the service is a step of the promise or changes nothing   *)
(* of it: whatever admin-active gains or loses is an approval by a         *)
(* permanent administrator or the end of such a grant, never both, never   *)
(* twice.                                                                  *)
ElevationSpec == E!Spec
=============================================================================
