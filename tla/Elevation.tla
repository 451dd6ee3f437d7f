------------------------------ MODULE Elevation ------------------------------
(***************************************************************************)
(* What the service promises about elevations: a request is asked for by   *)
(* an eligible user, then opened by a permanent administrator or left to   *)
(* lapse; an open grant is closed once.  Opening a grant puts its user     *)
(* into the admin group, closing it takes him out, and nothing else        *)
(* touches the group.                                                      *)
(***************************************************************************)
CONSTANTS User, Req, Null, Eligible, Permanent

VARIABLES grant,   \* per request: Null, or who asked, who opened, and its state
          member   \* users in the admin group

vars == <<grant, member>>

Init == grant = [r \in Req |-> Null] /\ member = {}

In(r, state) == grant[r] # Null /\ grant[r].state = state

Ask(r, u) ==
  /\ grant[r] = Null /\ u \in Eligible
  /\ grant' = [grant EXCEPT ![r] = [user |-> u, by |-> Null, state |-> "asked"]]
  /\ UNCHANGED member

Lapse(r) ==
  /\ In(r, "asked")
  /\ grant' = [grant EXCEPT ![r].state = "lapsed"]
  /\ UNCHANGED member

Open(r, a) ==
  /\ In(r, "asked") /\ a \in Permanent
  /\ grant' = [grant EXCEPT ![r] = [user |-> grant[r].user, by |-> a, state |-> "open"]]
  /\ member' = member \cup {grant[r].user}

Close(r) ==
  /\ In(r, "open")
  /\ grant' = [grant EXCEPT ![r].state = "closed"]
  /\ member' = member \ {grant[r].user}

Next == \E r \in Req : \/ \E u \in User : Ask(r, u)
                       \/ \E a \in User : Open(r, a)
                       \/ Lapse(r) \/ Close(r)

Spec == Init /\ [][Next]_vars
=============================================================================
