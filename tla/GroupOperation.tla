---------------------------- MODULE GroupOperation ----------------------------
(***************************************************************************)
(* What the rest of the service takes an operation of the Keycloak client  *)
(* to be: one step that asks, one that answers, and with the answer, or    *)
(* never, the only effect on the group.  The three answers are the three   *)
(* outcomes that JitAccess gives a group call (KeycloakOk, KeycloakError). *)
(***************************************************************************)
CONSTANTS Proc

VARIABLES
  busy,     \* goroutines with an operation under way
  op,       \* each one's operation, or its last one
  effect,   \* did that operation change the group?
  result    \* what it returned

vars == <<busy, op, effect, result>>

Op == {"InGroup", "AddToGroup", "RemoveFromGroup"}

Init == /\ busy = {}
        /\ op = [p \in Proc |-> "InGroup"]
        /\ effect = [p \in Proc |-> FALSE]
        /\ result = [p \in Proc |-> "none"]

Ask(p, o) ==
  /\ p \notin busy
  /\ busy' = busy \cup {p}
  /\ op' = [op EXCEPT ![p] = o]
  /\ effect' = [effect EXCEPT ![p] = FALSE]
  /\ result' = [result EXCEPT ![p] = "none"]

Answer(p, changed, res) ==
  /\ p \in busy
  /\ busy' = busy \ {p}
  /\ effect' = [effect EXCEPT ![p] = changed]
  /\ result' = [result EXCEPT ![p] = res]
  /\ UNCHANGED op

Done(p) == Answer(p, op[p] # "InGroup", "ok")

Refused(p) == Answer(p, FALSE, "error")

Lost(p) == op[p] # "InGroup" /\ Answer(p, TRUE, "error")

(* The process ends. *)
End == /\ busy' = {}
       /\ op' = [p \in Proc |-> "InGroup"]
       /\ effect' = [p \in Proc |-> FALSE]
       /\ result' = [p \in Proc |-> "none"]

Next == \/ \E p \in Proc : \/ \E o \in Op : Ask(p, o)
                           \/ Done(p) \/ Refused(p) \/ Lost(p)
        \/ End

Spec == Init /\ [][Next]_vars
=============================================================================
