------------------------ MODULE KeycloakClientProofs ------------------------
(***************************************************************************)
(* KeycloakClient for every number of goroutines and every lifetime of     *)
(* tokens, as long as the renewal margin is no shorter than the timeout of *)
(* an HTTP call.                                                           *)
(***************************************************************************)
EXTENDS KeycloakClient, TLAPS

(* A goroutine that fetches holds the mutex, finds no good token when it   *)
(* does, and has waited HttpTimeout at most.                               *)
FetchInv ==
  \A p \in Proc : pc[p] = "fetch" =>
    /\ mu = p /\ ~Fresh
    /\ asked[p] <= now /\ now <= asked[p] + HttpTimeout

(* The client's idea of a token's expiry is HttpTimeout late at most. *)
TokenInv == token # Null => token.expiry <= token.dies + HttpTimeout

(* An operation that is under way has returned nothing and changed nothing; *)
(* only those that change the group look up its id.                        *)
OpInv ==
  \A p \in Proc :
    /\ pc[p] # "idle" => result[p] = "none" /\ ~effect[p]
    /\ pc[p] \in {"group", "store"} \/ call[p] \in {"lookup", "change"}
         => op[p] # "InGroup"
    /\ call[p] = "groups" => op[p] = "InGroup"

IInv == TypeOK /\ FetchInv /\ TokenInv /\ OpInv /\ OkMeansDone

LEMMA InitIInv == Init => IInv
BY ClientAssumption
   DEF ClientAssumption, Init, IInv, TypeOK, FetchInv, TokenInv, OpInv, OkMeansDone, Op

LEMMA Typing == ASSUME TypeOK, [Next]_vars PROVE TypeOK'
<1> USE ClientAssumption DEF ClientAssumption, TypeOK, Op, Token
<1> USE DEF Goto, Call, Return, cacheVars, procVars
<1>1. ASSUME NEW p \in Proc, NEW o \in Op, Begin(p, o) PROVE TypeOK'
  BY <1>1 DEF Begin
<1>2. ASSUME NEW p \in Proc, TokenCached(p) PROVE TypeOK'
  BY <1>2 DEF TokenCached, Fresh
<1>3. ASSUME NEW p \in Proc, TokenFetch(p) PROVE TypeOK'
  BY <1>3 DEF TokenFetch
<1>4. ASSUME NEW p \in Proc, TokenFetched(p) PROVE TypeOK'
  <2>1. PICK life \in Lifetime, issued \in asked[p] .. now :
          /\ token' = [dies |-> issued + life, expiry |-> now + life]
          /\ bearer' = [bearer EXCEPT ![p] = token']
    BY <1>4 DEF TokenFetched
  <2>2. asked[p] \in Nat /\ life \in Nat
    OBVIOUS
  <2>3. token' \in Token
    BY <2>1, <2>2
  <2>4. bearer' \in [Proc -> Token \cup {Null}]
    BY <2>1, <2>3
  <2>5. QED
    BY <1>4, <2>3, <2>4 DEF TokenFetched
<1>5. ASSUME NEW p \in Proc, TokenFailed(p) PROVE TypeOK'
  BY <1>5 DEF TokenFailed
<1>6. ASSUME NEW p \in Proc, UserFound(p) PROVE TypeOK'
  BY <1>6 DEF UserFound, Accepted
<1>7. ASSUME NEW p \in Proc, GroupsFound(p) PROVE TypeOK'
  BY <1>7 DEF GroupsFound, Accepted
<1>8. ASSUME NEW p \in Proc, GroupCached(p) PROVE TypeOK'
  BY <1>8 DEF GroupCached
<1>9. ASSUME NEW p \in Proc, GroupFound(p) PROVE TypeOK'
  BY <1>9 DEF GroupFound, Accepted
<1>10. ASSUME NEW p \in Proc, GroupStore(p) PROVE TypeOK'
  BY <1>10 DEF GroupStore
<1>11. ASSUME NEW p \in Proc, Changed(p) PROVE TypeOK'
  BY <1>11 DEF Changed, Accepted
<1>12. ASSUME NEW p \in Proc, CallFailed(p) PROVE TypeOK'
  BY <1>12 DEF CallFailed
<1>13. CASE Tick
  BY <1>13 DEF Tick
<1>14. CASE Recreate
  BY <1>14 DEF Recreate
<1>15. CASE Restart
  BY <1>15 DEF Restart
<1>16. CASE UNCHANGED vars
  BY <1>16 DEF vars
<1>17. QED
  BY <1>1, <1>2, <1>3, <1>4, <1>5, <1>6, <1>7, <1>8, <1>9, <1>10, <1>11, <1>12,
     <1>13, <1>14, <1>15, <1>16 DEF Next, Locking, Answer

(* What a step does to the fetch of one goroutine q. *)
LEMMA FetchKept == ASSUME TypeOK, FetchInv, [Next]_vars PROVE FetchInv'
<1> SUFFICES ASSUME NEW q \in Proc, pc'[q] = "fetch"
             PROVE  /\ mu' = q /\ ~Fresh'
                    /\ asked'[q] <= now' /\ now' <= asked'[q] + HttpTimeout
  BY DEF FetchInv
<1> USE ClientAssumption DEF ClientAssumption, TypeOK, Goto, Call, Return
<1>0. pc[q] = "fetch" => /\ mu = q /\ ~Fresh
                         /\ asked[q] <= now /\ now <= asked[q] + HttpTimeout
  BY DEF FetchInv
<1>1. ASSUME NEW p \in Proc, TokenFetch(p)
      PROVE  /\ mu' = q /\ ~Fresh'
             /\ asked'[q] <= now' /\ now' <= asked'[q] + HttpTimeout
  <2>1. q = p
    BY <1>0, <1>1 DEF TokenFetch
  <2>2. QED
    BY <1>1, <2>1 DEF TokenFetch, Fresh
<1>2. ASSUME NEW p \in Proc, TokenFetched(p) \/ TokenFailed(p)
      PROVE  FALSE
  <2>1. pc[p] = "fetch" /\ pc'[p] # "fetch"
    BY <1>2 DEF TokenFetched, TokenFailed
  <2>2. pc[q] = "fetch" /\ q # p
    BY <1>2, <2>1 DEF TokenFetched, TokenFailed
  <2>3. mu = p /\ mu = q
    BY <2>1, <2>2 DEF FetchInv
  <2>4. QED
    BY <2>2, <2>3
<1>3. ASSUME pc[q] = "fetch", UNCHANGED <<mu, token>>, asked'[q] = asked[q],
             now' = now
      PROVE  /\ mu' = q /\ ~Fresh'
             /\ asked'[q] <= now' /\ now' <= asked'[q] + HttpTimeout
  BY <1>0, <1>3 DEF Fresh
<1>4. ASSUME NEW p \in Proc, NEW o \in Op, Begin(p, o)
      PROVE  pc[q] = "fetch" /\ UNCHANGED <<mu, token, asked, now>>
  BY <1>4 DEF Begin, cacheVars
<1>5. ASSUME NEW p \in Proc,
             TokenCached(p) \/ GroupCached(p) \/ GroupStore(p) \/ UserFound(p) \/ GroupFound(p)
      PROVE  pc[q] = "fetch" /\ UNCHANGED <<mu, token, asked, now>>
  BY <1>5 DEF TokenCached, GroupCached, GroupStore, UserFound, GroupFound, cacheVars
<1>6. ASSUME NEW p \in Proc, GroupsFound(p) \/ Changed(p) \/ CallFailed(p)
      PROVE  pc[q] = "fetch" /\ UNCHANGED <<mu, token, now>> /\ asked'[q] = asked[q]
  BY <1>6 DEF GroupsFound, Changed, CallFailed, Accepted, cacheVars
<1>7. CASE Tick
  <2>1. pc[q] = "fetch" /\ UNCHANGED <<mu, token, asked>>
    BY <1>7 DEF Tick, procVars, cacheVars
  <2>2. now' = now + 1 /\ now < asked[q] + HttpTimeout
    BY <1>7, <2>1 DEF Tick
  <2>3. ~Fresh'
    BY <1>0, <2>1, <2>2 DEF Fresh, Token
  <2>4. QED
    BY <1>0, <2>1, <2>2, <2>3
<1>8. CASE Recreate
  BY <1>3, <1>8 DEF Recreate, procVars, cacheVars
<1>9. CASE Restart
  BY <1>9 DEF Restart
<1>10. CASE UNCHANGED vars
  BY <1>3, <1>10 DEF vars, procVars, cacheVars
<1>11. QED
  BY <1>1, <1>2, <1>3, <1>4, <1>5, <1>6, <1>7, <1>8, <1>9, <1>10
     DEF Next, Locking, Answer

LEMMA TokenKept ==
  ASSUME TypeOK, FetchInv, TokenInv, [Next]_vars PROVE TokenInv'
<1>1. ASSUME NEW p \in Proc, TokenFetched(p) PROVE TokenInv'
  <2>1. PICK life \in Lifetime, issued \in asked[p] .. now :
          token' = [dies |-> issued + life, expiry |-> now + life]
    BY <1>1 DEF TokenFetched
  <2>2. /\ asked[p] \in Nat /\ life \in Nat /\ now \in Nat
        /\ HttpTimeout \in Nat /\ now <= asked[p] + HttpTimeout
    BY <1>1, ClientAssumption DEF TypeOK, ClientAssumption, FetchInv, TokenFetched
  <2>3. now + life <= issued + life + HttpTimeout
    BY <2>2
  <2>4. QED
    BY <2>1, <2>3 DEF TokenInv
<1>2. CASE token' = token \/ token' = Null
  BY <1>2 DEF TokenInv
<1>3. QED
  BY <1>1, <1>2
     DEF Next, Locking, Answer, Begin, TokenCached, TokenFetch, TokenFailed, UserFound,
         GroupsFound, GroupCached, GroupFound, GroupStore, Changed, CallFailed,
         Tick, Recreate, Restart, vars, cacheVars

LEMMA OpKept ==
  ASSUME TypeOK, OpInv, OkMeansDone, [Next]_vars PROVE OpInv' /\ OkMeansDone'
<1> SUFFICES ASSUME NEW q \in Proc
             PROVE  /\ pc'[q] # "idle" => result'[q] = "none" /\ ~effect'[q]
                    /\ pc'[q] \in {"group", "store"} \/ call'[q] \in {"lookup", "change"}
                         => op'[q] # "InGroup"
                    /\ call'[q] = "groups" => op'[q] = "InGroup"
                    /\ op'[q] # "InGroup" /\ result'[q] = "ok" => effect'[q]
                    /\ op'[q] = "InGroup" => ~effect'[q]
  BY DEF OpInv, OkMeansDone
<1> DEFINE Good == /\ pc[q] # "idle" => result[q] = "none" /\ ~effect[q]
                   /\ pc[q] \in {"group", "store"} \/ call[q] \in {"lookup", "change"}
                        => op[q] # "InGroup"
                   /\ call[q] = "groups" => op[q] = "InGroup"
                   /\ op[q] # "InGroup" /\ result[q] = "ok" => effect[q]
                   /\ op[q] = "InGroup" => ~effect[q]
<1>0. Good
  BY DEF OpInv, OkMeansDone
<1> SUFFICES Good'
  OBVIOUS
<1> USE <1>0 DEF TypeOK, Goto, Call, Return
<1>1. ASSUME NEW p \in Proc, NEW o \in Op, Begin(p, o) PROVE Good'
  BY <1>1 DEF Begin
<1>2. ASSUME NEW p \in Proc, TokenCached(p) \/ TokenFetch(p) \/ TokenFetched(p)
      PROVE  Good'
  BY <1>2 DEF TokenCached, TokenFetch, TokenFetched
<1>3. ASSUME NEW p \in Proc, TokenFailed(p) \/ CallFailed(p) PROVE Good'
  BY <1>3 DEF TokenFailed, CallFailed
<1>4. ASSUME NEW p \in Proc, UserFound(p) PROVE Good'
  BY <1>4 DEF UserFound, Accepted
<1>5. ASSUME NEW p \in Proc, GroupsFound(p) PROVE Good'
  BY <1>5 DEF GroupsFound, Accepted
<1>6. ASSUME NEW p \in Proc, GroupCached(p) \/ GroupFound(p) \/ GroupStore(p)
      PROVE  Good'
  BY <1>6 DEF GroupCached, GroupFound, GroupStore, Accepted
<1>7. ASSUME NEW p \in Proc, Changed(p) PROVE Good'
  BY <1>7 DEF Changed, Accepted
<1>8. CASE Restart
  BY <1>8 DEF Restart
<1>9. CASE Tick \/ Recreate \/ UNCHANGED vars
  BY <1>9 DEF Tick, Recreate, vars, procVars
<1>10. QED
  BY <1>1, <1>2, <1>3, <1>4, <1>5, <1>6, <1>7, <1>8, <1>9 DEF Next, Locking, Answer

LEMMA Invariance == Spec => []IInv
<1>1. IInv /\ [Next]_vars => IInv'
  BY Typing, FetchKept, TokenKept, OpKept DEF IInv
<1>2. QED
  BY InitIInv, <1>1, PTL DEF Spec

-----------------------------------------------------------------------------
(* A token taken from the cache is alive in Keycloak, whatever the lifetime *)
(* of tokens and however long their fetch took: accessToken's margin.      *)
THEOREM CachedTokensAlive == Spec => []CachedTokenAlive
<1>1. IInv => CachedTokenAlive
  BY ClientAssumption DEF ClientAssumption, IInv, TypeOK, Token, TokenInv, Fresh, CachedTokenAlive
<1>2. QED
  BY Invariance, <1>1, PTL

(* The mutex that accessToken holds over the fetch keeps a good token from *)
(* being replaced, for any number of goroutines that want one.             *)
THEOREM FreshTokensKept == Spec => FreshTokenKept
<1>1. IInv /\ [Next]_vars => [Fresh /\ token' # token => token' = Null]_vars
  <2> SUFFICES ASSUME IInv, [Next]_vars, Fresh, token' # token PROVE token' = Null
    OBVIOUS
  <2>1. ASSUME NEW p \in Proc, TokenFetched(p) PROVE FALSE
    BY <2>1 DEF IInv, FetchInv, TokenFetched
  <2>2. QED
    BY <2>1 DEF Next, Locking, Answer, Begin, TokenCached, TokenFetch, TokenFailed,
         UserFound, GroupsFound, GroupCached, GroupFound, GroupStore, Changed,
         CallFailed, Tick, Recreate, Restart, vars, cacheVars
<1>2. QED
  BY Invariance, <1>1, PTL DEF Spec, FreshTokenKept

(* A change of the group that the client reports as done is done, and only *)
(* the operations that change the group ever do.                           *)
THEOREM OkAlwaysDone == Spec => []OkMeansDone
<1>1. IInv => OkMeansDone
  BY DEF IInv
<1>2. QED
  BY Invariance, <1>1, PTL

-----------------------------------------------------------------------------
(* The steps of the client, as the steps of one operation. *)

Busy == {p \in Proc : pc[p] # "idle"}

(* An operation that has not returned goes on: its caller sees nothing. *)
LEMMA WithinOperation ==
  ASSUME TypeOK, NEW p \in Proc, NEW ph, ph # "idle", pc[p] # "idle", Goto(p, ph),
         UNCHANGED <<op, effect, result>>
  PROVE  UNCHANGED G!vars
<1>1. Busy' = Busy
  BY DEF TypeOK, Goto, Busy
<1>2. QED
  BY <1>1 DEF G!vars, Busy

LEMMA AnswerEnds ==
  ASSUME TypeOK, NEW p \in Proc, pc[p] # "idle", NEW res, Return(p, res)
  PROVE  /\ p \in Busy /\ Busy' = Busy \ {p}
         /\ result' = [result EXCEPT ![p] = res]
BY DEF TypeOK, Return, Goto, Busy

LEMMA RefusedStep ==
  ASSUME TypeOK, OpInv, NEW p \in Proc, pc[p] # "idle", Return(p, "error"),
         UNCHANGED <<op, effect>>
  PROVE  G!Refused(p)
<1>1. effect' = [effect EXCEPT ![p] = FALSE]
  BY DEF TypeOK, OpInv
<1>2. QED
  BY AnswerEnds, <1>1 DEF G!Refused, G!Answer, Busy

LEMMA BeginAsks ==
  ASSUME TypeOK, NEW p \in Proc, NEW o \in Op, Begin(p, o) PROVE G!Ask(p, o)
<1>1. p \notin Busy /\ Busy' = Busy \cup {p}
  BY DEF TypeOK, Begin, Call, Goto, Busy
<1>2. QED
  BY <1>1 DEF Begin, G!Ask, Busy

LEMMA GroupsFoundIsDone ==
  ASSUME TypeOK, OpInv, NEW p \in Proc, GroupsFound(p) PROVE G!Done(p)
<1>1. pc[p] # "idle" /\ op[p] = "InGroup" /\ Return(p, "ok") /\ UNCHANGED <<op, effect>>
  BY DEF OpInv, GroupsFound, Accepted
<1>2. effect' = [effect EXCEPT ![p] = FALSE]
  BY <1>1 DEF TypeOK, OpInv
<1>3. QED
  BY <1>1, <1>2, AnswerEnds DEF G!Done, G!Answer, Busy

LEMMA ChangedIsDoneOrLost ==
  ASSUME TypeOK, OpInv, NEW p \in Proc, Changed(p) PROVE G!Done(p) \/ G!Lost(p)
<1>1. /\ pc[p] # "idle" /\ op[p] # "InGroup"
      /\ effect' = [effect EXCEPT ![p] = TRUE] /\ op' = op
  BY DEF OpInv, Changed, Accepted
<1>2. PICK res \in {"ok", "error"} : Return(p, res)
  BY DEF Changed
<1>3. /\ p \in Busy /\ Busy' = Busy \ {p}
      /\ result' = [result EXCEPT ![p] = res]
  BY <1>1, <1>2, AnswerEnds
<1>4. G!Answer(p, TRUE, res)
  BY <1>1, <1>3 DEF G!Answer, Busy
<1>5. CASE res = "ok"
  BY <1>1, <1>4, <1>5 DEF G!Done
<1>6. CASE res = "error"
  BY <1>1, <1>4, <1>6 DEF G!Lost
<1>7. QED
  BY <1>2, <1>5, <1>6

LEMMA RestartEnds == ASSUME Restart PROVE G!End
<1>1. Busy' = {}
  BY DEF Restart, Busy
<1>2. QED
  BY <1>1 DEF Restart, G!End, Busy

(* The calls before the last: tokens, the user, the id of the group. *)
LEMMA ChainStutters ==
  ASSUME TypeOK, NEW p \in Proc,
         \/ Locking(p)
         \/ TokenFetched(p) \/ UserFound(p) \/ GroupFound(p)
  PROVE  UNCHANGED G!vars
<1> USE DEF Call
<1>1. CASE TokenCached(p)
  BY <1>1, WithinOperation DEF TokenCached
<1>2. CASE TokenFetch(p)
  BY <1>2, WithinOperation DEF TokenFetch
<1>3. CASE GroupCached(p)
  BY <1>3, WithinOperation DEF GroupCached
<1>4. CASE GroupStore(p)
  BY <1>4, WithinOperation DEF GroupStore
<1>5. CASE TokenFetched(p)
  BY <1>5, WithinOperation DEF TokenFetched
<1>6. CASE UserFound(p)
  BY <1>6, WithinOperation DEF UserFound, Accepted
<1>7. CASE GroupFound(p)
  BY <1>7, WithinOperation DEF GroupFound, Accepted
<1>8. QED
  BY <1>1, <1>2, <1>3, <1>4, <1>5, <1>6, <1>7 DEF Locking

LEMMA StepMaps == ASSUME IInv, [Next]_vars PROVE [G!Next]_(G!vars)
<1> USE DEF IInv
<1>1. ASSUME NEW p \in Proc, NEW o \in Op, Begin(p, o) PROVE G!Next
  <2>1. o \in G!Op /\ G!Ask(p, o)
    BY <1>1, BeginAsks DEF Op, G!Op
  <2>2. QED
    BY <2>1 DEF G!Next
<1>2. ASSUME NEW p \in Proc, TokenFailed(p) \/ CallFailed(p) PROVE G!Next
  <2>1. pc[p] # "idle" /\ Return(p, "error") /\ UNCHANGED <<op, effect>>
    BY <1>2 DEF TokenFailed, CallFailed
  <2>2. QED
    BY <2>1, RefusedStep DEF G!Next
<1>3. ASSUME NEW p \in Proc, GroupsFound(p) PROVE G!Next
  BY <1>3, GroupsFoundIsDone DEF G!Next
<1>4. ASSUME NEW p \in Proc, Changed(p) PROVE G!Next
  BY <1>4, ChangedIsDoneOrLost DEF G!Next
<1>5. CASE Restart
  BY <1>5, RestartEnds DEF G!Next
<1>6. CASE Tick \/ Recreate \/ UNCHANGED vars
  BY <1>6 DEF Tick, Recreate, vars, procVars, G!vars
<1>7. QED
  BY <1>1, <1>2, <1>3, <1>4, <1>5, <1>6, ChainStutters DEF Next, Answer

(* The client implements the atomic operations that its callers take it    *)
(* for, for any number of goroutines: the chain of calls behind InGroup,   *)
(* AddToGroup and RemoveFromGroup, with its two caches and its mutex,      *)
(* changes the group at most once, and answers after it.                   *)
THEOREM GroupOperationImplemented == Spec => GroupOperationSpec
<1>1. Init => G!Init
  BY DEF Init, G!Init
<1>2. IInv /\ [Next]_vars => [G!Next]_(G!vars)
  BY StepMaps
<1>3. QED
  BY Invariance, <1>1, <1>2, PTL DEF Spec, GroupOperationSpec, G!Spec
=============================================================================
