---------------------------- MODULE KeycloakClient ----------------------------
(***************************************************************************)
(* internal/keycloak: the admin client that all handlers and the worker    *)
(* share.  An operation is a chain of HTTP calls; each of them takes the   *)
(* cached access token, or fetches one while it holds the mutex, and the   *)
(* id of admin-active, the only group that is looked up, is cached.        *)
(*                                                                         *)
(* Keycloak is external: it issues tokens with a lifetime, may refuse any  *)
(* call, may answer a call that had its effect with an error or not at     *)
(* all, and its administrator may delete and recreate the group.           *)
(***************************************************************************)
EXTENDS Naturals

CONSTANTS
  Proc,          \* goroutines that use the client
  Null,
  Lifetime,      \* the expires_in of the tokens that Keycloak issues
  Margin,        \* a token is renewed this long before its expiry
  HttpTimeout,   \* http.Client.Timeout
  GroupId,       \* ids that the group has over time; groups are numbered
  MaxTime        \* bound on the clock

ASSUME ClientAssumption ==
  /\ Null \notin Proc \cup Nat
  /\ Lifetime \subseteq Nat /\ GroupId \subseteq Nat /\ 0 \in GroupId
  /\ Margin \in Nat /\ HttpTimeout \in Nat /\ HttpTimeout <= Margin
  /\ MaxTime \in Nat

VARIABLES
  now,       \* the clock
  mu,        \* the goroutine that holds Client.mu over a fetch, or Null
  token,     \* cachedToken and tokenExpiry, or Null
  groupId,   \* groupIDs[GroupActive], or Null
  realmId,   \* the id the group has in Keycloak
  pc, op, call,
  asked,     \* when a goroutine's token request was sent
  bearer,    \* the token it is about to send
  target,    \* the group id it has looked up
  effect,    \* did its last operation change the group in Keycloak?
  result     \* what its last operation returned

procVars == <<pc, op, call, asked, bearer, target, effect, result>>
cacheVars == <<mu, token, groupId>>
vars == <<now, cacheVars, realmId, procVars>>

Op == {"InGroup", "AddToGroup", "RemoveFromGroup"}

(* Keycloak stops accepting a token at dies; the client takes it to expire *)
(* at expiry.                                                              *)
Token == [dies : Nat, expiry : Nat]

TypeOK ==
  /\ now \in Nat
  /\ mu \in Proc \cup {Null}
  /\ token \in Token \cup {Null}
  /\ groupId \in GroupId \cup {Null}
  /\ realmId \in GroupId
  /\ pc \in [Proc -> {"idle", "token", "fetch", "send", "group", "store"}]
  /\ op \in [Proc -> Op]
  /\ call \in [Proc -> {"user", "groups", "lookup", "change"}]
  /\ asked \in [Proc -> Nat]
  /\ bearer \in [Proc -> Token \cup {Null}]
  /\ target \in [Proc -> GroupId \cup {Null}]
  /\ effect \in [Proc -> BOOLEAN]
  /\ result \in [Proc -> {"none", "ok", "error"}]

(* New *)
Init ==
  /\ now = 0 /\ realmId = 0
  /\ mu = Null /\ token = Null /\ groupId = Null
  /\ pc = [p \in Proc |-> "idle"]
  /\ op = [p \in Proc |-> "InGroup"]
  /\ call = [p \in Proc |-> "user"]
  /\ asked = [p \in Proc |-> 0]
  /\ bearer = [p \in Proc |-> Null]
  /\ target = [p \in Proc |-> Null]
  /\ effect = [p \in Proc |-> FALSE]
  /\ result = [p \in Proc |-> "none"]

-----------------------------------------------------------------------------
Goto(p, phase) == pc' = [pc EXCEPT ![p] = phase]

(* The next HTTP call begins with accessToken. *)
Call(p, c) ==
  /\ call' = [call EXCEPT ![p] = c]
  /\ bearer' = [bearer EXCEPT ![p] = Null]
  /\ Goto(p, "token")

(* The operation returns; its locals are gone. *)
Return(p, res) ==
  /\ result' = [result EXCEPT ![p] = res]
  /\ Goto(p, "idle")
  /\ call' = [call EXCEPT ![p] = "user"]
  /\ asked' = [asked EXCEPT ![p] = 0]
  /\ bearer' = [bearer EXCEPT ![p] = Null]
  /\ target' = [target EXCEPT ![p] = Null]

Begin(p, o) ==
  /\ pc[p] = "idle"
  /\ op' = [op EXCEPT ![p] = o]
  /\ Call(p, "user")
  /\ effect' = [effect EXCEPT ![p] = FALSE]
  /\ result' = [result EXCEPT ![p] = "none"]
  /\ UNCHANGED <<now, cacheVars, realmId, asked, target>>

-----------------------------------------------------------------------------
FreshUntilExpiry == token # Null /\ now < token.expiry  \* mutant: no margin

(* time.Now().Before(c.tokenExpiry.Add(-30 * time.Second)) *)
Fresh == token # Null /\ now + Margin < token.expiry

(* accessToken with a fresh token: lock, read, unlock. *)
TokenCached(p) ==
  /\ pc[p] = "token" /\ mu = Null /\ Fresh
  /\ bearer' = [bearer EXCEPT ![p] = token]
  /\ Goto(p, "send")
  /\ UNCHANGED <<now, cacheVars, realmId, op, call, asked, target, effect, result>>

TokenFetchUnlocked(p) ==   \* mutant: the mutex is released before the post
  /\ pc[p] = "token" /\ mu = Null /\ ~Fresh
  /\ asked' = [asked EXCEPT ![p] = now]
  /\ Goto(p, "fetch")
  /\ UNCHANGED <<now, cacheVars, realmId, op, call, bearer, target, effect, result>>

(* accessToken without one: the token request goes out under the mutex. *)
TokenFetch(p) ==
  /\ pc[p] = "token" /\ mu = Null /\ ~Fresh
  /\ mu' = p
  /\ asked' = [asked EXCEPT ![p] = now]
  /\ Goto(p, "fetch")
  /\ UNCHANGED <<now, token, groupId, realmId, op, call, bearer, target, effect, result>>

(* The answer: Keycloak issued the token after it was asked, the client    *)
(* counts its lifetime from now.                                           *)
TokenFetched(p) ==
  /\ pc[p] = "fetch"
  /\ \E life \in Lifetime, issued \in asked[p] .. now :
       LET t == [dies |-> issued + life, expiry |-> now + life]
       IN token' = t /\ bearer' = [bearer EXCEPT ![p] = t]
  /\ mu' = Null
  /\ asked' = [asked EXCEPT ![p] = 0]
  /\ Goto(p, "send")
  /\ UNCHANGED <<now, groupId, realmId, op, call, target, effect, result>>

TokenFailedLocked(p) ==    \* mutant: an error return keeps the mutex
  /\ pc[p] = "fetch"
  /\ Return(p, "error")
  /\ UNCHANGED <<now, cacheVars, realmId, op, effect>>

(* The request failed, timed out, or its answer is of no use. *)
TokenFailed(p) ==
  /\ pc[p] = "fetch"
  /\ mu' = Null
  /\ Return(p, "error")
  /\ UNCHANGED <<now, token, groupId, realmId, op, effect>>

-----------------------------------------------------------------------------
(* Keycloak takes a call: the token is alive when it arrives. *)
Accepted(p) == pc[p] = "send" /\ now < bearer[p].dies

(* userID; InGroup goes on with userGroups, the others with groupID. *)
UserFound(p) ==
  /\ Accepted(p) /\ call[p] = "user"
  /\ IF op[p] = "InGroup" THEN Call(p, "groups")
                          ELSE Goto(p, "group") /\ UNCHANGED <<call, bearer>>
  /\ UNCHANGED <<now, cacheVars, realmId, op, asked, target, effect, result>>

GroupsFound(p) ==
  /\ Accepted(p) /\ call[p] = "groups"
  /\ Return(p, "ok")
  /\ UNCHANGED <<now, cacheVars, realmId, op, effect>>

(* groupID: the cache is read under the mutex, the lookup is made without. *)
GroupCached(p) ==
  /\ pc[p] = "group" /\ mu = Null
  /\ target' = [target EXCEPT ![p] = groupId]
  /\ Call(p, IF groupId = Null THEN "lookup" ELSE "change")
  /\ UNCHANGED <<now, cacheVars, realmId, op, asked, effect, result>>

GroupFound(p) ==
  /\ Accepted(p) /\ call[p] = "lookup"
  /\ target' = [target EXCEPT ![p] = realmId]
  /\ Goto(p, "store")
  /\ UNCHANGED <<now, cacheVars, realmId, op, call, asked, bearer, effect, result>>

GroupStore(p) ==
  /\ pc[p] = "store" /\ mu = Null
  /\ groupId' = target[p]
  /\ Call(p, "change")
  /\ UNCHANGED <<now, mu, token, realmId, op, asked, target, effect, result>>

ChangedAgain(p) ==         \* mutant: the change is sent again after an error
  /\ Accepted(p) /\ call[p] = "change" /\ target[p] = realmId
  /\ effect' = [effect EXCEPT ![p] = TRUE]
  /\ \/ Return(p, "ok")
     \/ Call(p, "change") /\ UNCHANGED <<result, asked, target>>
  /\ UNCHANGED <<now, cacheVars, realmId, op>>

(* The PUT or DELETE takes effect on the group it names if that exists. *)
Changed(p) ==
  /\ Accepted(p) /\ call[p] = "change" /\ target[p] = realmId
  /\ effect' = [effect EXCEPT ![p] = TRUE]
  /\ \E res \in {"ok", "error"} : Return(p, res)
  /\ UNCHANGED <<now, cacheVars, realmId, op>>

CallFailedUnseen(p) ==     \* mutant: a status of 300 and more is no error
  /\ pc[p] = "send"
  /\ Return(p, "ok")
  /\ UNCHANGED <<now, cacheVars, realmId, op, effect>>

(* do: a refusal, a dead token, a missing user or group, no answer. *)
CallFailed(p) ==
  /\ pc[p] = "send"
  /\ Return(p, "error")
  /\ UNCHANGED <<now, cacheVars, realmId, op, effect>>

-----------------------------------------------------------------------------
(* The clock.  A token request that is under way is over HttpTimeout after *)
(* it was sent.                                                            *)
Tick ==
  /\ now < MaxTime
  /\ \A p \in Proc : pc[p] = "fetch" => now < asked[p] + HttpTimeout
  /\ now' = now + 1
  /\ UNCHANGED <<cacheVars, realmId, procVars>>

(* The group is deleted and made again. *)
Recreate ==
  /\ realmId + 1 \in GroupId
  /\ realmId' = realmId + 1
  /\ UNCHANGED <<now, cacheVars, procVars>>

(* The process ends and starts: the caches are empty. *)
Restart ==
  /\ mu' = Null /\ token' = Null /\ groupId' = Null
  /\ pc' = [p \in Proc |-> "idle"]
  /\ op' = [p \in Proc |-> "InGroup"]
  /\ call' = [p \in Proc |-> "user"]
  /\ asked' = [p \in Proc |-> 0]
  /\ bearer' = [p \in Proc |-> Null]
  /\ target' = [p \in Proc |-> Null]
  /\ effect' = [p \in Proc |-> FALSE]
  /\ result' = [p \in Proc |-> "none"]
  /\ UNCHANGED <<now, realmId>>

Locking(p) == TokenCached(p) \/ TokenFetch(p) \/ GroupCached(p) \/ GroupStore(p)

Answer(p) ==
  \/ TokenFetched(p) \/ TokenFailed(p)
  \/ UserFound(p) \/ GroupsFound(p) \/ GroupFound(p) \/ Changed(p) \/ CallFailed(p)

Next == \/ \E p \in Proc : \/ \E o \in Op : Begin(p, o)
                           \/ Locking(p) \/ Answer(p)
        \/ Tick \/ Recreate \/ Restart

Spec == Init /\ [][Next]_vars

(* Every HTTP call is over after its timeout, and a goroutine that waits   *)
(* for the mutex gets it if it is free again and again: a sync.Mutex does  *)
(* not starve.                                                             *)
FairSpec == Spec /\ \A p \in Proc : WF_vars(Answer(p)) /\ SF_vars(Locking(p))

-----------------------------------------------------------------------------
(* A token from the cache is alive in Keycloak when it is taken, although  *)
(* the client counts its lifetime from the answer and Keycloak from the    *)
(* issue: the margin of 30 s covers a fetch that took its whole timeout.   *)
CachedTokenAlive == token # Null /\ Fresh => now < token.dies

(* A token that is good is not replaced: goroutines that find none wait    *)
(* for the one that fetches, and then use what it got.                     *)
FreshTokenKept == [][Fresh /\ token' # token => token' = Null]_vars

(* What the rest of the service takes from a return value: a change that   *)
(* is reported as done is done in the group that exists, and InGroup never *)
(* changes it.  (An error says nothing: JitAccess has both cases.)         *)
OkMeansDone ==
  \A p \in Proc : /\ op[p] # "InGroup" /\ result[p] = "ok" => effect[p]
                  /\ op[p] = "InGroup" => ~effect[p]

(* The chain of calls is one operation to its caller: whatever the caches   *)
(* hold, however goroutines meet at the mutex and wherever a call fails,    *)
(* the group changes once at most, for an operation that changes it, and    *)
(* with the answer that ends it.                                            *)
G == INSTANCE GroupOperation WITH busy <- {p \in Proc : pc[p] # "idle"}

GroupOperationSpec == G!Spec

(* No operation waits for ever, neither for the mutex it holds itself nor  *)
(* for one that an error path forgot.                                      *)
Returns == \A p \in Proc : pc[p] # "idle" ~> pc[p] = "idle"
=============================================================================
