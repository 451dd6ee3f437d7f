------------------------------ MODULE OidcLogin ------------------------------
(***************************************************************************)
(* Signing in: internal/auth with the handlers that call it.  A login      *)
(* begins with a URL that carries a random state; the process remembers it  *)
(* for ten minutes.  Keycloak sends the browser back with the state and a   *)
(* code.  The callback takes the state out of the map under the mutex,     *)
(* redeems the code and asks who it is, two HTTP calls without the mutex,   *)
(* and answers with a signed cookie that nothing on the server remembers.  *)
(*                                                                         *)
(* State and code are two parameters of a URL, and any pair may come: those *)
(* of one login or of two, or values nobody handed out (Null).  Callbacks   *)
(* may come twice (a reload), overlap, come late or never; the              *)
(* authorization page may be opened twice and give two codes for one state; *)
(* the process may end.  Keycloak is external: it redeems a code once, for  *)
(* the verifier of its own login, while it is fresh.                       *)
(*                                                                         *)
(* Time is in half seconds, so that the truncation of a session's expiry   *)
(* to whole seconds can be seen.                                           *)
(***************************************************************************)
EXTENDS Naturals

CONSTANTS
  User, Null,
  Login,      \* what randomToken can return; names a state and its verifier
  Code,       \* the codes Keycloak can issue
  Call,       \* callbacks that may run at the same time
  LoginTTL, SessionTTL,  \* 10 minutes and 8 hours in the code
  HttpTimeout,           \* of Manager.httpClient
  CodeTTL,    \* how long Keycloak honours a code
  KcFaults,   \* may calls to Keycloak fail?
  AllowHeaderAuth,       \* config.AllowHeaderAuth
  MaxTime,    \* bound on the clock
  MaxStops    \* bound on process ends

Begun == [at : Nat, boot : Nat]
Pending == [expiry : Nat, codeVerifier : Login]
CodeData == [state : Login, challenge : Login, user : User, at : Nat]
Session == [user : User, expiry : Nat, at : Nat, code : Code]

ASSUME LoginAssumption ==
  /\ {LoginTTL, SessionTTL, HttpTimeout, CodeTTL, MaxTime, MaxStops} \subseteq Nat
  /\ {KcFaults, AllowHeaderAuth} \subseteq BOOLEAN
  /\ Null \notin User \cup Login \cup Code
  /\ Null \notin Begun \cup Pending \cup CodeData \cup Session

VARIABLES
  now,      \* the clock
  stops,    \* process ends so far
  url,      \* the logins begun: when, and by which process
  states,   \* Manager.states
  codes,    \* Keycloak: the codes issued
  redeemed, \* Keycloak: the codes redeemed
  came,     \* logins some callback has presented
  pc,       \* where a callback is
  state, code, \* the parameters it was called with
  verifier, \* pending.codeVerifier
  since,    \* when it sent the HTTP call it waits for
  minted,   \* every cookie value answered so far
  cookie    \* the browser's

browserVars == <<minted, cookie>>
keycloakVars == <<codes, redeemed>>
callVars == <<pc, state, code, verifier, since>>
vars == <<now, stops, url, states, came, keycloakVars, callVars, browserVars>>

(* Places where a callback waits for Keycloak, and its answers. *)
Waiting == {"exchange", "userinfo"}
Answer == {"bad_state", "denied", "failed", "done"}

TypeOK ==
  /\ now \in Nat /\ stops \in Nat
  /\ url \in [Login -> Begun \cup {Null}]
  /\ states \in [Login -> Pending \cup {Null}]
  /\ codes \in [Code -> CodeData \cup {Null}]
  /\ redeemed \subseteq Code
  /\ came \subseteq Login
  /\ pc \in [Call -> {"idle"} \cup Waiting \cup Answer]
  /\ state \in [Call -> Login \cup {Null}]
  /\ code \in [Call -> Code \cup {Null}]
  /\ verifier \in [Call -> Login \cup {Null}]
  /\ since \in [Call -> Nat]
  /\ minted \subseteq Session
  /\ cookie \in Session \cup {Null}

Init ==
  /\ now = 0 /\ stops = 0
  /\ url = [l \in Login |-> Null]
  /\ states = [l \in Login |-> Null]
  /\ codes = [k \in Code |-> Null]
  /\ redeemed = {} /\ came = {}
  /\ pc = [c \in Call |-> "idle"]
  /\ state = [c \in Call |-> Null]
  /\ code = [c \in Call |-> Null]
  /\ verifier = [c \in Call |-> Null]
  /\ since = [c \in Call |-> 0]
  /\ minted = {} /\ cookie = Null

-----------------------------------------------------------------------------
(* GET /auth/login: the state is new (128 random bits). *)
LoginURL(l) ==
  /\ url[l] = Null
  /\ url' = [url EXCEPT ![l] = [at |-> now, boot |-> stops]]
  /\ states' = [states EXCEPT ![l] = [expiry |-> now + LoginTTL, codeVerifier |-> l]]
  /\ UNCHANGED <<now, stops, came, keycloakVars, callVars, browserVars>>

(* Somebody signs in at Keycloak on that URL: a code for its state and      *)
(* challenge.  Opening the URL again gives another one.                    *)
Authenticate(l, u, k) ==
  /\ url[l] # Null /\ codes[k] = Null
  /\ codes' = [codes EXCEPT ![k] = [state |-> l, challenge |-> l, user |-> u, at |-> now]]
  /\ UNCHANGED <<now, stops, url, states, came, redeemed, callVars, browserVars>>

TooLateEarly(pending) == now >= pending.expiry  \* mutant
TooLateNever(pending) == FALSE                  \* mutant
TooLate(pending) == now > pending.expiry

StatesKept(l) == states                         \* mutant: no deletion
StatesCleared(l) == [m \in Login |-> Null]      \* mutant: all deleted
StatesWithout(l) == [m \in Login |-> IF m = l THEN Null ELSE states[m]]

Awaited(l) == l # Null /\ states[l] # Null /\ ~TooLate(states[l])

(* A callback sends an HTTP call, or answers its browser and is over. *)
Send(c, place, v) == /\ pc' = [pc EXCEPT ![c] = place]
                     /\ verifier' = [verifier EXCEPT ![c] = v]
                     /\ since' = [since EXCEPT ![c] = now]

Reply(c, answer) == /\ pc' = [pc EXCEPT ![c] = answer]
                    /\ state' = [state EXCEPT ![c] = Null]
                    /\ code' = [code EXCEPT ![c] = Null]
                    /\ verifier' = [verifier EXCEPT ![c] = Null]
                    /\ since' = [since EXCEPT ![c] = 0]

(* GET /auth/callback with state l and code k, up to the first HTTP call:   *)
(* the lookup and the deletion are one critical section.  A callback with   *)
(* Keycloak's "error", or without one of the two, returns before it and     *)
(* changes nothing.                                                        *)
HandleCallback(c, l, k) ==
  /\ pc[c] = "idle"
  /\ l \in {Null} \cup {m \in Login : url[m] # Null}
  /\ k \in {Null} \cup {m \in Code : codes[m] # Null}
  /\ states' = StatesWithout(l)
  /\ came' = came \cup ({l} \ {Null})
  /\ IF Awaited(l)
     THEN /\ Send(c, "exchange", states[l].codeVerifier)
          /\ state' = [state EXCEPT ![c] = l]
          /\ code' = [code EXCEPT ![c] = k]
     ELSE Reply(c, "bad_state")
  /\ UNCHANGED <<now, stops, url, keycloakVars, browserVars>>

(* Keycloak's answer to the token request: it redeems the code, denies it,  *)
(* or cannot be reached, before or after it redeemed the code.              *)
Stale(k) == k \in redeemed \/ now > codes[k].at + CodeTTL

Redeemable(k, v) == k # Null /\ ~Stale(k) /\ codes[k].challenge = v

Exchange(c) ==
  LET k == code[c] IN
  /\ pc[c] = "exchange"
  /\ \/ /\ Redeemable(k, verifier[c])
        /\ redeemed' = redeemed \cup {k}
        /\ Send(c, "userinfo", Null)
        /\ UNCHANGED <<state, code>>
     \/ /\ ~Redeemable(k, verifier[c])
        /\ UNCHANGED redeemed
        /\ Reply(c, "denied")
     \/ /\ KcFaults
        /\ \/ UNCHANGED redeemed
           \/ Redeemable(k, verifier[c]) /\ redeemed' = redeemed \cup {k}
        /\ Reply(c, "failed")
  /\ UNCHANGED <<now, stops, url, states, came, codes, browserVars>>

Unix(t) == t \div 2

NewSession(k) == [user   |-> codes[k].user,
                  expiry |-> Unix(now + SessionTTL),
                  at     |-> now,
                  code   |-> k]

(* The answer to the userinfo request, and the cookie, which the browser    *)
(* may or may not receive.                                                  *)
UserInfo(c) ==
  /\ pc[c] = "userinfo"
  /\ \/ /\ minted' = minted \cup {NewSession(code[c])}
        /\ cookie' \in {cookie, NewSession(code[c])}
        /\ Reply(c, "done")
     \/ KcFaults /\ UNCHANGED browserVars /\ Reply(c, "failed")
  /\ UNCHANGED <<now, stops, url, states, came, keycloakVars>>

Return(c) ==
  /\ pc[c] \in Answer
  /\ pc' = [pc EXCEPT ![c] = "idle"]
  /\ UNCHANGED <<now, stops, url, states, came, keycloakVars, state, code, verifier, since,
                 browserVars>>

(* GET or POST /auth/logout: only the browser forgets. *)
HandleLogout ==
  /\ cookie' = Null
  /\ UNCHANGED <<now, stops, url, states, came, keycloakVars, callVars, minted>>

(* The process ends and starts again: the map is gone, cookies stay good.   *)
Restart ==
  /\ stops < MaxStops
  /\ stops' = stops + 1
  /\ states' = [l \in Login |-> Null]
  /\ pc' = [c \in Call |-> "idle"]
  /\ state' = [c \in Call |-> Null]
  /\ code' = [c \in Call |-> Null]
  /\ verifier' = [c \in Call |-> Null]
  /\ since' = [c \in Call |-> 0]
  /\ UNCHANGED <<now, url, came, keycloakVars, browserVars>>

(* Time passes; an HTTP call that is out has been answered within its timeout. *)
Tick ==
  /\ now < MaxTime
  /\ \A c \in Call : pc[c] \in Waiting => now < since[c] + HttpTimeout
  /\ now' = now + 1
  /\ UNCHANGED <<stops, url, states, came, keycloakVars, callVars, browserVars>>

Next ==
  \/ \E l \in Login : LoginURL(l)
  \/ \E l \in Login, u \in User, k \in Code : Authenticate(l, u, k)
  \/ \E c \in Call :
       \/ \E l \in Login \cup {Null}, k \in Code \cup {Null} : HandleCallback(c, l, k)
       \/ Exchange(c) \/ UserInfo(c) \/ Return(c)
  \/ HandleLogout \/ Restart \/ Tick

Spec == Init /\ [][Next]_vars

-----------------------------------------------------------------------------
(* FromRequest, for a value some callback has signed. *)
AcceptsShort(s) == Unix(now) < s.expiry         \* mutant
Accepts(s) == Unix(now) <= s.expiry

(* Who a request acts as: header is its X-Actor-Username. *)
Actor(header) ==
  IF cookie # Null /\ Accepts(cookie) THEN cookie.user
  ELSE IF AllowHeaderAuth THEN header ELSE Null

(* A login gives one session at most, whatever is reloaded, sent twice, or  *)
(* signed in again on its page, and whichever callbacks overlap.            *)
OncePerLogin ==
  \A s, t \in minted : codes[s.code].state = codes[t.code].state => s = t

(* The map holds exactly the logins of this process that no callback has    *)
(* presented: none is lost while it is awaited, used ones are gone, and an  *)
(* abandoned one stays until the process ends.                             *)
StatesAreOpenLogins ==
  \A l \in Login : states[l] # Null <=>
    url[l] # Null /\ url[l].boot = stops /\ l \notin came

(* A callback is refused for a cause.  A login that was never presented     *)
(* before is answered "invalid or expired state" only if a process that has *)
(* ended began it, or it took longer than LoginTTL; Keycloak denies a code  *)
(* only if it never issued it, issued it for another login, redeemed it     *)
(* already, or finds it too old.                                           *)
RefusedForCause ==
  [][\A c \in Call :
       /\ pc[c] # "bad_state" /\ pc'[c] = "bad_state" =>
            \A l \in came' \ came : \/ url[l].boot < stops
                                   \/ now > url[l].at + LoginTTL
       /\ pc[c] = "exchange" /\ pc'[c] = "denied" =>
            \/ code[c] = Null
            \/ codes[code[c]].state # state[c]
            \/ Stale(code[c])]_vars

(* Whoever acts on a session is the user who signed in at Keycloak for it,  *)
(* on a page this service had opened no longer ago than the session, the    *)
(* login and two HTTP calls may last; only where header authentication is  *)
(* on may a request without a session name its user.                        *)
ActsOnFreshLogin ==
  \A header \in User \cup {Null} :
    LET u == Actor(header) IN
    u # Null =>
      \/ AllowHeaderAuth /\ u = header
      \/ \E k \in redeemed :
           /\ codes[k].user = u
           /\ now <= url[codes[k].state].at + LoginTTL + 2 * HttpTimeout + SessionTTL + 1

(* A session lasts as long as it should: SessionTTL at least, and less than *)
(* a second more, although its end is kept in whole seconds.                *)
SessionRunsItsTerm ==
  \A s \in minted : /\ now <= s.at + SessionTTL => Accepts(s)
                    /\ Accepts(s) => now <= s.at + SessionTTL + 1
=============================================================================
