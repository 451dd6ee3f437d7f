--------------------------- MODULE OidcLoginProofs ---------------------------
(***************************************************************************)
(* What OidcLogin promises, for every number of users, logins, codes and    *)
(* callbacks, all durations, and any number of process ends.  All of it     *)
(* follows from one inductive invariant, IInv.                             *)
(***************************************************************************)
EXTENDS OidcLogin, TLAPS

(* Everything that was begun lies in the past, of this process or an        *)
(* earlier one; what the map holds is what LoginURL put there.              *)
LoginsPast ==
  \A l \in Login :
    /\ url[l] # Null => url[l].at <= now /\ url[l].boot <= stops
    /\ states[l] # Null => /\ url[l] # Null
                           /\ states[l].codeVerifier = l
                           /\ states[l].expiry = url[l].at + LoginTTL
    /\ l \in came => url[l] # Null

(* Codes come from logins, and carry their challenge. *)
CodesOfLogins ==
  /\ \A k \in Code : codes[k] # Null => /\ url[codes[k].state] # Null
                                        /\ codes[k].challenge = codes[k].state
  /\ \A k \in redeemed : codes[k] # Null

(* A callback that waits has presented its login, in time, with whatever    *)
(* code; answers are not out for longer than the timeout.  Past the token   *)
(* request its code is redeemed, and is one of its own login: the verifier   *)
(* it sent is that of its state.                                           *)
CallsOfLogins ==
  \A c \in Call : pc[c] \in Waiting =>
    /\ state[c] \in came
    /\ since[c] <= now /\ now <= since[c] + HttpTimeout
    /\ pc[c] = "exchange" => /\ verifier[c] = state[c]
                             /\ code[c] # Null => codes[code[c]] # Null
                             /\ since[c] <= url[state[c]].at + LoginTTL
    /\ pc[c] = "userinfo" => /\ code[c] \in redeemed
                             /\ codes[code[c]].state = state[c]
                             /\ since[c] <= url[state[c]].at + LoginTTL + HttpTimeout

(* One callback at most works on a login. *)
Exclusive ==
  \A c, d \in Call :
    pc[c] \in Waiting /\ pc[d] \in Waiting /\ state[c] = state[d] => c = d

(* A session belongs to a login that was finished in time, and no callback  *)
(* works on that login any more.                                            *)
SessionsOfLogins ==
  \A s \in minted :
    LET l == codes[s.code].state IN
    /\ s.code \in redeemed /\ codes[s.code].user = s.user
    /\ l \in came
    /\ s.at <= now /\ s.at <= url[l].at + LoginTTL + HttpTimeout + HttpTimeout
    /\ s.expiry = Unix(s.at + SessionTTL)
    /\ \A c \in Call : pc[c] \in Waiting => state[c] # l

CookieMinted == cookie # Null => cookie \in minted

IInv ==
  /\ TypeOK /\ LoginsPast /\ CodesOfLogins /\ CallsOfLogins /\ Exclusive
  /\ SessionsOfLogins /\ CookieMinted /\ OncePerLogin /\ StatesAreOpenLogins

-----------------------------------------------------------------------------
LEMMA UnixType == \A t \in Nat : Unix(t) \in Nat /\ 2 * Unix(t) <= t /\ t <= 2 * Unix(t) + 1
  BY DEF Unix

LEMMA InitIInv == Init => IInv
<1> USE LoginAssumption
<1> SUFFICES ASSUME Init PROVE IInv
  OBVIOUS
<1>1. TypeOK /\ LoginsPast /\ CodesOfLogins
  BY DEF Init, TypeOK, LoginsPast, CodesOfLogins
<1>2. CallsOfLogins /\ Exclusive /\ SessionsOfLogins
  BY DEF Init, CallsOfLogins, Exclusive, SessionsOfLogins, Waiting
<1>3. CookieMinted /\ OncePerLogin /\ StatesAreOpenLogins
  BY DEF Init, CookieMinted, OncePerLogin, StatesAreOpenLogins
<1>4. QED
  BY <1>1, <1>2, <1>3 DEF IInv

LEMMA LoginURLStep ==
  ASSUME IInv, NEW l \in Login, LoginURL(l)
  PROVE  IInv'
<1> USE LoginAssumption DEF IInv, LoginURL, keycloakVars, callVars, browserVars
<1>1. TypeOK'
  BY DEF TypeOK, Begun, Pending
<1>2. LoginsPast'
  BY DEF TypeOK, LoginsPast, Begun, Pending
<1>3. CodesOfLogins'
  BY DEF TypeOK, CodesOfLogins, Begun, CodeData
<1>4. l \notin came
  BY DEF LoginsPast
<1>5. CallsOfLogins'
  BY <1>4 DEF TypeOK, CallsOfLogins
<1>6. Exclusive' /\ CookieMinted' /\ OncePerLogin'
  BY DEF Exclusive, CookieMinted, OncePerLogin
<1>7. SessionsOfLogins'
  BY <1>4 DEF TypeOK, SessionsOfLogins, Begun
<1>8. StatesAreOpenLogins'
  BY <1>4 DEF TypeOK, StatesAreOpenLogins, LoginsPast, Begun, Pending
<1>9. QED
  BY <1>1, <1>2, <1>3, <1>5, <1>6, <1>7, <1>8

LEMMA AuthenticateStep ==
  ASSUME IInv, NEW l \in Login, NEW u \in User, NEW k \in Code, Authenticate(l, u, k)
  PROVE  IInv'
<1> USE LoginAssumption DEF IInv, Authenticate, callVars, browserVars
<1>1. TypeOK'
  BY DEF TypeOK, CodeData
<1>2. \A j \in Code : codes[j] # Null => codes'[j] = codes[j]
  BY DEF TypeOK
<1>3. LoginsPast' /\ CookieMinted' /\ StatesAreOpenLogins'
  BY DEF LoginsPast, CookieMinted, StatesAreOpenLogins
<1>4. CodesOfLogins'
  BY DEF TypeOK, CodesOfLogins, CodeData
<1>5. \A c \in Call : /\ code[c] # Null /\ codes[code[c]] # Null => codes'[code[c]] = codes[code[c]]
                     /\ code[c] \in redeemed => codes'[code[c]] = codes[code[c]]
  BY <1>2 DEF TypeOK, CodesOfLogins
<1>6. CallsOfLogins' /\ Exclusive'
  BY <1>5 DEF CallsOfLogins, Exclusive
<1>7. \A s \in minted : codes'[s.code] = codes[s.code]
  BY <1>2 DEF SessionsOfLogins, CodesOfLogins, TypeOK
<1>8. SessionsOfLogins' /\ OncePerLogin'
  BY <1>7 DEF SessionsOfLogins, OncePerLogin
<1>9. QED
  BY <1>1, <1>3, <1>4, <1>6, <1>8

LEMMA HandleCallbackStep ==
  ASSUME IInv, NEW c \in Call, NEW l \in Login \cup {Null}, NEW k \in Code \cup {Null},
         HandleCallback(c, l, k)
  PROVE  IInv'
<1> USE LoginAssumption DEF IInv, keycloakVars, browserVars
<1>1. /\ UNCHANGED <<now, stops, url, codes, redeemed, minted, cookie>>
      /\ states' = StatesWithout(l) /\ came' = came \cup ({l} \ {Null})
      /\ l # Null => l \in Login /\ url[l] # Null
      /\ k # Null => k \in Code /\ codes[k] # Null
  BY DEF HandleCallback
<1>2. states' \in [Login -> Pending \cup {Null}]
  BY <1>1 DEF StatesWithout, TypeOK
<1>3. \A m \in Login : states'[m] = IF m = l THEN Null ELSE states[m]
  BY <1>1 DEF StatesWithout
<1>4. LoginsPast' /\ CodesOfLogins'
  BY <1>1, <1>3 DEF LoginsPast, CodesOfLogins
<1>5. StatesAreOpenLogins' /\ CookieMinted' /\ OncePerLogin'
  BY <1>1, <1>3 DEF StatesAreOpenLogins, CookieMinted, OncePerLogin
<1>6. CASE Awaited(l)
  <2>1. /\ l \in Login /\ states[l] # Null /\ url[l] # Null
        /\ states[l].codeVerifier = l /\ states[l].expiry = url[l].at + LoginTTL
        /\ ~TooLate(states[l])
    BY <1>1, <1>6 DEF Awaited, LoginsPast
  <2>2. /\ pc' = [pc EXCEPT ![c] = "exchange"]
        /\ verifier' = [verifier EXCEPT ![c] = l]
        /\ since' = [since EXCEPT ![c] = now]
        /\ state' = [state EXCEPT ![c] = l]
        /\ code' = [code EXCEPT ![c] = k]
    BY <1>6, <2>1 DEF HandleCallback, Send
  <2>3. /\ url[l].at \in Nat /\ now \in Nat /\ now <= url[l].at + LoginTTL
    BY <2>1 DEF TooLate, TypeOK, Begun
  <2>4. l \notin came
    BY <2>1 DEF StatesAreOpenLogins
  <2>5. TypeOK'
    BY <1>1, <1>2, <2>1, <2>2 DEF TypeOK, Waiting
  <2>6. \A d \in Call : d # c => /\ pc'[d] = pc[d] /\ state'[d] = state[d]
                                 /\ code'[d] = code[d] /\ since'[d] = since[d]
                                 /\ verifier'[d] = verifier[d]
    BY <2>2 DEF TypeOK
  <2>7. /\ pc'[c] = "exchange" /\ state'[c] = l /\ code'[c] = k
        /\ since'[c] = now /\ verifier'[c] = l
    BY <2>2 DEF TypeOK
  <2>8. CallsOfLogins'
    <3> SUFFICES ASSUME NEW d \in Call, pc'[d] \in Waiting
                 PROVE  /\ state'[d] \in came'
                        /\ since'[d] <= now /\ now <= since'[d] + HttpTimeout
                        /\ pc'[d] = "exchange" =>
                             /\ verifier'[d] = state'[d]
                             /\ code'[d] # Null => codes[code'[d]] # Null
                             /\ since'[d] <= url[state'[d]].at + LoginTTL
                        /\ pc'[d] = "userinfo" =>
                             /\ code'[d] \in redeemed
                             /\ codes[code'[d]].state = state'[d]
                             /\ since'[d] <= url[state'[d]].at + LoginTTL + HttpTimeout
      BY <1>1 DEF CallsOfLogins
    <3>1. CASE d = c
      <4>1. l \in came' /\ (k # Null => codes[k] # Null)
        BY <1>1, <2>1
      <4>2. now <= now /\ now <= now + HttpTimeout
        BY <2>3
      <4>3. QED
        BY <2>3, <2>7, <3>1, <4>1, <4>2
    <3>2. CASE d # c
      BY <1>1, <2>6, <3>2 DEF CallsOfLogins
    <3>3. QED
      BY <3>1, <3>2
  <2>9. \A d \in Call : pc[d] \in Waiting => state[d] # l
    BY <2>4 DEF CallsOfLogins
  <2>10. Exclusive'
    BY <2>6, <2>7, <2>9 DEF Exclusive
  <2>11. SessionsOfLogins'
    BY <1>1, <2>4, <2>6, <2>7 DEF SessionsOfLogins
  <2>12. QED
    BY <1>4, <1>5, <2>5, <2>8, <2>10, <2>11
<1>7. CASE ~Awaited(l)
  <2>1. Reply(c, "bad_state")
    BY <1>7 DEF HandleCallback
  <2>2. TypeOK'
    BY <1>1, <1>2, <2>1 DEF TypeOK, Reply, Answer
  <2>3. \A d \in Call : pc'[d] \in Waiting =>
          /\ pc[d] \in Waiting /\ pc'[d] = pc[d] /\ state'[d] = state[d]
          /\ code'[d] = code[d] /\ since'[d] = since[d] /\ verifier'[d] = verifier[d]
    BY <2>1 DEF TypeOK, Reply, Waiting
  <2>4. CallsOfLogins' /\ Exclusive'
    BY <1>1, <2>3 DEF CallsOfLogins, Exclusive
  <2>5. SessionsOfLogins'
    BY <1>1, <2>3 DEF SessionsOfLogins
  <2>6. QED
    BY <1>4, <1>5, <2>2, <2>4, <2>5
<1>8. QED
  BY <1>6, <1>7

LEMMA ExchangeStep ==
  ASSUME IInv, NEW c \in Call, Exchange(c)
  PROVE  IInv'
<1> USE LoginAssumption DEF IInv, browserVars
<1> DEFINE k == code[c]
<1>1. /\ pc[c] = "exchange" /\ pc[c] \in Waiting
      /\ UNCHANGED <<now, stops, url, states, came, codes, minted, cookie>>
      /\ redeemed' = redeemed \/ (redeemed' = redeemed \cup {k} /\ Redeemable(k, verifier[c]))
  BY DEF Exchange, Waiting
<1>2. \/ /\ Redeemable(k, verifier[c]) /\ redeemed' = redeemed \cup {k}
         /\ Send(c, "userinfo", Null) /\ UNCHANGED <<state, code>>
      \/ Reply(c, "denied") \/ Reply(c, "failed")
  BY DEF Exchange
<1>3. Redeemable(k, verifier[c]) =>
        k \in Code /\ codes[k] # Null /\ codes[k].state = state[c]
  <2> SUFFICES ASSUME Redeemable(k, verifier[c])
               PROVE  k \in Code /\ codes[k] # Null /\ codes[k].state = state[c]
    OBVIOUS
  <2>1. k \in Code /\ codes[k].challenge = verifier[c]
    BY DEF Redeemable, TypeOK
  <2>2. codes[k] # Null /\ verifier[c] = state[c]
    BY <1>1, <2>1 DEF CallsOfLogins, TypeOK
  <2>3. QED
    BY <2>1, <2>2 DEF CodesOfLogins
<1>4. redeemed' \subseteq Code /\ (\A j \in redeemed' : codes[j] # Null)
  BY <1>1, <1>3 DEF TypeOK, CodesOfLogins
<1>5. TypeOK'
  BY <1>1, <1>2, <1>4 DEF TypeOK, Send, Reply, Waiting, Answer
<1>6. LoginsPast' /\ CodesOfLogins'
  BY <1>1, <1>4 DEF LoginsPast, CodesOfLogins
<1>7. StatesAreOpenLogins' /\ CookieMinted' /\ OncePerLogin'
  BY <1>1 DEF StatesAreOpenLogins, CookieMinted, OncePerLogin
<1>8. \A d \in Call : pc'[d] \in Waiting => pc[d] \in Waiting /\ state'[d] = state[d]
  BY <1>1, <1>2 DEF Send, Reply, TypeOK, Waiting
<1>9. Exclusive'
  BY <1>8 DEF Exclusive
<1>10. SessionsOfLogins'
  BY <1>1, <1>8 DEF SessionsOfLogins
<1>11. CallsOfLogins'
  <2> SUFFICES ASSUME NEW d \in Call, pc'[d] \in Waiting
               PROVE  /\ state'[d] \in came
                      /\ since'[d] <= now /\ now <= since'[d] + HttpTimeout
                      /\ pc'[d] = "exchange" =>
                           /\ verifier'[d] = state'[d]
                           /\ code'[d] # Null => codes[code'[d]] # Null
                           /\ since'[d] <= url[state'[d]].at + LoginTTL
                      /\ pc'[d] = "userinfo" =>
                           /\ code'[d] \in redeemed'
                           /\ codes[code'[d]].state = state'[d]
                           /\ since'[d] <= url[state'[d]].at + LoginTTL + HttpTimeout
    BY <1>1 DEF CallsOfLogins
  <2>1. CASE d # c
    <3>1. /\ pc'[d] = pc[d] /\ since'[d] = since[d] /\ verifier'[d] = verifier[d]
          /\ code'[d] = code[d] /\ state'[d] = state[d]
      BY <1>2, <2>1 DEF Send, Reply, TypeOK
    <3>2. QED
      BY <1>1, <3>1 DEF CallsOfLogins
  <2>2. CASE d = c
    <3>1. /\ Redeemable(k, verifier[c]) /\ redeemed' = redeemed \cup {k}
          /\ Send(c, "userinfo", Null) /\ UNCHANGED <<state, code>>
      BY <1>2, <2>2 DEF Reply, TypeOK, Waiting
    <3>2. pc'[c] = "userinfo" /\ since'[c] = now
      BY <3>1 DEF Send, TypeOK
    <3>3. /\ state[c] \in came /\ since[c] \in Nat /\ now \in Nat
          /\ since[c] <= url[state[c]].at + LoginTTL /\ now <= since[c] + HttpTimeout
      BY <1>1 DEF CallsOfLogins, TypeOK
    <3>4. url[state[c]].at \in Nat
      BY <3>3 DEF LoginsPast, TypeOK, Begun
    <3>5. now <= url[state[c]].at + LoginTTL + HttpTimeout
      BY <3>3, <3>4
    <3>6. now <= now /\ now <= now + HttpTimeout
      BY <3>3
    <3>7. QED
      BY <1>3, <2>2, <3>1, <3>2, <3>3, <3>5, <3>6
  <2>3. QED
    BY <2>1, <2>2
<1>12. QED
  BY <1>5, <1>6, <1>7, <1>9, <1>10, <1>11

LEMMA UserInfoStep ==
  ASSUME IInv, NEW c \in Call, UserInfo(c)
  PROVE  IInv'
<1> USE LoginAssumption DEF IInv, keycloakVars
<1> DEFINE k == code[c]
           s0 == NewSession(k)
           l0 == state[c]
<1>1. /\ pc[c] = "userinfo" /\ pc[c] \in Waiting
      /\ UNCHANGED <<now, stops, url, states, came, codes, redeemed>>
      /\ \/ /\ minted' = minted \cup {s0} /\ cookie' \in {cookie, s0}
            /\ Reply(c, "done")
         \/ minted' = minted /\ cookie' = cookie /\ Reply(c, "failed")
  BY DEF UserInfo, Waiting, browserVars
<1>2. /\ k \in Code /\ codes[k] # Null /\ k \in redeemed
      /\ l0 = codes[k].state /\ l0 \in Login /\ l0 \in came
      /\ codes[k].user \in User
  BY <1>1 DEF CallsOfLogins, CodesOfLogins, TypeOK, CodeData
<1>3. /\ s0 \in Session /\ s0.code = k /\ s0.user = codes[k].user /\ s0.at = now
      /\ s0.expiry = Unix(s0.at + SessionTTL)
  <2>1. now \in Nat /\ now + SessionTTL \in Nat
    BY DEF TypeOK
  <2>2. Unix(now + SessionTTL) \in Nat
    BY <2>1, UnixType
  <2>3. s0 = [user |-> codes[k].user, expiry |-> Unix(now + SessionTTL), at |-> now, code |-> k]
    BY DEF NewSession
  <2> HIDE DEF s0, IInv, NewSession
  <2>4. QED
    BY <1>2, <2>1, <2>2, <2>3 DEF Session
<1>4. now <= url[l0].at + LoginTTL + HttpTimeout + HttpTimeout
  <2>1. url[l0] # Null /\ url[l0].at \in Nat
    BY <1>2 DEF CodesOfLogins, TypeOK, Begun
  <2>2. /\ since[c] <= url[l0].at + LoginTTL + HttpTimeout /\ now <= since[c] + HttpTimeout
        /\ since[c] \in Nat /\ now \in Nat
    BY <1>1 DEF CallsOfLogins, TypeOK
  <2>3. QED
    BY <2>1, <2>2
<1>5. TypeOK'
  <2>1. minted' \subseteq Session /\ cookie' \in Session \cup {Null}
    BY <1>1, <1>3 DEF TypeOK
  <2>2. QED
    BY <1>1, <2>1 DEF TypeOK, Reply, Waiting, Answer
<1>6. LoginsPast' /\ CodesOfLogins' /\ StatesAreOpenLogins'
  BY <1>1 DEF LoginsPast, CodesOfLogins, StatesAreOpenLogins
<1>7. \A d \in Call : pc'[d] \in Waiting =>
           /\ d # c /\ pc[d] \in Waiting /\ pc'[d] = pc[d]
           /\ since'[d] = since[d] /\ verifier'[d] = verifier[d]
           /\ state'[d] = state[d] /\ code'[d] = code[d]
  BY <1>1 DEF Reply, TypeOK, Waiting, Answer
<1>8. CallsOfLogins' /\ Exclusive'
  BY <1>1, <1>7 DEF CallsOfLogins, Exclusive
<1>9. CookieMinted'
  BY <1>1 DEF CookieMinted
<1>10. \A s \in minted : codes[s.code].state # l0
  BY <1>1, <1>2 DEF SessionsOfLogins
<1>11. OncePerLogin'
  BY <1>1, <1>2, <1>3, <1>10 DEF OncePerLogin
<1>12. \A d \in Call : pc'[d] \in Waiting => state'[d] # l0
  BY <1>1, <1>7 DEF Exclusive
<1>13. SessionsOfLogins'
  <2> SUFFICES ASSUME NEW s \in minted'
               PROVE  LET l == codes[s.code].state IN
                      /\ s.code \in redeemed /\ codes[s.code].user = s.user
                      /\ l \in came
                      /\ s.at <= now /\ s.at <= url[l].at + LoginTTL + HttpTimeout + HttpTimeout
                      /\ s.expiry = Unix(s.at + SessionTTL)
                      /\ \A d \in Call : pc'[d] \in Waiting => state'[d] # l
    BY <1>1, <1>7 DEF SessionsOfLogins, Unix
  <2>1. CASE s \in minted
    BY <1>7, <2>1 DEF SessionsOfLogins
  <2>2. CASE s = s0
    <3>1. now <= now
      BY DEF TypeOK
    <3>2. QED
      BY <1>2, <1>3, <1>4, <1>12, <2>2, <3>1
  <2>3. QED
    BY <1>1, <2>1, <2>2
<1>14. QED
  BY <1>5, <1>6, <1>8, <1>9, <1>11, <1>13

LEMMA ReturnStep ==
  ASSUME IInv, NEW c \in Call, Return(c)
  PROVE  IInv'
<1> USE LoginAssumption DEF IInv, Return, keycloakVars, browserVars
<1>1. TypeOK'
  BY DEF TypeOK
<1>2. LoginsPast' /\ CodesOfLogins' /\ StatesAreOpenLogins' /\ CookieMinted' /\ OncePerLogin'
  BY DEF LoginsPast, CodesOfLogins, StatesAreOpenLogins, CookieMinted, OncePerLogin
<1>3. \A d \in Call : pc'[d] \in Waiting =>
        /\ pc[d] \in Waiting /\ pc'[d] = pc[d]
  BY DEF TypeOK, Waiting, Answer
<1>4. CallsOfLogins' /\ Exclusive' /\ SessionsOfLogins'
  BY <1>3 DEF CallsOfLogins, Exclusive, SessionsOfLogins
<1>5. QED
  BY <1>1, <1>2, <1>4

LEMMA HandleLogoutStep == IInv /\ HandleLogout => IInv'
<1> SUFFICES ASSUME IInv, HandleLogout PROVE IInv'
  OBVIOUS
<1> USE LoginAssumption DEF IInv, HandleLogout, keycloakVars, callVars
<1>1. TypeOK' /\ LoginsPast' /\ CodesOfLogins' /\ StatesAreOpenLogins'
  BY DEF TypeOK, LoginsPast, CodesOfLogins, StatesAreOpenLogins
<1>2. CallsOfLogins' /\ Exclusive' /\ SessionsOfLogins' /\ CookieMinted' /\ OncePerLogin'
  BY DEF CallsOfLogins, Exclusive, SessionsOfLogins, CookieMinted, OncePerLogin
<1>3. QED
  BY <1>1, <1>2

LEMMA RestartStep == IInv /\ Restart => IInv'
<1> SUFFICES ASSUME IInv, Restart PROVE IInv'
  OBVIOUS
<1> USE LoginAssumption DEF IInv, Restart, keycloakVars, browserVars
<1>1. TypeOK' /\ LoginsPast' /\ CodesOfLogins'
  BY DEF TypeOK, LoginsPast, CodesOfLogins, Begun
<1>2. StatesAreOpenLogins'
  <2>1. \A l \in Login : url[l] # Null => url[l].boot # stops'
    BY DEF TypeOK, LoginsPast, Begun
  <2>2. QED
    BY <2>1 DEF StatesAreOpenLogins
<1>3. CallsOfLogins' /\ Exclusive' /\ SessionsOfLogins' /\ CookieMinted' /\ OncePerLogin'
  BY DEF CallsOfLogins, Exclusive, SessionsOfLogins, CookieMinted, OncePerLogin, Waiting
<1>4. QED
  BY <1>1, <1>2, <1>3

LEMMA TickStep == IInv /\ Tick => IInv'
<1> SUFFICES ASSUME IInv, Tick PROVE IInv'
  OBVIOUS
<1> USE LoginAssumption DEF IInv, Tick, keycloakVars, callVars, browserVars
<1>1. TypeOK' /\ CodesOfLogins' /\ StatesAreOpenLogins'
  BY DEF TypeOK, CodesOfLogins, StatesAreOpenLogins
<1>2. LoginsPast'
  BY DEF TypeOK, LoginsPast, Begun
<1>3. CallsOfLogins'
  BY DEF TypeOK, CallsOfLogins
<1>4. SessionsOfLogins'
  BY DEF TypeOK, SessionsOfLogins, Session
<1>5. Exclusive' /\ CookieMinted' /\ OncePerLogin'
  BY DEF Exclusive, CookieMinted, OncePerLogin
<1>6. QED
  BY <1>1, <1>2, <1>3, <1>4, <1>5

LEMMA StutterStep == IInv /\ UNCHANGED vars => IInv'
<1> SUFFICES ASSUME IInv, UNCHANGED vars PROVE IInv'
  OBVIOUS
<1> USE DEF IInv, vars, keycloakVars, callVars, browserVars
<1>1. TypeOK' /\ LoginsPast' /\ CodesOfLogins' /\ StatesAreOpenLogins'
  BY DEF TypeOK, LoginsPast, CodesOfLogins, StatesAreOpenLogins
<1>2. CallsOfLogins' /\ Exclusive' /\ SessionsOfLogins' /\ CookieMinted' /\ OncePerLogin'
  BY DEF CallsOfLogins, Exclusive, SessionsOfLogins, CookieMinted, OncePerLogin
<1>3. QED
  BY <1>1, <1>2

-----------------------------------------------------------------------------
(* The invariant the theorems below follow from: every step keeps it.  It    *)
(* contains TypeOK, OncePerLogin and StatesAreOpenLogins.                   *)
THEOREM LoginInvariant == Spec => []IInv
<1>1. IInv /\ [Next]_vars => IInv'
  <2> SUFFICES ASSUME IInv, [Next]_vars PROVE IInv'
    OBVIOUS
  <2>1. ASSUME NEW l \in Login, LoginURL(l) PROVE IInv'
    BY <2>1, LoginURLStep
  <2>2. ASSUME NEW l \in Login, NEW u \in User, NEW k \in Code, Authenticate(l, u, k)
        PROVE  IInv'
    BY <2>2, AuthenticateStep
  <2>3. ASSUME NEW c \in Call, NEW l \in Login \cup {Null}, NEW k \in Code \cup {Null},
               HandleCallback(c, l, k)
        PROVE  IInv'
    BY <2>3, HandleCallbackStep
  <2>4. ASSUME NEW c \in Call, Exchange(c) PROVE IInv'
    BY <2>4, ExchangeStep
  <2>5. ASSUME NEW c \in Call, UserInfo(c) PROVE IInv'
    BY <2>5, UserInfoStep
  <2>6. ASSUME NEW c \in Call, Return(c) PROVE IInv'
    BY <2>6, ReturnStep
  <2>7. QED
    BY <2>1, <2>2, <2>3, <2>4, <2>5, <2>6,
       HandleLogoutStep, RestartStep, TickStep, StutterStep DEF Next
<1>2. QED
  BY InitIInv, <1>1, PTL DEF Spec

(* auth.go: a login gives one session at most. *)
THEOREM LoginOnce == Spec => []OncePerLogin
<1>1. IInv => OncePerLogin
  BY DEF IInv
<1>2. QED
  BY <1>1, LoginInvariant, PTL

(* auth.go: the map of states holds the logins that are still open. *)
THEOREM OpenLogins == Spec => []StatesAreOpenLogins
<1>1. IInv => StatesAreOpenLogins
  BY DEF IInv
<1>2. QED
  BY <1>1, LoginInvariant, PTL

(* auth.go: a cookie is accepted for SessionTTL, and less than a second more. *)
THEOREM SessionTerm == Spec => []SessionRunsItsTerm
<1>1. IInv => SessionRunsItsTerm
  <2> SUFFICES ASSUME IInv, NEW s \in minted
               PROVE  /\ now <= s.at + SessionTTL => Accepts(s)
                      /\ Accepts(s) => now <= s.at + SessionTTL + 1
    BY DEF SessionRunsItsTerm
  <2>1. now \in Nat /\ s.at + SessionTTL \in Nat /\ s.expiry = Unix(s.at + SessionTTL)
    BY LoginAssumption DEF IInv, TypeOK, SessionsOfLogins, Session
  <2> DEFINE end == s.at + SessionTTL
  <2>2. /\ Unix(now) \in Nat /\ 2 * Unix(now) <= now /\ now <= 2 * Unix(now) + 1
        /\ Unix(end) \in Nat /\ 2 * Unix(end) <= end /\ end <= 2 * Unix(end) + 1
    BY <2>1, UnixType
  <2>3. /\ now <= end => Unix(now) <= Unix(end)
        /\ Unix(now) <= Unix(end) => now <= end + 1
    BY <2>1, <2>2
  <2>4. QED
    BY <2>1, <2>3 DEF Accepts
<1>2. QED
  BY <1>1, LoginInvariant, PTL

(* auth.go: a request acts as a user who signed in, on a page this service   *)
(* opened not longer ago than a login and a session may last.               *)
THEOREM FreshLogins == Spec => []ActsOnFreshLogin
<1> USE LoginAssumption
<1>1. IInv => ActsOnFreshLogin
  <2> SUFFICES ASSUME IInv, NEW header \in User \cup {Null}, Actor(header) # Null,
                      ~(AllowHeaderAuth /\ Actor(header) = header)
               PROVE  \E k \in redeemed :
                        /\ codes[k].user = Actor(header)
                        /\ now <= url[codes[k].state].at + LoginTTL + 2 * HttpTimeout
                                  + SessionTTL + 1
    BY DEF ActsOnFreshLogin
  <2>1. cookie # Null /\ Accepts(cookie) /\ Actor(header) = cookie.user
    BY DEF Actor
  <2>2. cookie \in minted /\ cookie.code \in redeemed
        /\ codes[cookie.code].user = cookie.user
    BY <2>1 DEF IInv, CookieMinted, SessionsOfLogins
  <2> DEFINE l == codes[cookie.code].state
  <2>3. /\ cookie.at \in Nat /\ now \in Nat /\ url[l].at \in Nat
        /\ cookie.at <= url[l].at + LoginTTL + HttpTimeout + HttpTimeout
        /\ cookie.expiry = Unix(cookie.at + SessionTTL)
    BY <2>2 DEF IInv, SessionsOfLogins, TypeOK, Session, LoginsPast, Begun
  <2>4. now <= cookie.at + SessionTTL + 1
    <3>1. cookie.at + SessionTTL \in Nat
      BY <2>3
    <3>2. QED
      BY <2>1, <2>3, <3>1, UnixType DEF Accepts
  <2>5. now <= url[l].at + LoginTTL + 2 * HttpTimeout + SessionTTL + 1
    BY <2>3, <2>4
  <2>6. QED
    BY <2>1, <2>2, <2>5
<1>2. QED
  BY <1>1, LoginInvariant, PTL

(* auth.go: a callback is refused for a cause. *)
THEOREM RefusedCause == Spec => RefusedForCause
<1> USE LoginAssumption
<1> DEFINE Refused(c) ==
      /\ pc[c] # "bad_state" /\ pc'[c] = "bad_state" =>
           \A l \in came' \ came : \/ url[l].boot < stops
                                  \/ now > url[l].at + LoginTTL
      /\ pc[c] = "exchange" /\ pc'[c] = "denied" =>
           \/ code[c] = Null
           \/ codes[code[c]].state # state[c]
           \/ Stale(code[c])
<1>1. ASSUME IInv, [Next]_vars, NEW c \in Call
      PROVE  Refused(c)
  <2>1. ASSUME NEW d \in Call, NEW l \in Login \cup {Null}, NEW k \in Code \cup {Null},
               HandleCallback(d, l, k)
        PROVE  Refused(c)
    <3> SUFFICES ASSUME c = d, pc'[c] = "bad_state", l # Null, l \notin came
                 PROVE  url[l].boot < stops \/ now > url[l].at + LoginTTL
      <4>1. came' \ came \subseteq {l} \ {Null}
        BY <2>1 DEF HandleCallback
      <4>2. pc[d] = "idle" /\ (c # d => pc'[c] = pc[c])
        BY <1>1, <2>1 DEF IInv, TypeOK, HandleCallback, Send, Reply
      <4>3. QED
        BY <4>1, <4>2
    <3>1. l \in Login /\ url[l] # Null /\ ~Awaited(l)
      <4>1. url[l] # Null
        BY <2>1 DEF HandleCallback
      <4>2. ~Awaited(l)
        BY <1>1, <2>1 DEF IInv, TypeOK, HandleCallback, Send
      <4>3. QED
        BY <4>1, <4>2
    <3>2. CASE states[l] = Null
      <4>1. url[l].boot # stops
        BY <1>1, <3>1, <3>2 DEF IInv, StatesAreOpenLogins
      <4>2. url[l].boot <= stops /\ url[l].boot \in Nat /\ stops \in Nat
        BY <1>1, <3>1 DEF IInv, LoginsPast, TypeOK, Begun
      <4>3. QED
        BY <4>1, <4>2
    <3>3. CASE states[l] # Null
      <4>1. states[l].expiry = url[l].at + LoginTTL
        BY <1>1, <3>3 DEF IInv, LoginsPast
      <4>2. QED
        BY <3>1, <3>3, <4>1 DEF Awaited, TooLate
    <3>4. QED
      BY <3>2, <3>3
  <2>2. ASSUME NEW d \in Call, Exchange(d)
        PROVE  Refused(c)
    <3> SUFFICES ASSUME c = d, pc'[c] = "denied", code[c] # Null
                 PROVE  codes[code[c]].state # state[c] \/ Stale(code[c])
      BY <1>1, <2>2 DEF IInv, TypeOK, Exchange, Send, Reply
    <3>1. pc[c] = "exchange" /\ ~Redeemable(code[c], verifier[c])
      BY <1>1, <2>2 DEF IInv, TypeOK, Exchange, Send, Reply
    <3>2. /\ verifier[c] = state[c] /\ code[c] \in Code
          /\ codes[code[c]].challenge = codes[code[c]].state
      BY <1>1, <3>1 DEF IInv, TypeOK, CallsOfLogins, CodesOfLogins, Waiting
    <3>3. QED
      BY <3>1, <3>2 DEF Redeemable
  <2>3. ASSUME NEW d \in Call, UserInfo(d) \/ Return(d)
        PROVE  Refused(c)
    BY <1>1, <2>3 DEF IInv, TypeOK, UserInfo, Return, Reply
  <2>4. CASE Restart
    BY <1>1, <2>4 DEF Restart, IInv, TypeOK
  <2>5. CASE \/ \E l \in Login : LoginURL(l)
             \/ \E l \in Login, u \in User, k \in Code : Authenticate(l, u, k)
             \/ HandleLogout \/ Tick \/ UNCHANGED vars
    BY <2>5 DEF LoginURL, Authenticate, HandleLogout, Tick, vars, callVars
  <2>6. QED
    BY <1>1, <2>1, <2>2, <2>3, <2>4, <2>5 DEF Next
<1>2. IInv /\ [Next]_vars => [\A c \in Call : Refused(c)]_vars
  BY <1>1
<1>3. QED
  BY <1>2, LoginInvariant, PTL DEF Spec, RefusedForCause
=============================================================================
