---------------------------- MODULE NotifierProofs ----------------------------
(***************************************************************************)
(* NotifyOnce posts at most once per (request, kind), for every number of  *)
(* goroutines, requests and process ends.                                  *)
(***************************************************************************)
EXTENDS Notifier, TLAPS

(* Every variable keeps its type. *)
LEMMA Typing ==
  ASSUME Null \notin Note PROVE Spec => []TypeOK
<1>1. Init => TypeOK
  BY DEF Init, TypeOK
<1>2. TypeOK /\ [Next]_vars => TypeOK'
  <2> SUFFICES ASSUME TypeOK, [Next]_vars
               PROVE  TypeOK'
    OBVIOUS
  <2>1. ASSUME NEW p \in Proc, NEW n \in Note, Mark(p, n)
        PROVE  TypeOK'
    BY <2>1 DEF TypeOK, Mark
  <2>2. ASSUME NEW p \in Proc, Post(p)
        PROVE  TypeOK'
    <3>1. posting[p] \in Note
      BY <2>2 DEF TypeOK, Post
    <3>2. QED
      BY <2>2, <3>1 DEF TypeOK, Post
  <2>3. CASE Crash
    BY <2>3 DEF TypeOK, Crash
  <2>4. CASE UNCHANGED vars
    BY <2>4 DEF TypeOK, vars
  <2>5. QED
    BY <2>1, <2>2, <2>3, <2>4 DEF Next
<1>3. QED
  BY <1>1, <1>2, PTL DEF Spec

(* A note is recorded before it is posted, and one goroutine at most is    *)
(* between the two.                                                        *)
LEMMA Ownership ==
  ASSUME Null \notin Note PROVE Spec => []Owned
<1>1. Init => Owned
  BY DEF Init, Owned
<1>2. TypeOK /\ Owned /\ [Next]_vars => Owned'
  <2> SUFFICES ASSUME TypeOK, Owned, [Next]_vars
               PROVE  Owned'
    OBVIOUS
  <2>1. ASSUME NEW p \in Proc, NEW n \in Note, Mark(p, n)
        PROVE  Owned'
    <3>1. \A q \in Proc : posting[q] # n
      BY <2>1 DEF Owned, Mark, FirstTime
    <3>2. posts[n] = 0
      BY <2>1 DEF Owned, Mark, FirstTime, TypeOK
    <3>3. QED
      BY <2>1, <3>1, <3>2 DEF Owned, Mark, TypeOK
  <2>2. ASSUME NEW p \in Proc, Post(p)
        PROVE  Owned'
    <3>1. \A q \in Proc \ {p} : posting[q] # posting[p]
      BY <2>2 DEF Owned, Post
    <3>2. QED
      BY <2>2, <3>1 DEF Owned, Post, TypeOK
  <2>3. CASE Crash
    BY <2>3 DEF Owned, Crash, TypeOK
  <2>4. CASE UNCHANGED vars
    BY <2>4 DEF Owned, vars
  <2>5. QED
    BY <2>1, <2>2, <2>3, <2>4 DEF Next
<1>3. QED
  BY <1>1, <1>2, Typing, PTL DEF Spec

(* At most one post per (request, kind): a step that posts a note again    *)
(* would find its goroutine owning a note posted before.                   *)
THEOREM PostedAtMostOnce ==
  ASSUME Null \notin Note PROVE Spec => []AtMostOnce
<1>1. Init => AtMostOnce
  BY DEF Init, AtMostOnce
<1>2. TypeOK /\ Owned /\ AtMostOnce /\ [Next]_vars => AtMostOnce'
  <2> SUFFICES ASSUME TypeOK, Owned, AtMostOnce, [Next]_vars
               PROVE  AtMostOnce'
    OBVIOUS
  <2>1. ASSUME NEW p \in Proc, Post(p)
        PROVE  AtMostOnce'
    BY <2>1 DEF AtMostOnce, Owned, Post, TypeOK
  <2>2. CASE UNCHANGED posts
    BY <2>2 DEF AtMostOnce
  <2>3. QED
    BY <2>1, <2>2 DEF Next, Mark, Crash, vars
<1>3. QED
  BY <1>1, <1>2, Typing, Ownership, PTL DEF Spec
=============================================================================
