--------------------------- MODULE UiRefreshProofs ---------------------------
(***************************************************************************)
(* The drafts of the approver's page, for any number of requests and of     *)
(* refreshes under way.                                                    *)
(*                                                                         *)
(* DraftKept is not inductive: a list that arrives fills the text areas     *)
(* from the copy its loadRequests took before the answer was awaited, so    *)
(* the copies must hold what the user last typed too.  A copy is out of     *)
(* date only where he typed while a list was awaited, and those are hurt;   *)
(* a text area that is not there yet stands for an empty one.              *)
(***************************************************************************)
EXTENDS UiRefresh, TLAPS

TypeOK ==
  /\ box \in Boxes /\ draft \in [Chain -> Boxes]
  /\ typed \in [Req -> Note \cup {""}] /\ hurt \subseteq Req
  /\ pc \in [Chain -> Call \cup {"idle"}]

(* What a text area says; where there is none, no text. *)
Text(area) == IF area = Null THEN "" ELSE area

BoxesHold == \A r \in Req : r \notin hurt => typed[r] = Text(box[r])

DraftsHold == \A c \in Chain, r \in Req :
                pc[c] = "list" /\ r \notin hurt => typed[r] = Text(draft[c][r])

IInv == TypeOK /\ BoxesHold /\ DraftsHold

-----------------------------------------------------------------------------
LEMMA Initially == Init => IInv
<1> SUFFICES ASSUME Init
             PROVE  IInv
  OBVIOUS
<1>1. /\ box = NoBox /\ hurt = {} /\ typed = [r \in Req |-> ""]
      /\ draft = [c \in Chain |-> NoBox]
  BY DEF Init
<1>2. PICK c \in Chain : pc = [d \in Chain |-> IF d = c THEN "me" ELSE "idle"]
  BY DEF Init
<1>3. NoBox \in Boxes /\ \A r \in Req : Text(NoBox[r]) = ""
  BY DEF NoBox, Boxes, Text
<1>4. TypeOK
  BY <1>1, <1>2, <1>3 DEF TypeOK, Call
<1>5. BoxesHold
  BY <1>1, <1>3 DEF BoxesHold
<1>6. DraftsHold
  BY <1>2 DEF DraftsHold
<1>7. QED
  BY <1>4, <1>5, <1>6 DEF IInv

(* A step that touches no text and leaves no chain waiting for a list that  *)
(* was not waiting for it before.                                          *)
LEMMA NoText ==
  ASSUME IInv, UNCHANGED <<box, draft, userVars>>,
         pc' \in [Chain -> Call \cup {"idle"}],
         \A c \in Chain : pc'[c] = "list" => pc[c] = "list"
  PROVE  IInv'
BY DEF IInv, TypeOK, BoxesHold, DraftsHold, Text, Boxes, userVars

(* Buttons and the interval start a call other than a list. *)
LEMMA StartSafe ==
  ASSUME IInv, NEW c \in Chain, NEW call \in Call \ {"list"}, NEW r, Start(c, call, r)
  PROVE  IInv'
<1>1. UNCHANGED <<box, draft, userVars>>
  BY DEF Start, pageVars
<1>2. pc \in [Chain -> Call \cup {"idle"}] /\ pc' = [pc EXCEPT ![c] = call]
  BY DEF IInv, TypeOK, Start
<1>3. QED
  BY <1>1, <1>2, NoText

(* What is typed while a list is awaited hurts its text area; what is typed *)
(* otherwise heals it, and no copy is left to undo it.                      *)
LEMMA TypeSafe ==
  ASSUME IInv, NEW r \in Req, NEW text \in Note \cup {""}, Type(r, text)
  PROVE  IInv'
<1>1. /\ box' = [box EXCEPT ![r] = text] /\ typed' = [typed EXCEPT ![r] = text]
      /\ UNCHANGED <<draft, pc>>
      /\ hurt' = IF ListAwaited THEN hurt \cup {r} ELSE hurt \ {r}
  BY DEF Type, chainVars
<1>2. TypeOK'
  BY <1>1 DEF IInv, TypeOK, Boxes
<1>3. text # Null
  BY PageAssumption DEF PageAssumption
<1>4. BoxesHold'
  BY <1>1, <1>3 DEF IInv, TypeOK, BoxesHold, Text, Boxes
<1>5. DraftsHold'
  <2> SUFFICES ASSUME NEW c \in Chain, NEW q \in Req, pc[c] = "list", q \notin hurt'
               PROVE  typed'[q] = Text(draft[c][q])
    BY <1>1 DEF DraftsHold, Text
  <2>1. ListAwaited
    BY DEF ListAwaited
  <2>2. q # r /\ q \notin hurt
    BY <1>1, <2>1
  <2>3. QED
    BY <1>1, <2>2 DEF IInv, TypeOK, DraftsHold
<1>6. QED
  BY <1>2, <1>4, <1>5 DEF IInv

(* The server's side and the answers that carry no list.                    *)
LEMMA AwaitTyped ==
  ASSUME IInv, NEW c \in Chain, NEW call \in Call \cup {"idle"}, Await(c, call)
  PROVE  /\ pc' \in [Chain -> Call \cup {"idle"}]
         /\ \A d \in Chain : pc'[d] = IF d = c THEN call ELSE pc[d]
BY DEF IInv, TypeOK, Await

LEMMA QuietArrivals ==
  ASSUME IInv, NEW c \in Chain, PostArrives(c) \/ LedgerArrives(c)
  PROVE  IInv'
<1>1. UNCHANGED <<box, draft, userVars>>
  BY DEF PostArrives, LedgerArrives, pageVars
<1>2. PICK call \in {"me", "idle"} : Await(c, call)
  BY DEF PostArrives, LedgerArrives
<1>3. call \in Call \cup {"idle"} /\ call # "list"
  BY <1>2 DEF Call
<1>4. QED
  BY <1>1, <1>2, <1>3, AwaitTyped, NoText

LEMMA ServerSafe ==
  ASSUME IInv,
         \/ \E r \in Req, status \in Status : ServerMoves(r, status)
         \/ \E c \in Chain : Serve(c)
         \/ UNCHANGED vars
  PROVE  IInv'
<1>1. UNCHANGED <<box, draft, userVars, pc>>
  BY DEF ServerMoves, Serve, ServeRead, ServePost, Answered, vars, pageVars, chainVars
<1>2. QED
  BY <1>1, NoText DEF IInv, TypeOK

(* /me is in: the copy a new loadRequests takes is what the text areas say. *)
LEMMA MeSafe ==
  ASSUME IInv, NEW c \in Chain, MeArrives(c)
  PROVE  IInv'
<1>1. UNCHANGED <<box, typed, hurt>>
  BY DEF MeArrives, userVars
<1>2. CASE Await(c, "list") /\ draft' = [draft EXCEPT ![c] = box]
  <2>1. /\ pc' \in [Chain -> Call \cup {"idle"}]
        /\ \A d \in Chain : pc'[d] = IF d = c THEN "list" ELSE pc[d]
    BY <1>2, AwaitTyped DEF Call
  <2>2. TypeOK'
    BY <1>1, <1>2, <2>1 DEF IInv, TypeOK
  <2>3. DraftsHold'
    <3> SUFFICES ASSUME NEW d \in Chain, NEW r \in Req, pc'[d] = "list", r \notin hurt
                 PROVE  typed[r] = Text(draft'[d][r])
      BY <1>1 DEF DraftsHold, Text
    <3>1. CASE d = c
      BY <1>2, <3>1 DEF IInv, TypeOK, BoxesHold
    <3>2. CASE d # c
      BY <1>2, <2>1, <3>2 DEF IInv, TypeOK, DraftsHold
    <3>3. QED
      BY <3>1, <3>2
  <2>4. QED
    BY <1>1, <2>2, <2>3 DEF IInv, BoxesHold, Text
<1>3. CASE Await(c, "idle") /\ UNCHANGED draft
  <2>1. \A d \in Chain : pc'[d] = "list" => pc[d] = "list"
    BY <1>3, AwaitTyped
  <2>2. QED
    BY <1>1, <1>3, <2>1, AwaitTyped, NoText DEF userVars
<1>4. QED
  BY <1>2, <1>3 DEF MeArrives

(* The list is in: a text area that stays gets the copy, one that goes with *)
(* text in it is hurt, one that is new starts empty, as nothing was typed.  *)
LEMMA ListSafe ==
  ASSUME IInv, NEW c \in Chain, ListArrives(c)
  PROVE  IInv'
<1> DEFINE areas == [r \in Req |-> IF answer[c].body[r] = "pending" /\ me = "permanent"
                                   THEN Restored(c, r) ELSE Null]
<1>1. pc[c] = "list" /\ draft' = [draft EXCEPT ![c] = NoBox] /\ UNCHANGED typed
  BY DEF ListArrives
<1>2. PICK call \in {"ledger", "idle"} : Await(c, call)
  BY DEF ListArrives
<1>3. /\ pc' \in [Chain -> Call \cup {"idle"}]
      /\ \A d \in Chain : pc'[d] = IF d = c THEN call ELSE pc[d]
  BY <1>2, AwaitTyped DEF Call, Post
<1>4. hurt \subseteq hurt' /\ hurt' \subseteq Req
  BY DEF ListArrives, IInv, TypeOK
<1>5. DraftsHold'
  <2> SUFFICES ASSUME NEW d \in Chain, NEW r \in Req, pc'[d] = "list", r \notin hurt'
               PROVE  typed[r] = Text(draft'[d][r])
    BY <1>1 DEF DraftsHold, Text
  <2>1. d # c /\ pc[d] = "list" /\ r \notin hurt
    BY <1>2, <1>3, <1>4
  <2>2. QED
    BY <1>1, <2>1 DEF IInv, TypeOK, DraftsHold
<1>6. CASE UNCHANGED <<box, hurt>>
  <2>1. TypeOK'
    BY <1>1, <1>3, <1>6 DEF IInv, TypeOK, Boxes, NoBox
  <2>2. QED
    BY <1>1, <1>5, <1>6, <2>1 DEF IInv, BoxesHold, Text
<1>7. CASE box' = areas /\ hurt' = hurt \cup {r \in Req : box[r] \in Note /\ areas[r] = Null}
  <2>1. ASSUME NEW r \in Req
        PROVE  /\ areas[r] \in Note \cup {"", Null}
               /\ areas[r] = Null \/ areas[r] = Text(draft[c][r])
    BY <2>1 DEF IInv, TypeOK, Boxes, Restored, Text
  <2>2. TypeOK'
    BY <1>1, <1>3, <1>4, <1>7, <2>1 DEF IInv, TypeOK, Boxes, NoBox
  <2>3. BoxesHold'
    <3> SUFFICES ASSUME NEW r \in Req, r \notin hurt'
                 PROVE  typed[r] = Text(areas[r])
      BY <1>1, <1>7 DEF BoxesHold, Text
    <3>1. r \notin hurt
      BY <1>4
    <3>2. CASE areas[r] = Null
      <4>1. box[r] \notin Note
        BY <1>7, <3>2
      <4>2. Text(box[r]) = "" /\ Text(areas[r]) = ""
        BY <3>2, <4>1 DEF IInv, TypeOK, Boxes, Text
      <4>3. QED
        BY <3>1, <4>2 DEF IInv, BoxesHold
    <3>3. CASE areas[r] # Null
      <4>1. Text(areas[r]) = Text(draft[c][r])
        BY <2>1, <3>3 DEF Text
      <4>2. QED
        BY <1>1, <3>1, <4>1 DEF IInv, DraftsHold
    <3>4. QED
      BY <3>2, <3>3
  <2>4. QED
    BY <1>5, <2>2, <2>3 DEF IInv
<1>8. QED
  BY <1>6, <1>7 DEF ListArrives

-----------------------------------------------------------------------------
LEMMA Inductive == IInv /\ [Next]_vars => IInv'
<1> SUFFICES ASSUME IInv, [Next]_vars
             PROVE  IInv'
  OBVIOUS
<1>1. CASE \E r \in Req, text \in Note \cup {""} : Type(r, text)
  BY <1>1, TypeSafe
<1>2. CASE \/ \E r \in Req, status \in Status : ServerMoves(r, status)
           \/ \E c \in Chain : Serve(c)
           \/ UNCHANGED vars
  BY <1>2, ServerSafe
<1>3. ASSUME NEW c \in Chain,
             \/ Interval(c) \/ LabGo(c) \/ AuditButton(c) \/ CreateButton(c)
             \/ \E r \in Req : ApproveButton(c, r) \/ ReleaseButton(c, r)
      PROVE  IInv'
  <2>1. {"me", "ledger", "create", "approve", "release"} \subseteq Call \ {"list"}
    BY DEF Call, Post
  <2>2. QED
    BY <1>3, <2>1, StartSafe
       DEF Interval, LabGo, AuditButton, CreateButton, ApproveButton, ReleaseButton
<1>4. ASSUME NEW c \in Chain, Arrive(c)
      PROVE  IInv'
  BY <1>4, QuietArrivals, MeSafe, ListSafe DEF Arrive
<1>5. QED
  BY <1>1, <1>2, <1>3, <1>4 DEF Next

(* A text area holds what the user last left there, whatever overlaps and   *)
(* whatever order the answers come in, unless he typed while a list was     *)
(* awaited or the area was taken away with text in it (app.js,              *)
(* loadRequests).                                                          *)
THEOREM DraftsAreKept == Spec => []DraftKept
<1>1. IInv => DraftKept
  BY DEF IInv, BoxesHold, Text, DraftKept
<1>2. QED
  BY <1>1, Initially, Inductive, PTL DEF Spec
=============================================================================
