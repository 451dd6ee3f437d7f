------------------------------ MODULE UiRefresh ------------------------------
(***************************************************************************)
(* The approver's page, internal/ui/static/app.js.  refresh() asks for the *)
(* user, then for the list of requests, which it renders with a text area   *)
(* for the notes of each pending one, then for the list again to render the *)
(* ledger.  It runs at load, every ten seconds, and after each approval and *)
(* release; nothing serialises it, so that several are under way and their  *)
(* answers overtake each other.  The user types at any time.               *)
(*                                                                         *)
(* JavaScript runs from one await to the next without interruption: a step *)
(* here is the code between two of them, an answer of the server, or what   *)
(* the user does.  The server (JitAccess) is the environment: its handlers *)
(* and its reconciler store copies over whatever the table has by then, and *)
(* a call may fail or find Keycloak out of order, which handleMe reports as *)
(* "not permanent".                                                        *)
(***************************************************************************)

CONSTANTS
  Req, Null,
  Own,       \* requests of the user himself
  Note,      \* texts of eight characters and more an approver may type
  Chain      \* runs of refresh and of the buttons that may overlap

ASSUME PageAssumption ==
  Null \notin Note \cup {""} /\ "" \notin Note /\ Own \subseteq Req

VARIABLES
  server,  \* the requests table
  me,      \* what the last /me that succeeded said: "permanent", "other"
  view,    \* "blank", "gate" (the sign-in panel) or "app"
  queue,   \* the rows of #requests
  box,     \* their text areas, Null where there is none
  release, \* their Release buttons
  ledger,  \* the rows of #audit
  pc,      \* the call each chain awaits
  target,  \* the request a button was for
  draft,   \* notesDraft of a loadRequests
  answer,  \* the server's answer on its way to the page
  typed,   \* what the user last left in each text area
  hurt     \* text areas typed in while a list was awaited, or removed with text

pageVars == <<me, view, queue, box, release, ledger>>
chainVars == <<pc, target, draft, answer>>
userVars == <<typed, hurt>>
vars == <<server, pageVars, chainVars, userVars>>

Status == {"absent", "pending", "approved", "closed"}   \* closed: released, expired
Table == [Req -> Status]
Boxes == [Req -> Note \cup {"", Null}]
NoBox == [r \in Req |-> Null]
Post == {"create", "approve", "release"}
Call == Post \cup {"me", "list", "ledger"}

Init ==
  /\ server \in Table
  /\ me = Null /\ view = "blank"
  /\ queue = [r \in Req |-> "absent"] /\ ledger = queue
  /\ box = NoBox /\ release = {}
  /\ \E c \in Chain : pc = [d \in Chain |-> IF d = c THEN "me" ELSE "idle"]
  /\ target = [c \in Chain |-> Null]
  /\ draft = [c \in Chain |-> NoBox]
  /\ answer = [c \in Chain |-> Null]
  /\ typed = [r \in Req |-> ""] /\ hurt = {}

-----------------------------------------------------------------------------
(* What the user does, and the ten-second interval.  The interval waits     *)
(* for a first /me that succeeds.  A button sends what is there when it is  *)
(* clicked.                                                                 *)
Start(c, call, r) ==
  /\ pc[c] = "idle"
  /\ pc' = [pc EXCEPT ![c] = call]
  /\ target' = [target EXCEPT ![c] = r]
  /\ UNCHANGED <<server, pageVars, draft, answer, userVars>>

Interval(c) == me # Null /\ Start(c, "me", Null)

LabGo(c) == view = "gate" /\ Start(c, "me", Null)

AuditButton(c) == view = "app" /\ Start(c, "ledger", Null)

CreateButton(c) == view = "app" /\ Start(c, "create", Null)

ApproveButton(c, r) == view = "app" /\ box[r] \in Note /\ Start(c, "approve", r)

ReleaseButton(c, r) == view = "app" /\ r \in release /\ Start(c, "release", r)

ListAwaited == \E c \in Chain : pc[c] = "list"

Type(r, text) ==
  /\ view = "app" /\ box[r] # Null
  /\ box' = [box EXCEPT ![r] = text]
  /\ typed' = [typed EXCEPT ![r] = text]
  /\ hurt' = IF ListAwaited THEN hurt \cup {r} ELSE hurt \ {r}
  /\ UNCHANGED <<server, me, view, queue, release, ledger, chainVars>>

-----------------------------------------------------------------------------
(* The server: others and the reconciler move requests on; a call of the    *)
(* page is done, or answered with an error, or done and its answer lost.    *)
(* What an operation stores is not bound to the row it replaces, which may  *)
(* have changed since the operation read it; none stores "pending" again.   *)
(* An approval that finds its request expired is a ServerMoves and a        *)
(* refused answer.                                                         *)
Moves(x, y) == \/ x = "absent" /\ y = "pending"
               \/ x # "absent" /\ y \in {"approved", "closed"}

ServerMoves(r, status) ==
  /\ Moves(server[r], status)
  /\ server' = [server EXCEPT ![r] = status]
  /\ UNCHANGED <<pageVars, chainVars, userVars>>

Stored == [create |-> "pending", approve |-> "approved", release |-> "closed"]

Answered(c, ok, body) ==
  /\ answer' = [answer EXCEPT ![c] = [ok |-> ok, body |-> body]]
  /\ UNCHANGED <<pageVars, pc, target, draft, userVars>>

(* /me is "other" of a permanent administrator if Keycloak fails. *)
ServeRead(c) ==
  /\ pc[c] \in {"me", "list", "ledger"} /\ answer[c] = Null
  /\ \/ pc[c] = "me" /\ \E who \in {"permanent", "other"} : Answered(c, TRUE, who)
     \/ pc[c] # "me" /\ Answered(c, TRUE, server)
     \/ Answered(c, FALSE, Null)
  /\ UNCHANGED server

ServePost(c) ==
  /\ pc[c] \in Post /\ answer[c] = Null
  /\ \/ /\ \E r \in (IF target[c] = Null THEN Req ELSE {target[c]}) :
             /\ Moves(server[r], Stored[pc[c]])
             /\ server' = [server EXCEPT ![r] = Stored[pc[c]]]
        /\ \E ok \in BOOLEAN : Answered(c, ok, Null)
     \/ UNCHANGED server /\ Answered(c, FALSE, Null)

-----------------------------------------------------------------------------
(* The answers arrive.  A call that fails throws, and its chain is over;    *)
(* after a failed /me the page is hidden but me stays as it was.            *)
Await(c, call) == /\ pc' = [pc EXCEPT ![c] = call]
                  /\ answer' = [answer EXCEPT ![c] = Null]
                  /\ target' = [target EXCEPT ![c] = Null]

PostArrives(c) ==
  /\ pc[c] \in Post /\ answer[c] # Null
  /\ Await(c, IF answer[c].ok THEN "me" ELSE "idle")
  /\ UNCHANGED <<server, pageVars, draft, userVars>>

MeArrivesForgets(c) ==                 \* mutant: a failed /me forgets the user
  /\ pc[c] = "me" /\ answer[c] # Null
  /\ IF answer[c].ok
     THEN /\ me' = answer[c].body /\ view' = "app"
          /\ draft' = [draft EXCEPT ![c] = box]
          /\ Await(c, "list")
     ELSE me' = Null /\ view' = "gate" /\ Await(c, "idle") /\ UNCHANGED draft
  /\ UNCHANGED <<server, queue, box, release, ledger, userVars>>

(* loadRequests reads the text areas as soon as /me is in, then asks.       *)
MeArrives(c) ==
  /\ pc[c] = "me" /\ answer[c] # Null
  /\ IF answer[c].ok
     THEN /\ me' = answer[c].body /\ view' = "app"
          /\ draft' = [draft EXCEPT ![c] = box]
          /\ Await(c, "list")
     ELSE view' = "gate" /\ Await(c, "idle") /\ UNCHANGED <<me, draft>>
  /\ UNCHANGED <<server, queue, box, release, ledger, userVars>>

RestoredNothing(c, r) == ""            \* mutant: text areas start empty

Restored(c, r) == IF draft[c][r] = Null THEN "" ELSE draft[c][r]

(* The list arrives: rows, text areas and buttons are made anew for what me *)
(* is now, and the drafts are put back where a text area is.  An empty list *)
(* leaves none.  Then the ledger's list is asked for.                       *)
ListArrives(c) ==
  LET rows == answer[c].body
      areas == [r \in Req |-> IF rows[r] = "pending" /\ me = "permanent"
                              THEN Restored(c, r) ELSE Null]
  IN
  /\ pc[c] = "list" /\ answer[c] # Null
  /\ IF answer[c].ok
     THEN /\ queue' = rows /\ box' = areas
          /\ release' = {r \in Req : rows[r] = "approved" /\ (me = "permanent" \/ r \in Own)}
          /\ hurt' = hurt \cup {r \in Req : box[r] \in Note /\ areas[r] = Null}
          /\ Await(c, "ledger")
     ELSE Await(c, "idle") /\ UNCHANGED <<queue, box, release, hurt>>
  /\ draft' = [draft EXCEPT ![c] = NoBox]
  /\ UNCHANGED <<server, me, view, ledger, typed>>

LedgerArrives(c) ==
  /\ pc[c] = "ledger" /\ answer[c] # Null
  /\ ledger' = IF answer[c].ok THEN answer[c].body ELSE ledger
  /\ Await(c, "idle")
  /\ UNCHANGED <<server, me, view, queue, box, release, draft, userVars>>

-----------------------------------------------------------------------------
Serve(c) == ServeRead(c) \/ ServePost(c)

Arrive(c) == PostArrives(c) \/ MeArrives(c) \/ ListArrives(c) \/ LedgerArrives(c)

Next ==
  \/ \E r \in Req, text \in Note \cup {""} : Type(r, text)
  \/ \E r \in Req, status \in Status : ServerMoves(r, status)
  \/ \E c \in Chain :
       \/ Interval(c) \/ LabGo(c) \/ AuditButton(c) \/ CreateButton(c)
       \/ \E r \in Req : ApproveButton(c, r) \/ ReleaseButton(c, r)
       \/ Serve(c) \/ Arrive(c)

Spec == Init /\ [][Next]_vars

(* The interval fires again and again, also if buttons keep taking the      *)
(* chains, which are bounded only here; a call is answered (the browser     *)
(* gives up on it in the end), and one that is made again and again is      *)
(* answered well now and then.                                              *)
Fairness ==
  /\ SF_vars(\E c \in Chain : Interval(c))
  /\ \A c \in Chain : WF_vars(Serve(c)) /\ WF_vars(Arrive(c))
  /\ \A call \in {"me", "list", "ledger"} :
       SF_vars(\E c \in Chain : pc[c] = call /\ ServeRead(c) /\ answer'[c].ok)

FairSpec == Spec /\ Fairness

-----------------------------------------------------------------------------
(* A text area holds what the user last left there, however many refreshes  *)
(* overlap and whatever order their answers come in, unless he typed while  *)
(* a list was awaited or his text area was taken away: there is no third    *)
(* way to lose the notes.                                                   *)
DraftKept == \A r \in Req : box[r] # Null /\ r \notin hurt => box[r] = typed[r]

(* Once the requests have come to rest, queue and ledger show them as they  *)
(* are and go on doing so, although older lists may arrive after newer ones *)
(* and calls fail, /me among them; only a page no /me ever came back well   *)
(* for may stay empty.                                                      *)
AtRest == <>[][UNCHANGED server]_vars

NeverFilled == me = Null /\ \A r \in Req : queue[r] = "absent" /\ ledger[r] = "absent"

CatchesUp == AtRest => <>[](NeverFilled \/ (queue = server /\ ledger = server))
=============================================================================
