------------------------------- MODULE Notifier -------------------------------
(***************************************************************************)
(* internal/notify with the notifications table of internal/store: every   *)
(* handler and the worker call NotifyOnce(requestID, kind), which records  *)
(* the pair with INSERT OR IGNORE and posts to the webhook only if the     *)
(* insert was the first.  The post comes after the mark and is never       *)
(* tried again.                                                            *)
(***************************************************************************)
EXTENDS Naturals

CONSTANTS Proc,  \* goroutines that may be inside NotifyOnce
          Note,  \* the (request, kind) pairs
          Null

VARIABLES notified,   \* rows of the notifications table
          posting,    \* the note a goroutine has marked and not posted yet
          posts,      \* number of times a note was handed to the webhook
          delivered   \* notes the webhook answered with a status below 300

vars == <<notified, posting, posts, delivered>>

TypeOK == /\ notified \subseteq Note
          /\ posting \in [Proc -> Note \cup {Null}]
          /\ posts \in [Note -> Nat]
          /\ delivered \subseteq Note

Init == /\ notified = {}
        /\ posting = [p \in Proc |-> Null]
        /\ posts = [n \in Note |-> 0]
        /\ delivered = {}

-----------------------------------------------------------------------------
FirstTimeAlways(n) == TRUE              \* mutant: INSERT OR REPLACE

(* TryMarkNotified: did INSERT OR IGNORE insert the row? *)
FirstTime(n) == n \notin notified

(* NotifyOnce up to the mark.  When the row was there, or the insert fails, *)
(* NotifyOnce returns and nothing here changes.                             *)
Mark(p, n) ==
  /\ posting[p] = Null
  /\ FirstTime(n)
  /\ notified' = notified \cup {n}
  /\ posting' = [posting EXCEPT ![p] = n]
  /\ UNCHANGED <<posts, delivered>>

PostAgain(p) ==                         \* mutant: a failed post is tried again
  /\ posting[p] # Null
  /\ posts' = [posts EXCEPT ![posting[p]] = (@ + 1) % 3]
  /\ \/ /\ delivered' = delivered \cup {posting[p]}
        /\ posting' = [posting EXCEPT ![p] = Null]
     \/ UNCHANGED <<delivered, posting>>
  /\ UNCHANGED notified

(* The HTTP post; an error or a status of 300 and more is logged only. *)
Post(p) ==
  /\ posting[p] # Null
  /\ posts' = [posts EXCEPT ![posting[p]] = @ + 1]
  /\ \/ delivered' = delivered \cup {posting[p]}
     \/ UNCHANGED delivered
  /\ posting' = [posting EXCEPT ![p] = Null]
  /\ UNCHANGED notified

(* The process ends: the table stays, what was between mark and post is lost. *)
Crash ==
  /\ posting' = [p \in Proc |-> Null]
  /\ UNCHANGED <<notified, posts, delivered>>

Next == \/ \E p \in Proc, n \in Note : Mark(p, n)
        \/ \E p \in Proc : Post(p)
        \/ Crash

Spec == Init /\ [][Next]_vars

-----------------------------------------------------------------------------
(* NotifyOnce "posts at most once per (requestID, kind)", whatever the      *)
(* number of goroutines announcing the same transition and however often   *)
(* the process restarts (notify.go, NotifyOnce).                           *)
AtMostOnce == \A n \in Note : posts[n] <= 1

(* The strengthening of AtMostOnce that the steps preserve: one goroutine  *)
(* at most owns a note, and only while it was never posted.                *)
Owned ==
  /\ \A n \in Note : posts[n] > 0 => n \in notified
  /\ \A p \in Proc : posting[p] # Null =>
       posting[p] \in notified /\ posts[posting[p]] = 0
  /\ \A p, q \in Proc : posting[p] = posting[q] /\ posting[p] # Null => p = q
=============================================================================
