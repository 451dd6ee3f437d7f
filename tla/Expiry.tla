-------------------------------- MODULE Expiry --------------------------------
(***************************************************************************)
(* How exactly, and how late, a row is ended: the loop of internal/worker, *)
(* which main starts after its own Reconcile, on a fine clock.  JitAccess   *)
(* has the same reconciler with every effect and failure but on a coarse   *)
(* clock whose instants are whole seconds apart; here there is one row and  *)
(* nothing fails, so that what is left is the ticker, the time a reconcile *)
(* takes, and the comparison of times as texts.                            *)
(***************************************************************************)
EXTENDS TimeText

CONSTANTS
  TTL,           \* RequestTTL or ActiveTTL, as the row is pending or approved
  MaxCall,       \* how long a handler may take from its clock to its write
  PollInterval,
  MaxWork,       \* how long a reconcile may take
  MaxTime        \* bound on the clock

ASSUME ExpiryAssumption ==
  /\ {TTL, MaxCall, MaxWork, MaxTime} \subseteq Nat
  /\ MaxCall <= TTL
  /\ PollInterval \in Nat \ {0}

VARIABLES
  now,     \* the clock
  boot,    \* when the process started
  row,     \* "none", "open" (pending or approved), "left" (open since before
           \* the process started) or "ended"
  until,   \* its request_expires_at or active_expires_at
  ended,   \* when it was ended
  worker,  \* "boot", "idle", "query" or "apply"
  at,      \* the time the reconcile under way, or the last one, took at its start
  found,   \* did its query return the row?
  ticking, \* has main started the worker?
  fire,    \* when the ticker fires next
  due      \* a tick is in the ticker's channel, which holds one

vars == <<now, boot, row, until, ended, worker, at, found, ticking, fire, due>>
rowVars == <<row, until, ended>>
tickerVars == <<ticking, fire, due>>

TypeOK ==
  /\ row \in {"none", "open", "left", "ended"}
  /\ worker \in {"boot", "idle", "query", "apply"}
  /\ {now, boot, until, ended, at, fire} \subseteq Nat
  /\ {found, ticking, due} \subseteq BOOLEAN

Init ==
  /\ now \in Second .. 2 * Second - 1 /\ boot = now
  /\ row \in {"none", "left"}
  /\ until \in IF row = "none" THEN {0} ELSE 0 .. 3 * Second
  /\ ended = 0
  /\ worker = "boot" /\ at = 0 /\ found = FALSE
  /\ ticking = FALSE /\ fire = 0 /\ due = FALSE

-----------------------------------------------------------------------------
(* A handler creates or approves the row: it has read the clock, then made   *)
(* its Keycloak calls, and now writes the row's time as text.               *)
Open ==
  /\ row = "none" /\ ticking
  /\ \E d \in 0 .. MaxCall : boot + d <= now /\ until' = now - d + TTL
  /\ row' = "open"
  /\ UNCHANGED <<now, boot, ended, worker, at, found, tickerVars>>

(* Reconcile begins, at start or on a tick, with one reading of the clock. *)
Reconcile ==
  /\ \/ worker = "boot"
     \/ worker = "idle" /\ due
  /\ worker' = "query" /\ at' = now
  /\ due' = FALSE
  /\ UNCHANGED <<now, boot, rowVars, found, ticking, fire>>

(* WHERE ... AND col <= ? with the text of that time. *)
ExpiredAhead(t) == ~Before(Text(t + Second), Text(until))  \* mutant: a second ahead

Expired(t) == ~Before(Text(t), Text(until))

Query ==
  /\ worker = "query"
  /\ found' = (row \in {"open", "left"} /\ Expired(at))
  /\ worker' = "apply"
  /\ UNCHANGED <<now, boot, rowVars, at, tickerVars>>

(* The loop over what the query returned, and the return.  The ticker of   *)
(* worker.Run is made after the first one.                                 *)
Return ==
  /\ worker = "apply"
  /\ IF found THEN row' = "ended" /\ ended' = now
              ELSE UNCHANGED <<row, ended>>
  /\ found' = FALSE
  /\ worker' = "idle"
  /\ ticking' = TRUE
  /\ fire' = IF ticking THEN fire ELSE now + PollInterval
  /\ UNCHANGED <<now, boot, until, at, due>>

FireMissed ==                          \* mutant: a tick while it works is lost
  /\ ticking /\ now = fire
  /\ due' = (worker = "idle")
  /\ fire' = fire + PollInterval
  /\ UNCHANGED <<now, boot, rowVars, worker, at, found, ticking>>

(* The ticker fires; a tick that finds the channel full is dropped. *)
Fire ==
  /\ ticking /\ now = fire
  /\ due' = TRUE
  /\ fire' = fire + PollInterval
  /\ UNCHANGED <<now, boot, rowVars, worker, at, found, ticking>>

(* Time passes, but not past a tick, a worker with a tick to take, or the   *)
(* longest a reconcile takes.                                               *)
Tick ==
  /\ now < MaxTime
  /\ worker # "boot"
  /\ ticking => now < fire
  /\ worker = "idle" => ~due
  /\ worker # "idle" => now < at + MaxWork
  /\ now' = now + 1
  /\ UNCHANGED <<boot, rowVars, worker, at, found, tickerVars>>

(* The clock is at its bound: what stops before it is a deadlock.          *)
Horizon == now = MaxTime /\ UNCHANGED vars

Next == Open \/ Reconcile \/ Query \/ Return \/ Fire \/ Tick \/ Horizon

Spec == Init /\ [][Next]_vars

-----------------------------------------------------------------------------
(* Comparing texts is comparing times, except within one second when one    *)
(* fraction is the beginning of the other: then the shorter text is the     *)
(* later one for SQLite ('Z' comes after the digits, a digit after '.').    *)
ProperPrefix(x, y) == Len(x) < Len(y) /\ \A i \in 1 .. Len(x) : x[i] = y[i]

OneContinues(t, u) == \/ ProperPrefix(Fraction(t), Fraction(u))
                      \/ ProperPrefix(Fraction(u), Fraction(t))

TextOrder ==
  row # "none" =>
    \/ Expired(at) <=> until <= at
    \/ Seconds(until) = Seconds(at) /\ OneContinues(until, at)

(* Whatever the texts do, no row is ended a second or more before its time. *)
NotEarly == row = "ended" => until < ended + Second

(* A row outlives its time by less than a second, an interval of the ticker *)
(* or a reconcile if that takes longer, and the reconcile that ends it.     *)
(* A row that was there when the process started is ended by the startup   *)
(* reconcile, or was not due then, or only just: the ticker starts when     *)
(* that reconcile is over.                                                  *)
Between == IF PollInterval < MaxWork THEN MaxWork ELSE PollInterval

EndsInTime ==
  /\ row = "open" => now < until + Second + Between + MaxWork
  /\ row = "left" => \/ now <= boot + MaxWork
                     \/ now < until + Second + PollInterval + 2 * MaxWork
=============================================================================
