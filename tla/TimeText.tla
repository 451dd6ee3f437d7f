------------------------------- MODULE TimeText -------------------------------
(***************************************************************************)
(* Times in the database.  internal/store writes every time with           *)
(* Format(time.RFC3339Nano) in UTC and lets SQLite compare the texts byte   *)
(* by byte.  The part up to the seconds has a fixed width, so its bytes are *)
(* in the order of the seconds; here it is one element, the second itself.  *)
(* The fraction is written without its trailing zeros, and without its dot  *)
(* if nothing is left.                                                      *)
(*                                                                         *)
(* A time is a number of the smallest units, Second of them a second        *)
(* (nanoseconds: Base = 10, Width = 9).                                     *)
(***************************************************************************)
EXTENDS Naturals, Sequences

CONSTANTS
  Base, Width, Second,
  Unit             \* what the i-th digit of the fraction counts: Base ^ (Width - i)

ASSUME DigitsAssumption ==
  /\ Base \in Nat \ {0, 1} /\ Width \in Nat \ {0} /\ Second \in Nat \ {0}
  /\ Unit \in [0 .. Width -> Nat \ {0}] /\ Unit[0] = Second /\ Unit[Width] = 1
  /\ \A i \in 1 .. Width : Unit[i - 1] = Base * Unit[i]

(* The bytes after the seconds, in the order of ASCII. *)
Dot == 0
Digit(d) == d + 1
Zulu == Base + 1

Seconds(t) == t \div Second

(* The i-th digit of the fraction. *)
FractionDigit(t, i) == ((t % Second) \div Unit[i]) % Base

KeptFewer(t) ==                        \* mutant: the last digit is cut off
  CHOOSE n \in 0 .. Width - 1 :
    /\ n > 0 => FractionDigit(t, n) # 0
    /\ \A i \in n + 1 .. Width - 1 : FractionDigit(t, i) = 0

(* How many digits are written: all but the trailing zeros. *)
Kept(t) ==
  CHOOSE n \in 0 .. Width :
    /\ n > 0 => FractionDigit(t, n) # 0
    /\ \A i \in n + 1 .. Width : FractionDigit(t, i) = 0

Fraction(t) == IF Kept(t) = 0 THEN <<>>
               ELSE <<Dot>> \o [i \in 1 .. Kept(t) |-> Digit(FractionDigit(t, i))]

(* Format(time.RFC3339Nano) *)
Text(t) == <<Seconds(t)>> \o Fraction(t) \o <<Zulu>>

(* x < y as SQLite compares texts: at the first byte that differs. *)
Before(x, y) ==
  \E i \in 1 .. Len(y) :
    /\ \A j \in 1 .. i - 1 : j <= Len(x) /\ x[j] = y[j]
    /\ i <= Len(x) => x[i] < y[i]
=============================================================================
