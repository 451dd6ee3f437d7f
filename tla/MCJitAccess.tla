----------------------------- MODULE MCJitAccess -----------------------------
(***************************************************************************)
(* Instances of JitAccess for TLC; the constants are in the .cfg files.     *)
(***************************************************************************)
EXTENDS JitAccessElevation, TLC

(* Requests are interchangeable, and so are handlers.  Users are not: their *)
(* roles differ.  The liveness runs use no symmetry.                        *)
Symmetry == Permutations(Req) \cup Permutations(Slot)
=============================================================================
