----------------------------- MODULE MCUiRefresh -----------------------------
(***************************************************************************)
(* An instance of UiRefresh for TLC; the constants are in the .cfg file.    *)
(***************************************************************************)
EXTENDS UiRefresh
=============================================================================
