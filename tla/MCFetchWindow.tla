--------------------------- MODULE MCFetchWindow ---------------------------
(* Small instances of FetchWindow for TLC.                                 *)
EXTENDS FetchWindow

\* before, in and after the window
MCTimes == 0..2
=============================================================================
