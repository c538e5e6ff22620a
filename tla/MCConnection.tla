--------------------------- MODULE MCConnection ---------------------------
(* Small instances of Connection for TLC. *)
EXTENDS Connection

\* A .cfg has no negative numbers.
NoMaximum == -1
=============================================================================
