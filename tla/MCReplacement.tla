--------------------------- MODULE MCReplacement ---------------------------
(* Two owners of one Pi process and its user at the terminal.              *)
EXTENDS SessionReplacement

CONSTANTS o1, o2

MCOwners == {o1, o2}
=============================================================================
