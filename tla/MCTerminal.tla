----------------------------- MODULE MCTerminal -----------------------------
(***************************************************************************)
(* An instance of Terminal for TLC: an empty line, the escape and one      *)
(* command; a history of two lines, so that it is cut.                     *)
(***************************************************************************)
EXTENDS Terminal

MCLines == {"", "~.", "show"}
=============================================================================
