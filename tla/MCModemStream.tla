--------------------------- MODULE MCModemStream ---------------------------
(***************************************************************************)
(* An instance of ModemStream for TLC: a channel far shorter than the      *)
(* code's 100 and a few more chunks than it takes.                         *)
(***************************************************************************)
EXTENDS ModemStream
=============================================================================
