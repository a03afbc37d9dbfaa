------------------------------ MODULE MCDialer ------------------------------
(***************************************************************************)
(* Instances of Dialer for TLC: one session of the hub and one run of      *)
(* oob-probe; "batch" is the goroutine of a batch that the hub still sends.*)
(***************************************************************************)
EXTENDS Dialer

CONSTANTS hub, probe

MCWriters == {hub, probe, "batch"}
=============================================================================
