---------------------------- MODULE MCConsoleHub ----------------------------
(***************************************************************************)
(* Instances of ConsoleHub for TLC: sessions a and b, dials t1, t2 and t3. *)
(***************************************************************************)
EXTENDS ConsoleHub, TLC

CONSTANTS a, b, t1, t2, t3

\* Session a dials twice, session b once.
TwoAndOne == (t1 :> a) @@ (t2 :> a) @@ (t3 :> b)

\* Each session dials once.
OneEach == (t1 :> a) @@ (t3 :> b)

\* One session dials once.
OneOnly == t1 :> a

\* One session dials twice.
TwoOfOne == (t1 :> a) @@ (t2 :> a)
=============================================================================
