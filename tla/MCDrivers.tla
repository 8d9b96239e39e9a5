----------------------------- MODULE MCDrivers -----------------------------
(***************************************************************************)
(* Instances of Drivers for TLC: a driver gets one, two or three different *)
(* mains (their names do not matter), clients may share a main.            *)
(***************************************************************************)
EXTENDS Drivers

CONSTANTS a, b, c

ThreeMains == {a, b, c}
Lists == {<<a>>, <<a, b>>, <<a, b, c>>, <<a, a>>, <<a, a, b>>, <<a, a, a>>}
AllDrivers == {"DoEach", "DoParallel", "DoSeq", "Clients"}
=============================================================================
