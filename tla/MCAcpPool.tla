------------------------------- MODULE MCAcpPool -------------------------------
(* TLC instance of AcpPool: a pool with two requests for its persistent client *)
(* and a second process with one request for a child of its own.               *)
EXTENDS AcpPool, TLC

CONSTANTS p1, p2, r1, r2, r3

Pool == r1 :> p1 @@ r2 :> p1 @@ r3 :> p2
Kind == r1 :> "persistent" @@ r2 :> "persistent" @@ r3 :> "cli"
MayFail == {<<"request", r1>>, <<"stop", p1>>}
===============================================================================
