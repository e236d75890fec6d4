------------------------------- MODULE MCShim -------------------------------
(***************************************************************************)
(* Instances of Shim for TLC: an ungated route whose handler streams and a *)
(* route that allows one of the two methods clients send.                  *)
(***************************************************************************)
EXTENDS Shim, TLC

CONSTANTS c1, c2, p1, p2, open, gated, GET, POST

OneConn   == {c1}
TwoConns  == {c1, c2}
OneProc   == {p1}
TwoProcs  == {p1, p2}
Alone     == c1 :> p1
Apart     == c1 :> p1 @@ c2 :> p2
Threads   == c1 :> p1 @@ c2 :> p1
MCRoutes  == {open, gated}
GatedOnly == {gated}
MCMethods == {GET, POST}
MCAllow   == open :> {} @@ gated :> {GET}
GatedAllow == gated :> {GET}
Streams   == {open}
NoStreams == {}
OpenOnly  == {open}
OpenAllow == open :> {}
NoMethods == {}
OneMethod == {GET}
ConnSymmetry == Permutations(TwoConns)
=============================================================================
