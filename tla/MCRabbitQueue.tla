---------------------------- MODULE MCRabbitQueue ---------------------------
(***************************************************************************)
(* Two requests for one queue that is missing or holds two messages; a     *)
(* peek asks for 0 (served as 1) or 2 of them.                             *)
(***************************************************************************)
EXTENDS RabbitQueue

CONSTANTS h1, h2

TwoHandlers == {h1, h2}
ZeroOrTwo   == {0, 2}
JustTwo     == {2}
=============================================================================
