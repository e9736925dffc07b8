----------------------------- MODULE MCPlatform -----------------------------
(* An instance of Platform for TLC.                                         *)
EXTENDS Platform, TLC

CONSTANTS m1, m2, m3, x2

(* Two releases in line, and one of another branch, whose second migration  *)
(* has no contract to be checked against.                                   *)
ThreeReleases == {<<m1>>, <<m1, m2, m3>>, <<m1, x2>>}
=============================================================================
