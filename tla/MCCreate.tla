------------------------------ MODULE MCCreate ------------------------------
(* Instances of TorrentCreate for TLC. *)
EXTENDS TorrentCreate, TLC

CONSTANTS c1, c2, p1, p2

MCCalls == {c1, c2}
MCProcesses == {p1, p2}
Symmetry == Permutations(MCCalls) \cup Permutations(MCProcesses)
=============================================================================
