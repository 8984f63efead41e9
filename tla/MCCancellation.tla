--------------------------- MODULE MCCancellation ---------------------------
(* Instances of Cancellation for TLC. *)
EXTENDS Cancellation, TLC

CONSTANTS e1, e2, e3, c1, c2

MCEntries == {e1, e2, e3}
MCCancellers == {c1, c2}
\* The callback of e1 owns the registration of e2.
PeerDestroys == {<<e1, e2>>}
=============================================================================
