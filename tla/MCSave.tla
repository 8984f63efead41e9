------------------------------- MODULE MCSave -------------------------------
(* Instances of TorrentSave for TLC. *)
EXTENDS TorrentSave, TLC

CONSTANTS s1, s2, src, other

MCSavers == {s1, s2}
MCPaths == {src, other}
MCStamps == {1}
Symmetry == Permutations(MCSavers)
Request(mode, destination, overwrite, bak) ==
    [mode |-> mode, destination |-> destination, overwrite |-> overwrite, backup |-> bak]
MCRequests ==
    {Request("Original", src, FALSE, TRUE), Request("NewPath", other, FALSE, FALSE),
     Request("NewPath", other, TRUE, TRUE), Request("NewPath", src, TRUE, TRUE)}
=============================================================================
