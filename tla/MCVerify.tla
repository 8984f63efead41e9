------------------------------ MODULE MCVerify ------------------------------
(* Instances of VerifySession for TLC. *)
EXTENDS VerifySession

File(length) == [length |-> length, padding |-> FALSE, symlink |-> FALSE]
Padding(length) == [length |-> length, padding |-> TRUE, symlink |-> FALSE]
Link == [length |-> 0, padding |-> FALSE, symlink |-> TRUE]

\* Pieces of 3 bytes: a padded file, a piece shared by two files, and its remainder.
Shared == [format |-> "V1", pieceLength |-> 3,
           files |-> <<File(2), Padding(1), File(1), File(3)>>]
\* Two files aligned to pieces of their own, and a symlink.
Aligned == [format |-> "V2", pieceLength |-> 2, files |-> <<File(3), Link, File(1)>>]

\* A piece of nothing but padding.
Padded == [format |-> "V1", pieceLength |-> 2, files |-> <<File(1), Padding(3)>>]

MCTorrents == {Shared, Aligned, Padded}
=============================================================================
