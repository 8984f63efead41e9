-------------------------- MODULE VerificationReport --------------------------
(***************************************************************************)
(* The pure part of a verification (src/libtorrent_adapter.cpp): which     *)
(* bytes of which file a piece covers, which pieces can be hashed at all   *)
(* given what the inspection of the content directory found, and the       *)
(* report made from the backend's final piece states.                      *)
(*                                                                         *)
(* A torrent is [format, pieceLength, files]; a file is [length, padding,  *)
(* symlink].  A preflight entry is [hashable, finding]: the bytes there to *)
(* be hashed, and the findings are cut down to those the report tells      *)
(* apart: "None", "Unusable" (missing, not a regular file, wrong length,   *)
(* symlink missing) and "SymlinkTargetMismatch".                           *)
(***************************************************************************)
EXTENDS Integers, Sequences, FiniteSets, Functions

Least(m, n) == IF m < n THEN m ELSE n
Most(m, n) == IF m > n THEN m ELSE n

\* A torrent, and what the inspection of its files may find.
IsTorrent(t) ==
    /\ t.pieceLength \in Nat \ {0}
    /\ t.files \in Seq([length : Nat, padding : BOOLEAN, symlink : BOOLEAN])
IsPreflight(t, preflight) ==
    \A f \in DOMAIN t.files :
      preflight[f] \in [hashable : Nat, finding : {"None", "Unusable", "SymlinkTargetMismatch"}]

\* How many pieces of length l cover n bytes.
PiecesFor(n, l) == (n + l - 1) \div l

\* Where file f begins in the stream of pieces.  Version 1 concatenates the files;
\* version 2 starts every file on a piece of its own.
Footprint(t) ==
    [g \in DOMAIN t.files |-> IF t.format = "V2"
                              THEN t.pieceLength * PiecesFor(t.files[g].length, t.pieceLength)
                              ELSE t.files[g].length]
FileBegin(t, f) == SumFunctionOnSet(Footprint(t), 1..(f - 1))

\* Mutant: the last, shorter piece is forgotten.
PieceCount_Floor(t) == FileBegin(t, Len(t.files) + 1) \div t.pieceLength

PieceCount(t) == PiecesFor(FileBegin(t, Len(t.files) + 1), t.pieceLength)

\* The end, within file f, of what piece p covers of it; Overlap counts the bytes.
OverlapEnd(t, p, f) == Least((p + 1) * t.pieceLength - FileBegin(t, f), t.files[f].length)
\* Mutant: a piece that begins before the file counts bytes of its predecessor.
Overlap_Unclipped(t, p, f) ==
    IF t.files[f].padding THEN 0
    ELSE Most(0, OverlapEnd(t, p, f) - (p * t.pieceLength - FileBegin(t, f)))

Overlap(t, p, f) ==
    IF t.files[f].padding THEN 0
    ELSE Most(0, OverlapEnd(t, p, f) - Most(0, p * t.pieceLength - FileBegin(t, f)))

\* verification_piece_layouts.
Layouts(t, preflight) ==
    [p \in 0..(PieceCount(t) - 1) |->
       LET covered == {f \in DOMAIN t.files : Overlap(t, p, f) > 0} IN
       [overlaps |-> [f \in covered |-> Overlap(t, p, f)],
        hashable |-> \A f \in covered : OverlapEnd(t, p, f) <= preflight[f].hashable]]

Reported(t) == {f \in DOMAIN t.files : ~t.files[f].padding}

NoBytes == [hashed |-> 0, verified |-> 0, mismatched |-> 0]

\* A hashed piece adds its bytes to the file's counters.
AddBytes(tally, n, verified) ==
    [hashed |-> tally.hashed + n,
     verified |-> tally.verified + IF verified THEN n ELSE 0,
     mismatched |-> tally.mismatched + IF verified THEN 0 ELSE n]

\* The bytes of file f in each piece.
BytesIn(layouts, f) ==
    [p \in DOMAIN layouts |->
       IF f \in DOMAIN layouts[p].overlaps THEN layouts[p].overlaps[f] ELSE 0]

\* make_verification_report: pieces is the set the final status calls complete.
Report(t, preflight, layouts, pieces) ==
    LET hashed(f) == {p \in DOMAIN layouts : layouts[p].hashable /\ f \in DOMAIN layouts[p].overlaps}
        bytes(f, P) == SumFunctionOnSet(BytesIn(layouts, f), P)
        failed == {p \in DOMAIN layouts : layouts[p].hashable /\ p \notin pieces}
        finding(p) == IF Cardinality(DOMAIN layouts[p].overlaps) > 1
                      THEN "SharedPieceMismatch" ELSE "HashMismatch"
        incomplete ==
            \/ \E f \in Reported(t) : preflight[f].finding = "Unusable"
            \/ \E p \in DOMAIN layouts : ~layouts[p].hashable
        mismatched ==
            \/ \E f \in Reported(t) : preflight[f].finding = "SymlinkTargetMismatch"
            \/ failed # {}
    IN [outcome |-> IF incomplete THEN "Incomplete"
                    ELSE IF mismatched THEN "Mismatched" ELSE "Verified",
        bytes |-> [f \in Reported(t) |->
                     [hashed |-> bytes(f, hashed(f)),
                      verified |-> bytes(f, hashed(f) \cap pieces),
                      mismatched |-> bytes(f, hashed(f) \ pieces)]],
        findings |-> [f \in Reported(t) |->
                        ({preflight[f].finding} \ {"None"})
                          \cup {finding(p) : p \in failed \cap hashed(f)}]]
=============================================================================
