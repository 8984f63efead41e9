--------------------------- MODULE ProgressPublisher ---------------------------
(***************************************************************************)
(* VerificationProgressPublisher (src/verification_progress_publisher.cpp) *)
(* batches piece results into numbered snapshots for the caller's progress *)
(* callback.  Its methods run on the verifying thread; the callback, or    *)
(* another thread, may cancel at any point between two steps.              *)
(***************************************************************************)
EXTENDS VerificationReport, FiniteSetsExt

CONSTANTS
    MaxRanges,   \* max_ranges_per_snapshot
    MaxFiles     \* max_files_per_snapshot

ASSUME PublisherAssumption == MaxRanges \in Nat \ {0} /\ MaxFiles \in Nat \ {0}

VARIABLES
    torrent,     \* the torrent under verification
    layouts,     \* its piece layouts
    cancelled,   \* the state of the cancellation token
    emitted,     \* emitted_: the pieces already recorded
    tally,       \* files_: the byte counters of each reported file
    changed,     \* changed_files_
    pending,     \* pending_file_count_
    ranges,      \* ranges_: merged runs of pieces with the same state
    sequence,    \* sequence_
    paging,      \* where deliver is: "off", "page" (its loop) or "callback"
    page,        \* the snapshot handed to the callback
    shownPieces, \* how often the caller was told each piece and state (history)
    shownTally,  \* the counters the caller was last told for each file (history)
    late         \* snapshots that began after the cancellation (history)

input == <<torrent, layouts>>
shown == <<shownPieces, shownTally, late>>
publisher == <<emitted, tally, changed, pending, ranges, sequence, paging, page>>

Pieces == DOMAIN layouts
States == {"Verified", "Mismatched"}
NoPage == [ranges |-> {}, files |-> [f \in {} |-> NoBytes]]

\* The pieces a range stands for, and the k smallest elements of S.
PiecesIn(range) == range.begin..(range.end - 1)
Smallest(k, S) == {x \in S : Cardinality({y \in S : y < x}) < k}

NewPublisher(reported) ==
    /\ emitted = {}
    /\ tally = [f \in reported |-> NoBytes]
    /\ changed = {} /\ pending = 0
    /\ ranges = {}
    /\ sequence = 1
    /\ paging = "off" /\ page = NoPage

-----------------------------------------------------------------------------
(* record *)

\* Mutants: neighbours are joined whatever their state; they are not joined at all.
InsertRange_AnyState(piece, state) ==
    LET before == {r \in ranges : r.end = piece}
        after == {r \in ranges : r.begin = piece + 1}
        begins == {piece} \cup {r.begin : r \in before}
        ends == {piece + 1} \cup {r.end : r \in after}
    IN (ranges \ (before \cup after))
         \cup {[begin |-> Min(begins), end |-> Max(ends), state |-> state]}

InsertRange_Alone(piece, state) ==
    ranges \cup {[begin |-> piece, end |-> piece + 1, state |-> state]}

\* insert_range joins the new piece with the neighbouring ranges of its state.
InsertRange(piece, state) ==
    LET before == {r \in ranges : r.end = piece /\ r.state = state}
        after == {r \in ranges : r.begin = piece + 1 /\ r.state = state}
        begins == {piece} \cup {r.begin : r \in before}
        ends == {piece + 1} \cup {r.end : r \in after}
    IN (ranges \ (before \cup after))
         \cup {[begin |-> Min(begins), end |-> Max(ends), state |-> state]}

Recordable(piece) ==
    ~cancelled /\ piece \in Pieces \ emitted /\ layouts[piece].hashable

\* The tail of record and of deliver(true): paging starts when there is something to say.
StartPaging(wanted) == paging' = IF wanted /\ ~cancelled THEN "page" ELSE "off"

Record(piece, state) ==
    /\ paging = "off"
    /\ \/ /\ ~Recordable(piece)
          /\ UNCHANGED publisher
       \/ /\ Recordable(piece)
          /\ LET touched == DOMAIN layouts[piece].overlaps IN
               /\ tally' = [f \in DOMAIN tally |->
                              IF f \in touched
                              THEN AddBytes(tally[f], layouts[piece].overlaps[f],
                                            state = "Verified")
                              ELSE tally[f]]
               /\ changed' = changed \cup touched
               /\ pending' = pending + Cardinality(touched \ changed)
          /\ emitted' = emitted \cup {piece}
          /\ ranges' = InsertRange(piece, state)
          /\ StartPaging(Cardinality(ranges') >= MaxRanges \/ pending' >= MaxFiles)
          /\ UNCHANGED <<sequence, page>>
    /\ UNCHANGED <<input, cancelled, shown>>

-----------------------------------------------------------------------------
(* deliver *)

Undelivered == ranges # {} \/ pending # 0

\* Mutant: the loop goes on although the token is cancelled.
MorePages_Unheard == Undelivered

\* The condition of the while loop.
MorePages == Undelivered /\ ~cancelled

\* force is FALSE for flush, which the 50 ms cadence may make a no-op.
Deliver(force) ==
    /\ paging = "off"
    /\ \/ /\ StartPaging(Undelivered)
       \/ /\ ~force
          /\ UNCHANGED paging
    /\ UNCHANGED <<input, cancelled, emitted, tally, changed, pending, ranges, sequence,
                   page, shown>>

\* One round of the while loop up to the call: at most MaxFiles changed files and
\* MaxRanges ranges, the lowest first.
Gather ==
    /\ paging = "page"
    /\ MorePages
    /\ LET files == Smallest(MaxFiles, changed)
           first == {r \in ranges : r.begin \in Smallest(MaxRanges, {q.begin : q \in ranges})}
       IN /\ page' = [ranges |-> first, files |-> [f \in files |-> tally[f]]]
          /\ changed' = changed \ files
          /\ pending' = pending - Cardinality(files)
          /\ ranges' = ranges \ first
    /\ sequence' = sequence + 1
    /\ paging' = "callback"
    /\ UNCHANGED <<input, cancelled, emitted, tally, shown>>

\* callback_({sequence_++, files, ranges}).
Callback ==
    /\ paging = "callback"
    /\ shownTally' = [f \in DOMAIN shownTally |->
                        IF f \in DOMAIN page.files THEN page.files[f] ELSE shownTally[f]]
    /\ shownPieces' = [p \in DOMAIN shownPieces |->
                         [s \in States |->
                            shownPieces[p][s]
                              + Cardinality({r \in page.ranges : p \in PiecesIn(r) /\ r.state = s})]]
    /\ late' = late + IF cancelled THEN 1 ELSE 0
    /\ page' = NoPage
    /\ paging' = "page"
    /\ UNCHANGED <<input, cancelled, emitted, tally, changed, pending, ranges, sequence>>

PagingDone ==
    /\ paging = "page"
    /\ ~MorePages
    /\ paging' = "off"
    /\ UNCHANGED <<input, cancelled, emitted, tally, changed, pending, ranges, sequence,
                   page, shown>>

DeliverStep == Gather \/ Callback \/ PagingDone

-----------------------------------------------------------------------------
\* The types of the publisher and of what its caller was told.
Ranges == [begin : Nat, end : Nat, state : States]
Counters == [hashed : Nat, verified : Nat, mismatched : Nat]

PublisherTypeOK ==
    /\ emitted \subseteq Pieces /\ changed \subseteq Reported(torrent)
    /\ tally \in [Reported(torrent) -> Counters]
    /\ pending \in Nat /\ sequence \in Nat \ {0} /\ late \in Nat
    /\ ranges \subseteq Ranges /\ page.ranges \subseteq Ranges
    /\ \A r \in ranges \cup page.ranges : PiecesIn(r) \subseteq Pieces
    /\ IsFiniteSet(ranges) /\ IsFiniteSet(page.ranges)
    /\ \A f \in DOMAIN page.files : page.files[f] \in Counters
    /\ paging \in {"off", "page", "callback"}
    /\ paging # "callback" => page = NoPage
    /\ shownPieces \in [Pieces -> [States -> Nat]]
    /\ shownTally \in [Reported(torrent) -> Counters]

\* The counter of changed files is exact, whatever a page took away.
PendingExact == pending = Cardinality(changed)

\* The ranges are non-empty, apart from each other, and merged as far as possible.
RangesMerged ==
    /\ \A r \in ranges : r.begin < r.end
    /\ \A r, q \in ranges :
         r # q => /\ PiecesIn(r) \cap PiecesIn(q) = {}
                  /\ r.end = q.begin => r.state # q.state

\* Every recorded piece is pending, in the page under way, or was shown: once in all.
OnceEach ==
    /\ ranges \cap page.ranges = {}
    /\ \A p \in Pieces :
         LET waiting == {r \in ranges \cup page.ranges : p \in PiecesIn(r)}
             told == shownPieces[p]["Verified"] + shownPieces[p]["Mismatched"]
         IN Cardinality(waiting) + told = IF p \in emitted THEN 1 ELSE 0

\* The counters of a file that is not waiting to be published are those in the page
\* under way or, if they are not there, those the caller was last told.
CountersTold ==
    \A f \in Reported(torrent) \ changed :
      tally[f] = IF f \in DOMAIN page.files THEN page.files[f] ELSE shownTally[f]

\* No snapshot exceeds its limits, and none is empty.
PagesBounded ==
    paging = "callback" =>
      /\ Cardinality(page.ranges) <= MaxRanges
      /\ Cardinality(DOMAIN page.files) <= MaxFiles
      /\ page # NoPage
=============================================================================
