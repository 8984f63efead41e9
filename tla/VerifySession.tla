----------------------------- MODULE VerifySession -----------------------------
(***************************************************************************)
(* LibtorrentTorrentEngine::verify (src/libtorrent_adapter.cpp): one call, *)
(* from the inspection of the content directory through the alert loop to  *)
(* the report, with its progress publisher.  libtorrent itself is          *)
(* external: it posts piece_finished alerts for good pieces in any order   *)
(* (some may never come, some come twice), a file error at any time, and   *)
(* torrent_checked.                                                        *)
(***************************************************************************)
EXTENDS ProgressPublisher

CONSTANTS Torrents   \* the torrents that may be verified

ASSUME TorrentsAssumption == \A t \in Torrents : IsTorrent(t)

VARIABLES
    pc,          \* where verify is
    observed,    \* request.on_progress is set
    preflight,   \* what inspect_verification_files found
    good,        \* the pieces libtorrent finds correct
    checked,     \* the loop variable checked
    at,          \* the piece complete() looks at next
    result       \* what verify returned

session == <<pc, observed, preflight, good, checked, at, result>>
vars == <<input, cancelled, publisher, shown, session>>

NoLayouts == [p \in {} |-> {}]
NoResult == [kind |-> "none"]
Returned == result # NoResult

Init ==
    /\ torrent \in Torrents
    /\ layouts = NoLayouts
    /\ cancelled = FALSE
    /\ NewPublisher(Reported(torrent))
    /\ shownPieces = [p \in {} |-> {}]
    /\ shownTally = [f \in Reported(torrent) |-> NoBytes]
    /\ late = 0
    /\ pc = "inspecting"
    /\ observed \in BOOLEAN
    /\ preflight = <<>>
    /\ good = {} /\ checked = FALSE /\ at = 0
    /\ result = NoResult

Cancel ==
    /\ ~cancelled /\ ~Returned
    /\ cancelled' = TRUE
    /\ UNCHANGED <<input, publisher, shown, session>>

Fail(kind) ==
    /\ pc' = "returned"
    /\ result' = [kind |-> kind]
    /\ UNCHANGED <<input, cancelled, publisher, shown, observed, preflight, good,
                   checked, at>>

\* The cancellation checks at the head of a step.
CancelledAt == {"inspecting", "adding", "polling", "batchDone", "roundDone", "reporting"}
ReturnCancelled == pc \in CancelledAt /\ cancelled /\ Fail("Cancelled")

-----------------------------------------------------------------------------
(* Before the loop *)

\* inspect_verification_files on a regular file or a declared symlink of this length:
\* intact, absent or of the wrong kind, or of another length with that much in place.
Inspections(file) ==
    IF file.padding THEN {[hashable |-> file.length, finding |-> "None"]}
    ELSE {[hashable |-> file.length, finding |-> "None"],
          [hashable |-> 0, finding |-> "Unusable"]}
         \cup (IF file.symlink THEN {[hashable |-> 0, finding |-> "SymlinkTargetMismatch"]}
               ELSE {[hashable |-> n, finding |-> "Unusable"] : n \in 1..file.length})

Inspect ==
    /\ pc = "inspecting" /\ ~cancelled
    /\ preflight' \in {f \in [DOMAIN torrent.files ->
                                UNION {Inspections(torrent.files[i]) : i \in DOMAIN torrent.files}] :
                         \A i \in DOMAIN f : f[i] \in Inspections(torrent.files[i])}
    /\ layouts' = Layouts(torrent, preflight')
    /\ shownPieces' = [p \in DOMAIN layouts' |-> [s \in States |-> 0]]
    /\ pc' = "adding"
    /\ UNCHANGED <<torrent, cancelled, publisher, shownTally, late, observed, good,
                   checked, at, result>>

\* Inspecting, reading the budget or starting the session failed.
CannotStart == pc \in {"inspecting", "adding"} /\ ~cancelled /\ Fail("IoFailure")

\* session.add_torrent: from here on libtorrent hashes the content as it then is.
AddTorrent ==
    /\ pc = "adding" /\ ~cancelled
    /\ good' \in SUBSET Pieces
    /\ pc' = "polling"
    /\ UNCHANGED <<input, cancelled, publisher, shown, observed, preflight, checked,
                   at, result>>

-----------------------------------------------------------------------------
(* while (!checked) *)

Poll ==
    /\ pc = "polling" /\ ~cancelled
    /\ pc' = "alerts"
    /\ UNCHANGED <<input, cancelled, publisher, shown, observed, preflight, good,
                   checked, at, result>>

FileErrorAlert == pc = "alerts" /\ paging = "off" /\ Fail("IoFailure")

\* piece_progress alerts are only asked for when somebody observes.  libtorrent may say the
\* same of a piece again.
PieceFinishedAlert(p) ==
    /\ pc = "alerts"
    /\ observed
    /\ p \in good
    /\ Record(p, "Verified")
    /\ UNCHANGED <<pc, observed, preflight, good, checked, at, result>>

TorrentCheckedAlert ==
    /\ pc = "alerts" /\ paging = "off" /\ ~checked
    /\ checked' = TRUE
    /\ UNCHANGED <<input, cancelled, publisher, shown, pc, observed, preflight, good,
                   at, result>>

AlertsHandled ==
    /\ pc = "alerts" /\ paging = "off"
    /\ pc' = "batchDone"
    /\ UNCHANGED <<input, cancelled, publisher, shown, observed, preflight, good,
                   checked, at, result>>

\* flush() in every round but the last; nothing to do when nobody observes.
Flush ==
    /\ pc = "batchDone" /\ ~cancelled
    /\ ~checked \/ ~observed
    /\ IF observed THEN Deliver(FALSE)
       ELSE UNCHANGED <<input, cancelled, publisher, shown>>
    /\ pc' = "roundDone"
    /\ UNCHANGED <<observed, preflight, good, checked, at, result>>

\* complete(): deliver(true), every piece not emitted yet, deliver(true).
CompleteBegins ==
    /\ pc = "batchDone" /\ ~cancelled
    /\ checked /\ observed
    /\ Deliver(TRUE)
    /\ at' = 0
    /\ pc' = "completing"
    /\ UNCHANGED <<observed, preflight, good, checked, result>>

CompletePiece ==
    /\ pc = "completing"
    /\ at \in Pieces /\ ~cancelled
    /\ Record(at, IF at \in good THEN "Verified" ELSE "Mismatched")
    /\ at' = at + 1
    /\ UNCHANGED <<pc, observed, preflight, good, checked, result>>

CompleteEnds ==
    /\ pc = "completing"
    /\ at \notin Pieces \/ cancelled
    /\ Deliver(TRUE)
    /\ pc' = "roundDone"
    /\ UNCHANGED <<observed, preflight, good, checked, at, result>>

\* Mutant: the loop does not look at checked.
NextRound_Forever ==
    /\ pc = "roundDone" /\ paging = "off" /\ ~cancelled
    /\ pc' = "polling"
    /\ UNCHANGED <<input, cancelled, publisher, shown, observed, preflight, good,
                   checked, at, result>>

NextRound ==
    /\ pc = "roundDone" /\ paging = "off" /\ ~cancelled
    /\ pc' = IF checked THEN "reporting" ELSE "polling"
    /\ UNCHANGED <<input, cancelled, publisher, shown, observed, preflight, good,
                   checked, at, result>>

\* The last look at the token, after the loop.
LastCheck ==
    /\ pc = "reporting" /\ ~cancelled
    /\ pc' = "making"
    /\ UNCHANGED <<input, cancelled, publisher, shown, observed, preflight, good, checked, at,
                   result>>

\* The states of the pieces are asked for and the report is made: a cancellation that
\* comes now is too late.
MakeReport ==
    /\ pc = "making"
    /\ result' = [kind |-> "Success", report |-> Report(torrent, preflight, layouts, good)]
    /\ pc' = "returned"
    /\ UNCHANGED <<input, cancelled, publisher, shown, observed, preflight, good, checked, at>>

Deliveries == DeliverStep /\ UNCHANGED session

-----------------------------------------------------------------------------
Verify ==
    \/ ReturnCancelled /\ paging = "off"
    \/ Inspect \/ CannotStart \/ AddTorrent
    \/ Poll \/ AlertsHandled
    \/ Flush \/ CompleteBegins \/ CompletePiece \/ CompleteEnds \/ NextRound
    \/ LastCheck \/ MakeReport \/ Deliveries

Next ==
    \/ Cancel \/ Verify
    \/ FileErrorAlert \/ TorrentCheckedAlert
    \/ \E p \in good : PieceFinishedAlert(p)

\* The thread runs on, the callback returns, and libtorrent finishes its check: while
\* the loop keeps polling, torrent_checked is in some batch.
Fairness == WF_vars(Verify) /\ SF_vars(TorrentCheckedAlert)

Spec == Init /\ [][Next]_vars
FairSpec == Spec /\ Fairness

-----------------------------------------------------------------------------
\* What the inspection leaves behind.
Inspected ==
    /\ DOMAIN preflight = DOMAIN torrent.files
    /\ \A f \in DOMAIN preflight : preflight[f] \in Inspections(torrent.files[f])
    /\ layouts = Layouts(torrent, preflight)

\* The types of the session and of its publisher.
TypeOK ==
    /\ torrent \in Torrents
    /\ layouts = NoLayouts \/ Inspected
    /\ IF pc = "inspecting" THEN layouts = NoLayouts ELSE pc = "returned" \/ Inspected
    /\ cancelled \in BOOLEAN /\ observed \in BOOLEAN /\ checked \in BOOLEAN
    /\ good \subseteq Pieces
    /\ at \in Nat
    /\ pc \in CancelledAt \cup {"alerts", "completing", "making", "returned"}
    /\ Returned <=> pc = "returned"
    /\ \/ result \in [kind : {"none", "Cancelled", "IoFailure"}]
       \/ /\ Inspected
          /\ result = [kind |-> "Success",
                       report |-> Report(torrent, preflight, layouts, good)]
    /\ PublisherTypeOK

\* The publisher's part: see ProgressPublisher.
PublisherInv == PendingExact /\ RangesMerged /\ OnceEach /\ CountersTold /\ PagesBounded

\* After a cancellation at most the snapshot already under way reaches the caller: no
\* further page of the same delivery, and no later delivery.
QuietAfterCancel == late <= 1 /\ (late = 1 => cancelled /\ paging # "callback")

\* What a hashable piece is finally found to be, and the bytes of file f in a set of pieces.
Hashable == {p \in Pieces : layouts[p].hashable}
Final(p, state) == p \in Hashable /\ (p \in good <=> state = "Verified")
Bytes(f, P) == SumFunctionOnSet(BytesIn(layouts, f), P)

\* No piece is recorded, waits, or was shown in a state other than its final one, and
\* the counters of each file add up to the pieces recorded.
RecordsTrue ==
    /\ emitted \subseteq Hashable
    /\ \A r \in ranges \cup page.ranges : \A p \in PiecesIn(r) : Final(p, r.state)
    /\ \A p \in Pieces : \A s \in States : shownPieces[p][s] > 0 => Final(p, s)
    /\ \A f \in Reported(torrent) :
         tally[f] = [hashed |-> Bytes(f, emitted), verified |-> Bytes(f, emitted \cap good),
                     mismatched |-> Bytes(f, emitted \ good)]

\* What an observed call has told by the time it reports: nothing before the backend
\* runs, every hashable piece after complete(), and nothing is left to publish.
Finished == Hashable \subseteq emitted /\ (paging = "off" => ~Undelivered)
CompletesInOrder ==
    /\ pc \in {"inspecting", "adding"} => emitted = {} /\ paging = "off"
    /\ pc = "completing" /\ ~cancelled => \A p \in Hashable : p < at => p \in emitted
    /\ pc \in {"reporting", "making"} => checked /\ paging = "off"
    /\ pc = "returned" => paging = "off"
    /\ observed /\ checked /\ ~cancelled /\ pc \in {"roundDone", "reporting"} => Finished
    /\ observed /\ (pc = "making" \/ result.kind = "Success") => Finished
    /\ pc = "making" \/ result.kind = "Success" => late = 0

\* The ranges that wait to be published account for every piece recorded and not yet shown,
\* are merged wherever they can be, and fit their pages; a cancelled call falls silent.
IInv == TypeOK /\ PublisherInv /\ QuietAfterCancel /\ RecordsTrue /\ CompletesInOrder

\* What was told of each piece: of a hashable one its final state once, of another nothing.
PiecesTold ==
    \A p \in Pieces : \A s \in States :
      shownPieces[p][s] = IF Final(p, s) THEN 1 ELSE 0

\* A caller that observed a successful verification was told, by the time verify
\* returns, of each hashable piece once, in the state of the report, and of byte counters
\* equal to the report's; of pieces that could not be hashed it was told nothing.
ProgressAddsUp ==
    result.kind = "Success" /\ observed =>
      PiecesTold /\ shownTally = result.report.bytes

\* "Verified" means that every byte of every file was hashed and found correct, that
\* nothing about any file was found wanting, and that no piece of padding alone failed.
VerifiedMeansAll ==
    result.kind = "Success" =>
      LET report == result.report IN
      (report.outcome = "Verified") <=>
        /\ \A f \in Reported(torrent) :
             /\ report.findings[f] = {}
             /\ report.bytes[f].verified = torrent.files[f].length
        /\ \A p \in Pieces : DOMAIN layouts[p].overlaps = {} => p \in good

\* The outcome of a torrent with bytes that could not be hashed is Incomplete, and only
\* a file with mismatched bytes is called mismatched.
FindingsMatchBytes ==
    result.kind = "Success" =>
      LET report == result.report IN
      \A f \in Reported(torrent) :
        /\ (report.bytes[f].hashed < torrent.files[f].length) => report.outcome = "Incomplete"
        /\ (report.bytes[f].mismatched > 0)
             <=> (report.findings[f] \cap {"HashMismatch", "SharedPieceMismatch"} # {})
        /\ report.bytes[f].hashed <= torrent.files[f].length

\* A cancellation is heard: at most the snapshot that was under way reaches the observer
\* after it, and a call that went on telling after it does not end as a success.  A
\* success after a cancellation is one that had told everything before.
CancelledIsQuiet == late <= 1 /\ (result.kind = "Success" => late = 0)

\* verify returns, whatever the order of the alerts, and whether or not somebody
\* observes or cancels: the loop leaves no alert and no page waited for in vain.
VerifyReturns == <>Returned
=============================================================================
