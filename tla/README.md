# TorrentCraft in TLA+

A verification development for TorrentCraft (C++17, libtorrent, Qt): TLA+ modules
translated from the sources, TLC runs on small instances, and TLAPS proofs for
instances of any size.  Paths are relative to the repository.

```
tlc -workers 2 -config MCAdmission.cfg MCAdmission         # one run
tlapm AdmissionProofs.tla                                  # one proof module
```

## 1. The system

| Component | Source | State it keeps | Operations |
|---|---|---|---|
| Cancellation | `src/cancellation.cpp` | flag, list of callbacks, their `active`/`executing` marks | `subscribe`, `cancel`, destruction or move of a registration |
| Verification admission | `src/verification_admission_controller.cpp` | free permits, queue of tickets, condition variable | `verify`, permit release |
| Content verification | `src/libtorrent_adapter.cpp` (`verify`), `src/verification_progress_publisher.cpp` | piece layouts, ranges to publish, counters, pages | alert loop, `record`, `complete`, `emit`, the report |
| Load and save | `src/application.cpp` | snapshots (bytes, document, path), files, backups | `load`, `edit`, `save`/`commit` |
| Torrent creation | `src/torrent_engine.cpp`, `src/libtorrent_adapter.cpp` (`create`) | temporary file, target | `create`, `plan_create` |
| GUI tasks and window | `src/gui/GuiTaskRunner.cpp`, `src/gui/MainWindow.cpp` | running task, posted events, busy flags, log operations, Verify page | start, cancel, handlers, close |
| GUI pages | `src/gui/MainWindow.cpp` | a loaded document, its fields, rows, check boxes and generated output path, one set for each of Inspect, Modify and Tracker; the Create form and the Advanced page | open, type, save, preview, convert a folder; load and save presets |
| Metadata engine | `src/metadata_engine.cpp` | the document it retains: what was read, edits, the bytes read | decode (strict, lenient), edit, encode |
| Tracker engine | `src/tracker_engine.cpp` | none | edits of tiers, import and export |
| Bencode adapter, domain types | `src/bencode_adapter.cpp`, `src/domain.cpp` | none | decode, validate |
| File filter and order | `src/file_filter.cpp`, `src/libtorrent_adapter.cpp` | none | `matches`, `file_path_less` |
| Configuration and presets | `src/config_store.cpp`, `src/frontend.cpp` | JSON documents on disk, one in each process | discover, load, edit, migrate, create, save, resolve |
| Command line | `src/cli/` | options, progress line | `config`, `preset`, `metadata`, `tracker`, `create`, `verify`, ...: one per process |
| GUI log, file tree | `src/gui/GuiLogController.cpp`, `src/gui/FileTreeModel.cpp` | log files and tail; items and states | append, rotate; apply progress |

Interactions.  A frontend makes a `CancellationSource` and hands its token with a
`TaskContext` to one synchronous call.  Every long call polls the token at *safe
cancellation checkpoints* (`CONTEXT.md`, 134-150); admission also subscribes to it.
Admission calls `TorrentService::verify`, which calls the adapter, which calls back
with progress on the worker's thread; the GUI posts these calls to its own thread.
Files are shared by everybody: the calls of this program, other processes of it, and
other programs.  The configuration is such a file: a command line reads and replaces it
within a moment, the window keeps its document for hours and replaces it with that.

What is hard, in this code:

- *Interleaving*: the cancellation lock is not held while callbacks run; the admission
  callback notifies without the admission lock; two processes name temporary files
  alike; the GUI runs nested event loops inside its handlers.
- *Ordering*: piece alerts come in any order; `failed`, `finished` and progress events
  are queued behind user input.
- *Time of check and time of use*: a target is looked at before hours of hashing, a
  source before it is replaced, a path before a load ends.
- *Partial failure and crashes*: any file operation of a save or create may fail, be
  cancelled or be the last one of the process.
- *Staleness*: a page's fields, the document it loaded, the path it shows and the file
  on disk are four things that come apart while a task runs or somebody else saves.
- *Two forms of one thing*: trackers as `announce` and `announce-list`, a source in the
  info dictionary or beside it, settings as a list or tiers, a default preset in an old
  and a new place.  An edit must not uncover what the other form hides.
- *Numbers*: pieces shared between files, padding, the last short piece.

`PROJECT.json` lists every hazard at its line with the properties aimed at it.

## 2. Modules

| Module | Models | Extended by |
|---|---|---|
| `Cancellation` | `cancellation.cpp`, step by step between locks | `MCCancellation`, `CancellationProofs` |
| `FifoPermits` | what admission promises: a line of callers and `Capacity` places | instantiated by `Admission` |
| `Admission` | `verification_admission_controller.cpp` | `MCAdmission`, `AdmissionProofs` |
| `VerificationReport` | layouts, byte counters and the report, as operators | `ProgressPublisher` |
| `ProgressPublisher` | `verification_progress_publisher.cpp` | `VerifySession` |
| `VerifySession` | the `verify` call around both, with libtorrent's alerts | `MCVerify`, `VerifyProofs` |
| `TorrentSave` | `load`, `save`, `commit`, backup and temporary file, several savers | `MCSave`, `SaveProofs` |
| `TorrentCreate` | `create` down to the rename, several calls in several processes | `MCCreate`, `CreateProofs` |
| `GuiSession` | task runner, busy state, dialogs, log entries, Verify page, closing | `MCGui`, `GuiProofs` |
| `Settings` | `frontend.cpp`: settings, presets and which of them wins, as operators | `ConfigFile` |
| `ConfigFile` | `config_store.cpp`: the document and its edits, as operators | `ConfigSession` |
| `ConfigSession` | command lines and one window over shared configuration files; Create form, Advanced page | `MCConfig`, `ConfigProofs` |
| `TrackerEngine` | `tracker_engine.cpp`: edits of tiers, texts and JSON, as operators | `MetadataEngine` |
| `MetadataEngine` | `metadata_engine.cpp`: reading, editing and rewriting a torrent, as operators | `DocumentSession` |
| `DocumentSession` | Inspect, Modify and Tracker pages, the batch and command lines over shared torrents | `MCDocuments`, `DocumentProofs` |

Correspondence, module by module.

**Cancellation.**  `callbacks`, `active` and `executing` are the fields of the shared
state and its entries; `batch` is the local list of `cancel` with what it has still to
invoke; `pc`/`cpc` say where each subscriber and canceller is between two critical
sections.  `Destroys` names the callbacks that destroy another registration.
`completed.wait` may wake spuriously.  `runs` is history.

**Admission.**  `available` and `queue` are the fields of `State`; `mutex` is explicit
because the callback does not take it; "waiting" and "waking" are the two halves of
`changed.wait`.  `setup` says which of the `Setups` is the case: a capacity and the callers
whose token may be cancelled.  `arrival` is history.  `EraseTicket` is exactly what the
code's call does.  A caller whose ticket another caller erased reaches `find`, `front` and
`pop_front` with a queue that need not hold its ticket and may be empty, where the last
two are undefined.  What the standard libraries make of it is modelled: the comparison with
`front()` may come out either way (`FrontMatches`, `FrontDiffers`), and `pop_front` moves the
start of the deque past its end (`PopTicket`), so that a ticket pushed later falls into a
slot already `skipped` (`PushTicket`) and is lost; what the double release does to the heap
is not.  `Admission` uses what `Cancellation` proves of a callback: it runs once, and the
registration's destructor waits for it.

**VerificationReport, ProgressPublisher, VerifySession.**  A torrent is a format, a piece
length and files with lengths, padding and links.  Bytes are numbers, pieces and ranges
as in the code, a page holds at most `MaxRanges` ranges and `MaxFiles` files.  `good` is
what the content is, chosen for every piece; alerts for good pieces come in any order,
more than once or not at all.  The observer runs inside `emit` and may cancel there.  The
last look at the token and the report are two steps: a call cancelled between them, when
everything has been told, still succeeds.

**TorrentSave.**  A path holds one value: the original bytes, what a saver writes, what
another program writes, a link, nothing, or half-written bytes.  The checks and file
operations of `save` and `commit` are steps: the status of the target, the status of the
source, its opening (`OpenSource`), the comparison of what was read (`Compare`), and the
beginning and the end of the backup's copy and of the writing, and the rename.  Another
program may act, and the token may be cancelled, between any two; every operation may
fail.  Two things are coarser: a size that is out of date when the source is opened only
makes the read fail (`Fail`), and `Load` is one step.  The destination is compared with the
source as it is written, so that `save` need not notice that they are one file
(`SaveChecks`); `commit` does.

**TorrentCreate.**  A name refers to an inode, and a stream too, because two processes can
rename and write one file.  `sequence` is the static counter of `temporary_sibling`, one
in each process.  `Fail` runs the destructor of `PendingFile`.  `Kill` runs none.  This is
the POSIX build: `commit_file` renames and ignores `allow_overwrite`.

**GuiSession.**  `events` is the GUI thread's queue, `modals` the stack of handlers that
wait for a modal dialog.  A second task cannot start while one runs.  `other` stands for
the operations of the Create, Inspect, Modify and Tracker pages, which start a task and
end a log entry in the same way; what they do is in `DocumentSession` and `ConfigSession`.

**Settings, ConfigFile, ConfigSession.**  A document is a record of objects whose keys may
be `Missing`; a value is one of a small set, `"bad"` one that does not validate.  Of the
fields of the settings four are kept, one of each kind: a choice (`format`), the
trackers in their two forms, a text that may be empty (`comment`), and the one with a
check box (`created_by`).  An actor's `mem` is its `ConfigFile`, `home` where that is
saved; the size and the content of a file are read in two steps, and everything of a
`save` before its rename is private to the caller.  The window's `form`, `custom` and
`active` are the Create page and the preset in its title, `advanced` the Advanced page.
History: `stale` (replaced by another since it was loaded), `unsaved` (edits in memory
that were refused or could not be written), `edits` (typed since the form was filled),
`fresh` (the form was filled from the document).  A file operation may fail and a
command line be killed at every step (`Stop`); a save of the window may fail.

**TrackerEngine, MetadataEngine, DocumentSession.**  A torrent is a record of its keys,
each `None`, `BadText` (bytes that are no text) or a value; `unknown` stands for the keys
the program does not know, `info.sorted` for whether the info dictionary can be written
back as it was.  A list of trackers is a sequence of tiers of URLs, and `KeyOf` gives the
comparison key of those that parse.  A loaded document (`document`, `source`,
`original`) is a `TorrentSnapshot`.  One `task` runs in the window; what the user does,
what the worker does and what the window does with the outcome are different steps, and a
command line loads and saves in two.  A save is one step here, `TorrentSave` takes it
apart.  A save is remembered with what the page showed: `ShownView`, where a ticked Clear box
stands for an empty field, or `PageView`, which leaves out the web seeds under a ticked box
that have a text (their run is `documents_clear`).  `cli` is a command line or, with an edit none of the commands offers, another
client of the library.  History: `written` (what the last step wrote and why), `origin`
and `unread` (which torrent a page's fields come from), `disturbed` (a command line saved
during a batch).

Operators named `X_Reason`, right before `X`, are mutants: `X` as a plausible mistake
would have it.  Each shows that a property can be violated by such a mistake
(`PROJECT.json`, "mutants"); no specification uses them.

## 3. Runs

| Run | Instance | Shows |
|---|---|---|
| `cancellation` | 3 registrations, 2 cancellers, one callback that destroys another registration | one-shot, nobody missed, quiet after reset; reset returns, unless a callback of the same `cancel` is the one that waits |
| `cancellation_peer` | the same | *violated* `ResetReturns`: a callback that destroys a registration the same `cancel` has marked and not yet reached waits for ever, although `cancellation.hpp:17-18` says that destruction waits only for a callback that has started |
| `admission` | 4 callers with 1 permit and one of them cancellable, or with 2 permits and none | permits conserved, capacity; a caller is overtaken only if its ticket was erased or skipped; cancelled waiters stay out; callers with tickets return; while nobody cancels, refinement of `FifoPermits` with its order and liveness |
| `admission_order` | 4 callers, 1 permit, one cancellable | *violated* `NoOvertaking`: a cancelled waiter erases the tickets behind it |
| `verify_session` | two version 1 torrents, one with padding and shared pieces, one with a piece of padding alone, and a version 2 torrent with a link; every set of good pieces | progress adds up to the report, the report to the bytes; at most one snapshot is told after a cancellation, and a call that told one does not succeed; `verify` returns |
| `torrent_save` | 2 savers, 2 paths, one change by another program | what may be replaced, what is left behind, what a backup holds, saving twice |
| `torrent_create` | 2 calls in 1 or 2 processes, 2 pieces, 2 chunks | the target is whole, nothing is left behind, the first file is kept |
| `gui_session` | 2 torrents, 3 log operations, 1 snapshot per task | flags, results and log entries belong to their task; a confirmed exit of a running task closes |
| `config_store` | 1 command line of 11, 1 window with 2 actions of its user, a local and a user file | only what was asked is changed; what the Create page would create is what the command line would; what is on disk loads |
| `documents` | 2 folders of 2 torrents, 1 window, 1 command line at a time, 3 actions | what is written reads back as edited and keeps the rest; a page saves what it shows; a batch converts or reports every torrent |
| `documents_clear` | the same | *violated* `ClearedSeedsAreGone`: the Clear box of the web seeds does not clear them while their text is left, although `docs/cli/gui.md:81` says that the boxes clear their fields |
| `gui_close` | 2 torrents, 2 operations | *violated* `ConfirmedExitCloses`: the task ends while the exit dialog is open |

Bounds.  Three registrations and two cancellers give one callback before, one during and
one after another's; four callers are the fewest in which one inside, one cancelled, one
erased and one late caller meet.  Pages of two ranges and two files are the smallest that
merge and overflow; the three torrents have each kind of file, a piece of two files, a
last short piece and one that holds no content.  Two savers or calls are a conflict; a third only repeats it (the
creating run was also made with three).  `MaxForeign` and `foreign` allow one change by
another program, enough for every check to be overtaken.  `MaxOps` = 3 is a task, its
leftover and a following one.  `MaxSiblings` bounds the names of a process by the number of
calls, so that no call is refused one.  `config_store`: a stale window needs one write of
another actor, and two actions of the user are a change and what is then made of it (apply
and save, save and delete, type and save); the command line interleaves with both.  The
five starts hold a preset, a legacy default preset, a document of the old form, a broken
one and none.  `documents`: `MaxSteps` = 3 is to open, to edit and to do something
else meanwhile; saves are not counted.  The two disks hold between them each
way in which one key hides another, doubled and invalid trackers, bytes that are no text,
an unsorted info dictionary and a file that is no torrent.

Stopping.  Every run allows it (`CHECK_DEADLOCK FALSE`): calls end and a window closes.

Fairness.  Threads that hold no one up are scheduled (weak fairness per thread step);
`SF` on taking the admission mutex, since a mutex that is free again and again is not
refused for ever by the systems the program runs on; `SF` on libtorrent's
`torrent_checked` alert, which is external.  The GUI's loop delivers posted events (weak
fairness), and its two liveness properties are conditional on `[]<>(modals = <<>>)`: the
user answers the dialogs.  Nothing makes a user act, a token be cancelled or an operation
succeed.  `TorrentSave`, `TorrentCreate`,
`ConfigSession` and `DocumentSession` claim safety only.

## 4. Proofs

TLAPS proves, for every value of the constants allowed by the named assumptions:

- `CancellationProofs`: `IInv` is inductive; hence `OneShot`, `GoneIsQuiet`, `NoneMissed`
  for any number of threads.  `OneShot` alone is not inductive: that a callback has run
  must be tied to its marks (`Bookkeeping`), to the one canceller that won (`Winner`) and
  to which callbacks are still in its list (`Invocations`).
- `AdmissionProofs`: `available` plus the permits held is the capacity (`Accounts`); hence
  the limit is respected by any number of callers, with cancellations and lost or spurious
  notifications.  The proof needs who holds the mutex (`MutexHolder`), and facts about
  finite cardinalities from the library.  `InLine` adds that the queue holds waiting callers
  in the order of `arrival`, also after `EraseTicket` has cut off a tail; hence
  `OvertakenOnlyIfLost`, and `CancelledWaiterStaysOut` with what a cancelled caller's way out
  is (`OnItsWayOut`).  `SpecFifoSteps` is the refinement of `FifoPermits` without its
  fairness, for any callers as long as nobody can cancel (`TicketsKept`): the initial states
  map to its initial states, `Enqueue`, `Admit` and `Release` to `Join`, `Enter` and `Leave`,
  every other step to a stutter.  Where somebody can cancel the mapping shows the line
  nothing, so that nothing is claimed.
- `CreateProofs`: `IInv` of `TorrentCreate`; hence `TargetWhole`, `NoLeftovers` and
  `PriorIsKept` for any number of calls and processes.  The heart is `StreamsOwned`: an
  open stream's file has no temporary name but its call's own, so that a rename, a removal
  or a truncation by another call hits it only if the names were equal while both ran,
  which `shared` remembers (`SharedExact`); `InodesNamedOnce` says that a file has one
  name and that a new file is new; `CommittedQuiet` that nobody writes to what was
  committed.  One lemma for each step that touches names or files, one for failures, one
  for all quiet steps.  `PriorIsKept` needs `PriorUnseen` besides.

- `SaveProofs`: `IInv` of `TorrentSave`; hence `NeverHalfWritten`,
  `CancelledLeavesNothing` (about saves that end as `Cancelled`, not about other failures),
  `BackupHoldsReplaced`, `ResaveFindsNoChange` and `ReplacesOnlyLicensed` for any savers, paths, stamps and changes by other programs, where
  the marks (`Absent`, `Symlink`, `Partial`, `None`) differ from every content.  None of
  them is inductive.  What a rename may replace rests on `Watched`: whatever was licensed
  when the save looked at its target still is, or the saver is in `stale`.  The backup needs
  `GuardArmed` (the guard holds the backup's name from before the copy to the end) and
  `BackupExact`, and both need that a name is `Shared` for good once two saves have
  used it.  `ReplacesOnce` says that a save which has replaced a file is over but for the
  second save of its snapshot.  One lemma for each group of steps.
- `GuiProofs`: `IInv` of `GuiSession`; hence `RequestIsOfThisTask`,
  `ResultsOfShownTorrent` and `LogExplained` for any operations, torrents, snapshots and depth of dialogs.
  Beside what the two say it needs `EndsOnce` (the event that ends a task and the dialog
  whose answer ends it come once, for a task whose work has returned, and never together),
  `Verifying` (what counts as a verification is the running task, of the torrent loaded)
  and `SettledWhenIdle`.  For the log, `ActiveKnown` says of each operation left in
  `active_operations_` why it is there (forgotten, of the running task, or of the preset
  asked about) and `PresetBeneath` that this preset is the operation begun last: hence
  `back()`, which `show_error` and the `failed` handler finish, is one of the three, and the
  two that `failed` finishes include the task's own.
- `VerifyProofs`, first part: what a verification computes, for every torrent.
  `OverlapsAddUp`: the layouts of the pieces divide the bytes of each reported file among
  its pieces, none twice and none left out, in version 1 (files laid end to end) and
  version 2 (files aligned to pieces) alike.  `ReportCountsRight`: hence the bytes of a
  report's findings add up.  `VerifiedExactly`: a report says verified exactly when every
  piece with content is good and no file was found wrong beforehand.  A sum over a set of
  files or pieces is a fold of the library, whose definition chooses a recursive function:
  `SumExists` shows that there is one, `SumUnique` that it is the only one, and
  `SumRemove`, `SumSplit` and `SumTelescope` are what the rest uses.  These, and the lemma
  that sums over layouts telescope, are inductions over finite sets; they argue by a least
  counterexample (`LeastNat`, `LeastSubset`, from the library's well-founded order on
  finite sets), since the induction theorems cannot be instantiated.
- `VerifyProofs`, second part: `IInv` of `VerifySession`, with the publisher inside it; hence
  `FindingsMatchBytes`, `VerifiedMeansAll`, `ProgressAddsUp` and `CancelledIsQuiet`, for
  any torrents that are well formed (`TorrentsAssumption`), any positive `MaxRanges` and
  `MaxFiles`, any order of alerts, doubled and missing ones included.  That progress adds
  up to the report is no invariant on the way: a piece recorded may be in a pending range,
  in the page under way or shown.  `OnceEach` says that it is in exactly one of them,
  which needs that ranges stay apart and merged (`RangesMerged`: `insert_range` may join a
  piece to the range before, the one after, or both); `CountersTold` says the same of the
  counters of the files, `PendingExact` that the counter of `complete` tells when nothing
  waits.  `RecordsTrue` ties what was recorded to the content, `CompletesInOrder` which
  pieces have been posted to where `verify` is.
- `ConfigProofs`: `IInv` of `ConfigSession`; hence `FrontendsAgree`, `WritesWhatWasAsked`
  and that a configuration which loads never becomes one that does not (`SpecFilesLoad`),
  for any command lines, paths, names of presets, texts, initial files and commands.
  `TextsAssumption` asks that the values the code falls back on are texts,
  `NamesAssumption` that the name of a preset is not empty, `NoneAssumption` that the mark
  of no file is no document; the others give the types of what is said on a command line
  and in the window.  First come lemmas on `Settings` and `ConfigFile`: what parsing,
  overlaying and resolving return, and for each edit which documents it refuses and in
  what its outcome differs (`SetKey`, `AddPreset`, `SetGuiPreferences`, ...), hence that
  every preset keeps the fields the edit was not asked to change (`KeepsRest`).  Neither
  property is inductive: a write comes steps after the document was loaded, when others may
  have replaced the file.  `CommandExact` and `WindowExact` say that what is in memory is
  what is on disk, and at the save differs from it by what was asked, unless the actor is in
  `stale` (or the window in `unsaved`); `DocumentKept`, `CommandStages` and `WindowStages`
  say which document is held at which step; `FormTrue` and `PageTrue` that the Create form
  and the Advanced page show it, without which `PatchFromForm` and `Differing` mean
  nothing.  An actor that a step leaves alone keeps its part if its file is untouched or it
  becomes stale (`Untouched`); then there is one lemma for each step of a command line and
  of the window.

- `DocumentProofs`: `IInv` of `DocumentSession`; hence `ReopensAsEdited`, `KeepsTheRest`,
  `SavesWhatIsShown`, `BatchConvertsFolder` and `ListsSurvive`, for any folders, torrents,
  texts, URLs and keys, any defaults of the batch, any commands of a command line and
  anything a user types.  `TrackerAssumption` asks that neither an empty line nor a comment
  is a tracker; `MetadataAssumption` that trackers and seeds are strings, that the marks
  (`None`, `BadText`, `Garbage`, `Refused`) are none of the values they stand beside;
  `DocumentAssumption` gives the types of paths, of what is typed and of the commands, and
  that there are finitely many names.  The proof goes bottom up.
  - *Lists.*  `Pick` keeps the order of the entries it picks and counts them, in whatever
    order a set is met (`Nth`, `InOrder`).  Hence a list survives its text
    (`TextSurvives`), its JSON document and its table, and an edit that is not refused ends
    where a definition by positions says (`EditedAsRequested`): a tracker moved out of a
    tier that vanishes, into one behind it, is the case that needs the care.
  - *Reading and writing.*  What is written loads as strictly as what was read
    (`LoadsWritten`) and reads as what the document shows (`ViewWritten`); what was only
    read is written as it was (`ReadIsKept`).
  - *Edits.*  A document is folded over the actions by the recursive functions `Drafts`
    and `Identities`; that the fold comes to `Requested`, for every length, is again shown
    at a least counterexample.  An edit touches the torrent in three passes (trackers and
    texts in memory, patches of the info dictionary one by one, the rewriting of the top
    level), `Requested` applies its actions in turn: `EditDoesWhatWasAsked` says that the
    two agree, and that an edit called unchanged is.
  - *Pages.*  What `ModifyActions` asks for comes to what the Modify page shows
    (`ModifyAsksForWhatIsShown`), whatever was typed and ticked, but for web seeds with a
    text under a ticked Clear box (`PageView`); an empty text asks for nothing.
  - *Steps.*  The five properties are not inductive.  What is inductive is `Sound`: the
    types with what each kind of task was given and may return (`TaskTyped`); that every
    snapshot held, by a page, a task or a command line, is `Well`, that is, encodes back to
    the torrent it was read from and needs no rebuilding; that a page which holds a torrent
    knows whether it shows that torrent's path (`PathsShown`); that a save under way asks
    for what the page showed when it was pressed (`SavesAsShown`); that a batch is done
    with the torrents it has passed, converted or reported (`BatchSoFar`, which needs that
    no name comes twice and that no command line wrote meanwhile); and that what the last
    step wrote is right (`WrittenOK`).  One lemma for each step of the window, of its tasks
    and of the command lines.

Model-checked only: the four violations, and the liveness properties
(`ResetReturnsButForPeers`, `WaitersReturn`, `VerifyReturns`,
`ConfirmedExitOfRunningTaskCloses`, and the fairness of `FifoPermits` in `ImplementsFifo`),
since the prover has no rule for fairness and ENABLED.  Every safety
property of a passing run is a theorem.  Two things help the proofs and say nothing
themselves: the models write lists by position (`Pick`, `Nth`, `InOrder`) and folds as
recursive functions, because a fold of the library is a choice the provers cannot unfold.

## 5. Not modelled

- The bytes: hashing, bencode, JSON, text and layout; the limits of sizes and depths, the
  1 MiB of `TrackerEngine`'s imports among them.
- What undefined behaviour does beyond the container it happens in (Admission).
- Errors of the discovery of a configuration other than that there is none: a path that
  cannot be looked at or is no regular file.
- libtorrent: its alerts are external; that it always ends a check is assumed.
- A content that changes while it is verified or hashed; the walk over a directory
  (`Prepare` is one step); which files of a directory are taken (`file_filter.cpp`) and in
  which order.
- Of the metadata: files, piece hashes, the layout of version 2 and hybrid torrents,
  collections and DHT nodes.  Of the settings: the fields that are resolved like the four
  kept, and where a torrent is written when no output is named.
- Of the command line: what it prints, and `inspect`, `tree`, `validate`, `completion`,
  which change nothing.
- Operations of the window that open a dialog between the beginning and the end of their
  log entry and start no task, other than presets: reloading the configuration, choosing a
  language, importing presets.  An error shown meanwhile can be entered in the log as
  theirs, as `LogExplained` says of a preset.
- The log files and their rotation, the lazily filled file tree, the dialogs that only
  show or ask.
- Windows' `MoveFileEx`, which refuses what `rename` replaces.
- Power loss: `rename` is atomic and what was written is read back.

## 6. Observations

What the models show of the code beyond the violations of section 3:

- A file that appears at the target of `create` while the content is hashed is replaced
  without `--overwrite`, since the only look at the target comes before
  (`libtorrent_adapter.cpp:1857`); `docs/cli/create.md:9` promises that an existing target
  makes the command fail.  `PriorIsKept` states what does hold: the file of the start stays.

No document or test says otherwise of the following:

- A save of the window writes its whole document: it undoes what a command line changed
  in the configuration since the window loaded it (`stale`).
- An apply that is refused at its end has already changed the defaults in memory; the
  next save of anything writes them (`unsaved`).
- A cleared default comment is not erased by Apply: an empty text is not written.
- `config set defaults.tracker_list` has no effect on a document that has tiers.
- Setting a torrent that has no `private` key to not private writes `private` = 0, which
  changes its info hash; the Modify page always sets it.
- A save that changes nothing writes nothing, to a new path neither; a batch into another
  folder leaves out the torrents that have the trackers already; the Tracker page shows
  such a save of one torrent as an error (`MainWindow.cpp:3243`).
- A path typed on the Modify page while a task runs is shown but not loaded: Save then
  saves the torrent loaded before (`unread`).
- Clearing the source of the info dictionary uncovers the one beside it.

## 7. Plan

1. `LogRotation`: rotation with failing renames, and the tail shown.
2. File filter and file order: patterns and ordering against reference definitions; the
   two walks over a directory that changes.
3. `FileTree`: aggregated states against the report; the command line's progress line.
4. Proofs about these, and of the edits of `Settings` as they were made of the trackers: an
   abstract store of settings that `ConfigSession` implements.
