------------------------------- MODULE GuiSession -------------------------------
(***************************************************************************)
(* The GUI's background tasks (src/gui/GuiTaskRunner.cpp) and the parts of *)
(* MainWindow.cpp that share them: the Verify page, one operation that     *)
(* stands for the other pages, presets, cancelling and closing.            *)
(*                                                                         *)
(* A worker thread runs one task and posts what happens to the GUI         *)
(* thread's queue.  A modal dialog is a nested event loop inside the       *)
(* handler that opened it: it goes on delivering the queue, takes user     *)
(* input for itself only, and its handler resumes when it is answered.     *)
(* modals is the stack of those suspended handlers, innermost last.        *)
(***************************************************************************)
EXTENDS Naturals, Sequences, FiniteSets

CONSTANTS
    Torrents,     \* texts of the Verify page's torrent path
    None,         \* nothing
    MaxOps,       \* bound on the logged operations
    MaxSnapshots  \* bound on the progress snapshots of a verification

TaskKinds == {"load", "verify", "other"}
Tasks == [op : 1..MaxOps, kind : TaskKinds, torrent : Torrents, working : BOOLEAN]

ASSUME GuiAssumption ==
    None \notin Torrents \cup Tasks /\ MaxOps \in Nat /\ MaxSnapshots \in Nat

VARIABLES
    window,     \* "open" or "closed"
    modals,     \* suspended handlers with a modal dialog, innermost last
    events,     \* the GUI thread's posted events
    ops,        \* the kind of each operation begun so far (begin_gui_operation)
    active,     \* active_operations_, in the order of their numbers
    task,       \* the running task of GuiTaskRunner, or None
    posted,     \* snapshots the running task has posted
    cancelled,  \* cancellation_ of the runner is cancelled
    busy,       \* set_busy's argument: Start disabled, Cancel enabled
    cancellationRequested, closeAfterOperation, verificationRunning,
    path,       \* text of editVerifyTorrentPath
    verifyLoaded,
    tree,       \* verify_file_model_: whose files, whose results, which phase
    silent,     \* operations whose completion never finished them (history)
    filed       \* <<o, c>>: the log entry of o was finished by c (history)

log == <<ops, active, silent, filed>>
runner == <<task, posted, cancelled>>
flags == <<busy, cancellationRequested, closeAfterOperation, verificationRunning>>
page == <<path, verifyLoaded, tree>>
vars == <<window, modals, events, log, runner, flags, page>>

NoTree == [files |-> None, results |-> None, phase |-> "none"]

Init ==
    /\ window = "open" /\ modals = <<>> /\ events = <<>>
    /\ ops = <<>> /\ active = {} /\ silent = {} /\ filed = {}
    /\ task = None /\ posted = 0 /\ cancelled = FALSE
    /\ busy = FALSE /\ cancellationRequested = FALSE
    /\ closeAfterOperation = FALSE /\ verificationRunning = FALSE
    /\ path \in Torrents /\ verifyLoaded = None /\ tree = NoTree

Running == task # None

\* The user can act on the window: no modal dialog is open, and the loop has
\* delivered a posted close (Qt sends posted events before it takes new input).
AtWindow == /\ window = "open" /\ modals = <<>>
            /\ \A i \in 1..Len(events) : events[i].kind # "close"

Open(frame) == modals' = Append(modals, frame)
Answer(kind) == /\ window = "open" /\ modals # <<>>
                /\ modals[Len(modals)].kind = kind
Top == modals[Len(modals)]
Popped == SubSeq(modals, 1, Len(modals) - 1)

\* Mutant: the request of the last task is kept.
SetBusy_KeepsRequest(on) == busy' = on /\ UNCHANGED cancellationRequested

SetBusy(on) ==
    /\ busy' = on
    /\ cancellationRequested' = (cancellationRequested /\ ~on)

-----------------------------------------------------------------------------
\* The log of operations.  FinishActive is what show_error and show_task_error
\* do: they finish whichever operation was begun last.

Without(o) == active \ {o}

\* Mutant: a finished operation stays in active_operations_.
Finish_Keeps(o) == filed' = filed \cup {<<o, o>>} /\ UNCHANGED <<ops, active, silent>>

\* The state of the log after `cause` finished operation o.
Finish(o) == /\ active' = Without(o) /\ filed' = filed \cup {<<o, o>>}
             /\ UNCHANGED <<ops, silent>>

LastOf(open) == {o \in open : \A other \in open : other <= o}

FinishActive(cause, open, done) ==
    /\ active' = open \ LastOf(open)
    /\ filed' = filed \cup done \cup {<<o, cause>> : o \in LastOf(open)}
    /\ UNCHANGED <<ops, silent>>

\* The completion finishes its own operation and then shows the error.
FinishAndShow(o) == FinishActive(o, Without(o), {<<o, o>>})

-----------------------------------------------------------------------------
\* Starting a task: begin_gui_operation, set_busy(true), GuiTaskRunner::start.

Begin(kind) ==
    /\ Len(ops) < MaxOps
    /\ ops' = Append(ops, kind)
    /\ active' = active \cup {Len(ops) + 1}
    /\ UNCHANGED <<silent, filed>>

StartTask(kind) ==
    /\ Begin(kind)
    /\ task' = [op |-> Len(ops) + 1, kind |-> kind, torrent |-> path, working |-> TRUE]
    /\ posted' = 0 /\ cancelled' = FALSE
    /\ SetBusy(TRUE)
    /\ UNCHANGED <<window, modals, events, closeAfterOperation>>

LoadVerifyTorrent ==
    /\ AtWindow /\ ~Running /\ verifyLoaded = None
    /\ StartTask("load")
    /\ UNCHANGED <<page, verificationRunning>>

StartVerify ==
    /\ AtWindow /\ ~busy /\ ~Running /\ verifyLoaded # None
    /\ StartTask("verify")
    /\ verificationRunning' = TRUE
    /\ tree' = [tree EXCEPT !.results = None,
                            !.phase = IF @ = "none" THEN "none" ELSE "pending"]
    /\ UNCHANGED <<path, verifyLoaded>>

\* Create, inspect, modify and the tracker page: they differ in their results.
StartOther ==
    /\ AtWindow /\ ~busy /\ ~Running
    /\ StartTask("other")
    /\ UNCHANGED <<page, verificationRunning>>

\* Typing invalidates what was loaded, also while a task runs.
EditPath ==
    /\ AtWindow
    /\ path' \in Torrents \ {path}
    /\ verifyLoaded' = None /\ tree' = NoTree
    /\ UNCHANGED <<window, modals, events, log, runner, flags>>

-----------------------------------------------------------------------------
\* The worker thread.

Post(event) == events' = Append(events, event)

Report ==
    /\ window = "open" /\ Running /\ task.working /\ task.kind = "verify"
    /\ posted < MaxSnapshots
    /\ posted' = posted + 1
    /\ Post([kind |-> "snapshot"])
    /\ UNCHANGED <<window, modals, log, task, cancelled, flags, page>>

\* The work has returned: completed with an outcome, or failed if it threw.
\* Only a cancelled token makes the service answer Cancelled.
Outcomes ==
    {"ok", "error"} \cup (IF cancelled THEN {"cancelled"} ELSE {})
      \cup (IF task.kind = "other" THEN {"missing", "silent"} ELSE {})

Execute ==
    /\ window = "open" /\ Running /\ task.working
    /\ task' = [task EXCEPT !.working = FALSE]
    /\ \/ \E o \in Outcomes : Post([kind |-> "completed", outcome |-> o])
       \/ Post([kind |-> "failed"])
    /\ UNCHANGED <<window, modals, log, posted, cancelled, flags, page>>

-----------------------------------------------------------------------------
\* Handlers of the posted events.

\* Mutants: the flag is reset before it is read; the buttons stay disabled.
Finished_ForgetsClose(queue) ==
    /\ task' = None /\ SetBusy(FALSE)
    /\ events' = queue
    /\ closeAfterOperation' = FALSE
    /\ UNCHANGED <<window, posted, cancelled>>

Finished_StaysBusy(queue) ==
    /\ task' = None
    /\ events' = IF closeAfterOperation THEN Append(queue, [kind |-> "close"]) ELSE queue
    /\ closeAfterOperation' = FALSE
    /\ UNCHANGED <<window, posted, cancelled, busy, cancellationRequested>>

\* GuiTaskRunner after the completion or `failed`: running_ = false, finished().
Finished(queue) ==
    /\ task' = None /\ SetBusy(FALSE)
    /\ events' = IF closeAfterOperation THEN Append(queue, [kind |-> "close"]) ELSE queue
    /\ closeAfterOperation' = FALSE
    /\ UNCHANGED <<window, posted, cancelled>>

\* A completion that returns without a dialog, and one that shows a dialog and
\* lets the runner finish only when it is answered.
Returns == Finished(Tail(events)) /\ UNCHANGED modals
Notifies ==
    /\ Open([kind |-> "note", ends |-> TRUE])
    /\ events' = Tail(events)
    /\ UNCHANGED <<window, runner, busy, cancellationRequested, closeAfterOperation>>

\* show_task_error: finish the last operation, set_busy(false), dialog.
ShowTaskError(done) ==
    /\ FinishActive(task.op, IF done = {} THEN active ELSE Without(task.op), done)
    /\ Open([kind |-> "note", ends |-> TRUE])
    /\ events' = Tail(events)
    /\ SetBusy(FALSE)
    /\ UNCHANGED <<window, runner, closeAfterOperation>>

\* verify_file_model_ of a torrent shows rows only when it has files.
Marked(phase) == tree' = IF tree.files = None THEN tree
                         ELSE [tree EXCEPT !.results = task.torrent, !.phase = phase]

ApplySnapshot ==
    /\ IF verificationRunning /\ ~cancellationRequested
       THEN Marked("checking") ELSE UNCHANGED tree
    /\ events' = Tail(events)
    /\ UNCHANGED <<window, modals, log, runner, flags, path, verifyLoaded>>

\* Mutant: the completion does not look whether the path was edited meanwhile.
LoadCompleted_AnyPath(outcome) ==
    /\ UNCHANGED <<verificationRunning, path>>
    /\ \/ /\ outcome = "cancelled"
          /\ Finish(task.op) /\ Returns
          /\ UNCHANGED <<verifyLoaded, tree>>
       \/ /\ outcome = "error"
          /\ FinishAndShow(task.op) /\ Notifies
          /\ UNCHANGED <<verifyLoaded, tree>>
       \/ /\ outcome = "ok"
          /\ verifyLoaded' = task.torrent
          /\ tree' = [files |-> task.torrent, results |-> None, phase |-> "pending"]
          /\ Finish(task.op) /\ Returns

LoadCompleted(outcome) ==
    /\ UNCHANGED <<verificationRunning, path>>
    /\ \/ /\ path # task.torrent \/ outcome = "cancelled"
          /\ Finish(task.op) /\ Returns
          /\ UNCHANGED <<verifyLoaded, tree>>
       \/ /\ path = task.torrent /\ outcome = "error"
          /\ FinishAndShow(task.op) /\ Notifies
          /\ UNCHANGED <<verifyLoaded, tree>>
       \/ /\ path = task.torrent /\ outcome = "ok"
          /\ verifyLoaded' = task.torrent
          /\ tree' = [files |-> task.torrent, results |-> None, phase |-> "pending"]
          /\ Finish(task.op) /\ Returns

VerifyCompleted(outcome) ==
    /\ verificationRunning' = FALSE
    /\ UNCHANGED <<path, verifyLoaded>>
    /\ \/ /\ outcome = "cancelled"
          /\ Marked("cancelled")
          /\ Finish(task.op) /\ Returns
       \/ /\ outcome = "error"
          /\ Marked("interrupted")
          /\ FinishAndShow(task.op) /\ Notifies
       \/ /\ outcome = "ok"
          /\ Marked("final")
          /\ Finish(task.op) /\ Notifies

OtherCompleted(outcome) ==
    /\ UNCHANGED <<verificationRunning, page>>
    /\ \/ /\ outcome \in {"ok", "cancelled"}
          /\ Finish(task.op) /\ Returns
       \/ /\ outcome = "ok"
          /\ Finish(task.op) /\ Notifies
       \/ /\ outcome = "error"
          /\ FinishAndShow(task.op) /\ Notifies
       \/ /\ outcome = "missing"
          /\ ShowTaskError({<<task.op, task.op>>})
       \/ /\ outcome = "silent"    \* a save without changes on the Modify page
          /\ silent' = silent \cup {task.op}
          /\ UNCHANGED <<ops, active, filed>>
          /\ Returns

Completed(outcome) ==
    \/ task.kind = "load" /\ LoadCompleted(outcome)
    \/ task.kind = "verify" /\ VerifyCompleted(outcome)
    \/ task.kind = "other" /\ OtherCompleted(outcome)

\* GuiTaskRunner::failed: the handler finishes the last operation, and
\* show_task_error finishes the one below it.
Failed ==
    LET below == active \ LastOf(active) IN
    /\ FinishActive(task.op, below, {<<o, task.op>> : o \in LastOf(active)})
    /\ verificationRunning' = FALSE
    /\ IF verificationRunning THEN Marked("interrupted") ELSE UNCHANGED tree
    /\ Open([kind |-> "note", ends |-> TRUE])
    /\ events' = Tail(events)
    /\ SetBusy(FALSE)
    /\ UNCHANGED <<window, runner, closeAfterOperation, path, verifyLoaded>>

CloseEvent(queue) ==
    /\ events' = queue
    /\ IF Running THEN Open([kind |-> "exit"]) /\ UNCHANGED window
                  ELSE window' = "closed" /\ UNCHANGED modals
    /\ UNCHANGED <<log, runner, flags, page>>

Dispatch ==
    /\ window = "open" /\ events # <<>>
    /\ LET event == Head(events) IN
         \/ event.kind = "snapshot" /\ ApplySnapshot
         \/ event.kind = "completed" /\ Completed(event.outcome)
         \/ event.kind = "failed" /\ Failed
         \/ event.kind = "close" /\ CloseEvent(Tail(events))

-----------------------------------------------------------------------------
\* Cancelling and closing.

CancelOperation ==
    IF Running THEN cancellationRequested' = TRUE /\ cancelled' = TRUE
               ELSE UNCHANGED <<cancellationRequested, cancelled>>

ClickCancel ==
    /\ AtWindow /\ busy
    /\ CancelOperation
    /\ UNCHANGED <<window, modals, events, log, task, posted, busy,
                   closeAfterOperation, verificationRunning, page>>

UserCloses == AtWindow /\ CloseEvent(events)

ConfirmExit ==
    /\ Answer("exit") /\ modals' = Popped
    /\ closeAfterOperation' = TRUE
    /\ CancelOperation
    /\ UNCHANGED <<window, events, log, task, posted, busy, verificationRunning, page>>

DeclineExit ==
    /\ Answer("exit") /\ modals' = Popped
    /\ UNCHANGED <<window, events, log, runner, flags, page>>

\* Dismissing a notification resumes its handler; if that was a completion or
\* the `failed` handler, the runner finishes.
DismissNote ==
    /\ Answer("note") /\ modals' = Popped
    /\ IF Top.ends THEN Finished(events)
                   ELSE UNCHANGED <<window, events, runner, busy,
                                    cancellationRequested, closeAfterOperation>>
    /\ UNCHANGED <<log, verificationRunning, page>>

-----------------------------------------------------------------------------
\* save_preset: it has two modal dialogs of its own and shares show_error.

AskPresetName ==
    /\ AtWindow /\ Len(ops) < MaxOps
    /\ Open([kind |-> "name"])
    /\ UNCHANGED <<window, events, log, runner, flags, page>>

ShowPresetError(cause) ==
    /\ FinishActive(cause, active, {})
    /\ modals' = Append(Popped, [kind |-> "note", ends |-> FALSE])

PresetNameGiven ==
    /\ Answer("name")
    /\ \/ modals' = Popped /\ UNCHANGED log       \* cancelled or empty
       \/ ShowPresetError(None)                    \* the form is invalid
       \/ /\ Begin("preset")
          /\ modals' = Append(Popped, [kind |-> "replace", op |-> Len(ops) + 1])
    /\ UNCHANGED <<window, events, runner, flags, page>>

PresetReplaceAnswered ==
    /\ Answer("replace")
    /\ \/ modals' = Popped /\ Finish(Top.op)       \* declined or saved
       \/ ShowPresetError(Top.op)                  \* add_preset or save failed
    /\ UNCHANGED <<window, events, runner, flags, page>>

-----------------------------------------------------------------------------
Next ==
    \/ LoadVerifyTorrent \/ StartVerify \/ StartOther \/ EditPath
    \/ Report \/ Execute \/ Dispatch
    \/ ClickCancel \/ UserCloses \/ ConfirmExit \/ DeclineExit \/ DismissNote
    \/ AskPresetName \/ PresetNameGiven \/ PresetReplaceAnswered

Spec == Init /\ [][Next]_vars

\* The worker runs on and the event loop delivers; the user owes nothing.
FairSpec == Spec /\ WF_vars(Execute) /\ WF_vars(Dispatch)

-----------------------------------------------------------------------------
Frames == [kind : {"exit", "name"}] \cup [kind : {"note"}, ends : BOOLEAN]
            \cup [kind : {"replace"}, op : 1..MaxOps]
Events == [kind : {"snapshot", "failed", "close"}]
            \cup [kind : {"completed"},
                  outcome : {"ok", "error", "cancelled", "missing", "silent"}]
Phases == {"none", "pending", "checking", "final", "cancelled", "interrupted"}

\* The types of the window, the runner and the page.
TypeOK ==
    /\ window \in {"open", "closed"}
    /\ modals \in Seq(Frames) /\ events \in Seq(Events)
    /\ ops \in Seq(TaskKinds \cup {"preset"}) /\ Len(ops) <= MaxOps
    /\ task \in {None} \cup Tasks /\ posted \in 0..MaxSnapshots
    /\ cancelled \in BOOLEAN /\ busy \in BOOLEAN /\ cancellationRequested \in BOOLEAN
    /\ closeAfterOperation \in BOOLEAN /\ verificationRunning \in BOOLEAN
    /\ path \in Torrents /\ verifyLoaded \in Torrents \cup {None}
    /\ tree \in [files : Torrents \cup {None}, results : Torrents \cup {None}, phase : Phases]

\* The types of the log.
LogTypes ==
    /\ active \subseteq 1..Len(ops)
    /\ silent \subseteq 1..Len(ops)
    /\ filed \subseteq (1..Len(ops)) \X ((1..Len(ops)) \cup {None})

\* Ignoring progress and cancelling the token go together: the window never
\* treats a running task as cancelled whose token nobody cancelled (a request
\* left over from the task before), nor the other way round.
RequestIsOfThisTask == Running => (cancellationRequested <=> cancelled)

\* Whatever way the last task ended, when none runs the buttons are enabled
\* again, no verification counts as running and no file is left "checking".
SettledWhenIdle ==
    ~Running => ~busy /\ ~verificationRunning /\ tree.phase # "checking"

\* The last event of a task, and a dialog with whose answer the task ends, come once for a
\* task whose work has returned, and one at a time.
Ends(event) == event.kind \in {"completed", "failed"}
EndNote == [kind |-> "note", ends |-> TRUE]
EndsOnce ==
    /\ \A i \in 1..Len(events) : Ends(events[i]) =>
         /\ Running /\ ~task.working
         /\ \A j \in 1..Len(events) : Ends(events[j]) => i = j
         /\ \A j \in 1..Len(modals) : modals[j] # EndNote
    /\ \A i \in 1..Len(modals) : modals[i] = EndNote =>
         /\ Running /\ ~task.working /\ ~verificationRunning
         /\ \A j \in 1..Len(modals) : modals[j] = EndNote => i = j

\* What counts as a running verification is one, of the torrent loaded, if any still is.
Verifying ==
    /\ verificationRunning => Running /\ task.kind = "verify"
    /\ Running /\ task.kind = "verify" => verifyLoaded \in {None, task.torrent}
    /\ tree.phase = "checking" => verificationRunning /\ tree.files # None

\* A torrent loaded, or results shown, on the Verify page belong to the path
\* typed there, although the path may be edited during a load or a verification.
ResultsOfShownTorrent ==
    /\ verifyLoaded \in {None, path} /\ tree.files = verifyLoaded
    /\ tree.results \in {None, tree.files}

\* When no task runs and its events are delivered, the window's flags and buttons are those
\* of an idle window.
TaskIInv == /\ TypeOK /\ EndsOnce /\ Verifying /\ SettledWhenIdle
            /\ RequestIsOfThisTask /\ ResultsOfShownTorrent

\* An entry finished by another operation than its own.
FiledExplained ==
    \A entry \in filed : LET o == entry[1]  c == entry[2] IN
      \/ o = c \/ o \in silent \/ c = None
      \/ "preset" \in {ops[o], ops[c]}

\* The dialogs of a preset lie beneath all others, and its operation is the last begun.
PresetBeneath ==
    \A i \in 1..Len(modals) : modals[i].kind \in {"name", "replace"} =>
      /\ i = 1
      /\ modals[i].kind = "replace" => modals[i].op = Len(ops) /\ ops[Len(ops)] = "preset"

\* An operation in active_operations_ was forgotten, or is the running task's, until its end
\* is shown, or the preset's that is asked about.
ActiveKnown ==
    /\ Running => task.op <= Len(ops) /\ \A o \in silent : o < task.op
    /\ \A o \in active :
         \/ o \in silent
         \/ Running /\ o = task.op /\ \A i \in 1..Len(modals) : modals[i] # EndNote
         \/ modals # <<>> /\ modals[1] = [kind |-> "replace", op |-> o]

\* The inductive invariant of the runner, the flags and the page, and of the log.
LogIInv == LogTypes /\ FiledExplained /\ PresetBeneath /\ ActiveKnown
IInv == TaskIInv /\ LogIInv

\* The log blames the right operation: an entry is finished by another
\* operation's error only where presets, which run beside a task, or an
\* operation that its own completion forgot are involved; and only forgotten
\* operations stay open when the window is at rest.
LogExplained ==
    /\ LogTypes /\ FiledExplained
    /\ ~Running /\ modals = <<>> => active \subseteq silent

\* Once the exit is confirmed while the task runs, the window closes, if the
\* user goes on answering dialogs: however the task ends and whatever dialog
\* its result opens.
ConfirmedExitOfRunningTaskCloses ==
    []<>(modals = <<>>) => ((Running /\ closeAfterOperation) ~> window = "closed")

\* "A task is still running. Cancel it and exit?" (gui/OperationCloseDialog.cpp):
\* confirming closes the window.
ConfirmedExitCloses ==
    []<>(modals = <<>>) => (closeAfterOperation ~> window = "closed")
=============================================================================
