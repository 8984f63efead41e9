------------------------------- MODULE GuiProofs -------------------------------
(***************************************************************************)
(* GuiSession keeps IInv for any number of operations, torrents, snapshots *)
(* and nested dialogs: requests, results and flags belong to the running   *)
(* task, and the log blames the right operation.                           *)
(***************************************************************************)
EXTENDS GuiSession, SequenceTheorems, TLAPS

\* What answering the innermost dialog leaves of the stack.
LEMMA PopElements ==
  ASSUME NEW S, NEW s \in Seq(S), s # <<>>
  PROVE  /\ SubSeq(s, 1, Len(s) - 1) \in Seq(S) /\ Len(s) \in Nat \ {0}
         /\ Len(SubSeq(s, 1, Len(s) - 1)) = Len(s) - 1
         /\ \A i \in 1..Len(s) - 1 : SubSeq(s, 1, Len(s) - 1)[i] = s[i]
<1> DEFINE n == Len(s) - 1
<1>1. Len(s) \in Nat \ {0} /\ n \in Nat /\ \A i \in 1..n : s[i] \in S
  OBVIOUS
<1>2. /\ SubSeq(s, 1, n) \in Seq(S) /\ Len(SubSeq(s, 1, n)) = IF 1 <= n THEN n - 1 + 1 ELSE 0
      /\ \A i \in 1..(n - 1 + 1) : SubSeq(s, 1, n)[i] = s[1 + i - 1]
  BY <1>1, SubSeqProperties
<1> HIDE DEF n
<1>3. Len(SubSeq(s, 1, n)) = n /\ \A i \in 1..n : SubSeq(s, 1, n)[i] = s[i]
  BY <1>1, <1>2
<1> QED BY <1>1, <1>2, <1>3 DEF n

\* While no task runs no end of one is on its way.
LEMMA IdleEnds ==
  ASSUME TaskIInv, ~Running
  PROVE  /\ \A i \in 1..Len(events) : ~Ends(events[i])
         /\ \A i \in 1..Len(modals) : modals[i] # EndNote
         /\ ~verificationRunning
  BY DEF TaskIInv, EndsOnce, SettledWhenIdle

\* Starting a task, on any page.
LEMMA StartIInv ==
  ASSUME TaskIInv, LoadVerifyTorrent \/ StartVerify \/ StartOther
  PROVE  TaskIInv'
<1> USE GuiAssumption DEF TaskIInv, log, runner, flags, page
<1>1. PICK kind \in TaskKinds :
        /\ ~Running /\ StartTask(kind) /\ UNCHANGED <<path, verifyLoaded>>
        /\ \/ kind = "verify" /\ verificationRunning' = TRUE /\ verifyLoaded # None
              /\ tree' = [tree EXCEPT !.results = None,
                                      !.phase = IF @ = "none" THEN "none" ELSE "pending"]
           \/ kind # "verify" /\ UNCHANGED <<verificationRunning, tree>>
  BY DEF LoadVerifyTorrent, StartVerify, StartOther, TaskKinds
<1>2. /\ task' = [op |-> Len(ops) + 1, kind |-> kind, torrent |-> path, working |-> TRUE]
      /\ task' \in Tasks /\ task' # None
  <2>1. Len(ops) + 1 \in 1..MaxOps /\ path \in Torrents
    BY <1>1 DEF StartTask, Begin, TypeOK
  <2>2. task' = [op |-> Len(ops) + 1, kind |-> kind, torrent |-> path, working |-> TRUE]
    BY <1>1 DEF StartTask
  <2>3. task' \in Tasks
    BY <2>1, <2>2 DEF Tasks
  <2> QED BY <2>2, <2>3
<1>3. ops' \in Seq(TaskKinds \cup {"preset"}) /\ Len(ops') <= MaxOps
  BY <1>1, AppendProperties DEF StartTask, Begin, TypeOK
<1>4. TypeOK'
  <2>1. tree' \in [files : Torrents \cup {None}, results : Torrents \cup {None}, phase : Phases]
    BY <1>1 DEF TypeOK, Phases
  <2>2. busy' = TRUE /\ cancellationRequested' = FALSE /\ cancelled' = FALSE /\ posted' = 0
    BY <1>1 DEF StartTask, SetBusy
  <2>3. verificationRunning' \in BOOLEAN
    BY <1>1 DEF TypeOK
  <2>4. busy' \in BOOLEAN /\ cancellationRequested' \in BOOLEAN /\ cancelled' \in BOOLEAN
    BY <2>2, Zenon
  <2>5. posted' \in 0..MaxSnapshots
    BY <2>2
  <2>6. UNCHANGED <<window, modals, events, closeAfterOperation, path, verifyLoaded>>
    BY <1>1 DEF StartTask
  <2> QED BY <1>2, <1>3, <2>1, <2>3, <2>4, <2>5, <2>6 DEF TypeOK
<1>5. EndsOnce'
  BY <1>1, IdleEnds DEF EndsOnce, StartTask, Ends, EndNote
<1>6. Verifying'
  <2>1. Running' /\ task'.kind = kind /\ task'.torrent = path
    BY <1>2 DEF Running
  <2>2. verifyLoaded \in {None, path} /\ ~verificationRunning /\ tree.phase # "checking"
    BY <1>1, IdleEnds DEF ResultsOfShownTorrent, SettledWhenIdle
  <2>3. tree'.phase # "checking"
    BY <1>1, <2>2 DEF TypeOK
  <2> QED BY <1>1, <2>1, <2>2, <2>3 DEF Verifying
<1>9. SettledWhenIdle'
  BY <1>2 DEF SettledWhenIdle, Running
<1>7. RequestIsOfThisTask'
  BY <1>1 DEF RequestIsOfThisTask, StartTask, SetBusy, TypeOK
<1>8. ResultsOfShownTorrent'
  BY <1>1 DEF ResultsOfShownTorrent, TypeOK
<1> QED BY <1>4, <1>5, <1>6, <1>7, <1>8, <1>9

\* The worker posts a snapshot, or its outcome and is done.
LEMMA WorkerIInv ==
  ASSUME TaskIInv, Report \/ Execute
  PROVE  TaskIInv'
<1> USE GuiAssumption DEF TaskIInv, log, flags, page
<1>1. PICK event \in Events :
        /\ events' = Append(events, event)
        /\ Running /\ task.working
        /\ \/ ~Ends(event) /\ UNCHANGED task
           \/ task' = [task EXCEPT !.working = FALSE]
        /\ posted' \in 0..MaxSnapshots
        /\ UNCHANGED <<window, modals, log, cancelled, flags, page>>
  <2>1. CASE Report
    <3>1. [kind |-> "snapshot"] \in Events /\ ~Ends([kind |-> "snapshot"])
      BY DEF Events, Ends
    <3>2. posted' \in 0..MaxSnapshots
      BY <2>1 DEF Report, TypeOK
    <3> QED BY <2>1, <3>1, <3>2 DEF Report, Post
  <2>2. CASE Execute
    <3>1. [kind |-> "failed"] \in Events
      BY DEF Events
    <3>2. \A o \in Outcomes : [kind |-> "completed", outcome |-> o] \in Events
      BY DEF Events, Outcomes
    <3>3. posted' \in 0..MaxSnapshots
      BY <2>2 DEF Execute, TypeOK
    <3> QED BY <2>2, <3>1, <3>2, <3>3 DEF Execute, Post
  <2> QED BY <2>1, <2>2
<1>2. /\ task \in Tasks /\ task' \in Tasks /\ task' # None
      /\ task'.kind = task.kind /\ task'.torrent = task.torrent
      /\ Ends(event) => ~task'.working
  <2>1. task \in Tasks
    BY <1>1 DEF TypeOK, Running
  <2>2. [task EXCEPT !.working = FALSE] \in Tasks
    BY <2>1 DEF Tasks
  <2> QED BY <1>1, <2>1, <2>2 DEF Tasks
<1>3. /\ \A i \in 1..Len(events) : ~Ends(events[i])
      /\ \A i \in 1..Len(modals) : modals[i] # EndNote
  BY <1>1 DEF EndsOnce
<1>4. /\ events' \in Seq(Events) /\ Len(events) \in Nat /\ Len(events') = Len(events) + 1
      /\ \A i \in 1..Len(events') : events'[i] = IF i <= Len(events) THEN events[i] ELSE event
  BY <1>1, AppendProperties DEF TypeOK
<1>5. TypeOK'
  BY <1>1, <1>2, <1>4 DEF TypeOK
<1>6. EndsOnce'
  BY <1>1, <1>2, <1>3, <1>4 DEF EndsOnce, Ends, EndNote, Running
<1>7. Verifying' /\ SettledWhenIdle'
  BY <1>1, <1>2 DEF Verifying, SettledWhenIdle, Running
<1>8. RequestIsOfThisTask' /\ ResultsOfShownTorrent'
  BY <1>1, <1>2 DEF RequestIsOfThisTask, ResultsOfShownTorrent, Running
<1> QED BY <1>5, <1>6, <1>7, <1>8

\* A dialog that ends no task is opened, or one is answered, and the request to cancel is made
\* or not: then nothing else changes but the page that is typed on and the log.
LEMMA WindowIInv ==
  ASSUME TaskIInv, NEW P \in Seq(Frames), modals' = P,
         \A i \in 1..Len(P) : P[i] = EndNote => i \in 1..Len(modals) /\ modals[i] = EndNote,
         window' \in {"open", "closed"}, UNCHANGED <<events, task, posted, busy, verificationRunning>>,
         \/ UNCHANGED <<cancelled, cancellationRequested>>
         \/ cancelled' = TRUE /\ cancellationRequested' = TRUE,
         closeAfterOperation' \in BOOLEAN,
         \/ UNCHANGED <<path, verifyLoaded, tree>>
         \/ path' \in Torrents /\ verifyLoaded' = None /\ tree' = NoTree,
         ops' \in Seq(TaskKinds \cup {"preset"}) /\ Len(ops') <= MaxOps
  PROVE  TaskIInv'
<1> USE DEF TaskIInv
<1>1. TypeOK'
  <2>1. tree' \in [files : Torrents \cup {None}, results : Torrents \cup {None}, phase : Phases]
    BY DEF TypeOK, NoTree, Phases
  <2>2. path' \in Torrents /\ verifyLoaded' \in Torrents \cup {None}
    BY DEF TypeOK
  <2>3. cancelled' \in BOOLEAN /\ cancellationRequested' \in BOOLEAN
    BY DEF TypeOK
  <2> QED BY <2>1, <2>2, <2>3 DEF TypeOK
<1>2. EndsOnce'
  BY DEF EndsOnce, Ends, EndNote, Running
<1>3. Verifying' /\ SettledWhenIdle'
  BY DEF Verifying, SettledWhenIdle, Running, NoTree
<1>4. RequestIsOfThisTask' /\ ResultsOfShownTorrent'
  BY DEF RequestIsOfThisTask, ResultsOfShownTorrent, Running, NoTree
<1> QED BY <1>1, <1>2, <1>3, <1>4

\* What the user does in the window and in its dialogs, but for those that end a task.
LEMMA UserIInv ==
  ASSUME TaskIInv,
         \/ EditPath \/ ClickCancel \/ UserCloses \/ ConfirmExit \/ DeclineExit
         \/ AskPresetName \/ PresetNameGiven \/ PresetReplaceAnswered
  PROVE  TaskIInv'
<1> USE DEF log, runner, flags, page
<1>0. /\ modals \in Seq(Frames) /\ Len(modals) \in Nat /\ closeAfterOperation \in BOOLEAN
      /\ window \in {"open", "closed"} /\ MaxOps \in Nat
      /\ ops \in Seq(TaskKinds \cup {"preset"}) /\ Len(ops) \in Nat /\ Len(ops) <= MaxOps
  BY GuiAssumption DEF TaskIInv, TypeOK
<1>1. \A frame \in Frames :
        /\ Append(modals, frame) \in Seq(Frames)
        /\ frame # EndNote => \A i \in 1..Len(Append(modals, frame)) :
             Append(modals, frame)[i] = EndNote => i \in 1..Len(modals) /\ modals[i] = EndNote
  BY <1>0, AppendProperties
<1>2. modals # <<>> =>
        /\ Popped \in Seq(Frames) /\ Len(Popped) \in Nat
        /\ \A i \in 1..Len(Popped) : i \in 1..Len(modals) /\ Popped[i] = modals[i]
  BY <1>0, PopElements DEF Popped
<1>3. modals # <<>> => \A frame \in Frames :
        /\ Append(Popped, frame) \in Seq(Frames)
        /\ frame # EndNote => \A i \in 1..Len(Append(Popped, frame)) :
             Append(Popped, frame)[i] = EndNote => i \in 1..Len(modals) /\ modals[i] = EndNote
  BY <1>2, AppendProperties
<1>4. /\ [kind |-> "exit"] \in Frames \ {EndNote} /\ [kind |-> "name"] \in Frames \ {EndNote}
      /\ [kind |-> "note", ends |-> FALSE] \in Frames \ {EndNote}
      /\ \A o \in 1..MaxOps : [kind |-> "replace", op |-> o] \in Frames \ {EndNote}
  BY DEF Frames, EndNote
<1>5. CASE EditPath
  BY <1>0, <1>5, WindowIInv DEF EditPath
<1>6. CASE ClickCancel
  BY <1>0, <1>6, WindowIInv DEF ClickCancel, CancelOperation
<1>7. CASE UserCloses
  BY <1>0, <1>1, <1>4, <1>7, WindowIInv DEF UserCloses, CloseEvent, Open
<1>8. CASE ConfirmExit
  BY <1>0, <1>2, <1>8, WindowIInv DEF ConfirmExit, Answer, CancelOperation
<1>9. CASE DeclineExit
  BY <1>0, <1>2, <1>9, WindowIInv DEF DeclineExit, Answer
<1>10. CASE AskPresetName
  BY <1>0, <1>1, <1>4, <1>10, WindowIInv DEF AskPresetName, Open
<1>11. CASE PresetNameGiven
  <2>1. CASE modals' = Popped /\ UNCHANGED log
    BY <1>0, <1>2, <1>11, <2>1, WindowIInv DEF PresetNameGiven, Answer
  <2>2. CASE ShowPresetError(None)
    BY <1>0, <1>3, <1>4, <1>11, <2>2, WindowIInv
       DEF PresetNameGiven, Answer, ShowPresetError, FinishActive
  <2>3. CASE Begin("preset") /\ modals' = Append(Popped, [kind |-> "replace", op |-> Len(ops) + 1])
    <3>1. Len(ops) + 1 \in 1..MaxOps
      BY <1>0, <2>3 DEF Begin
    <3>2. ops' \in Seq(TaskKinds \cup {"preset"}) /\ Len(ops') <= MaxOps
      BY <1>0, <2>3, AppendProperties DEF Begin
    <3> QED BY <1>0, <1>3, <1>4, <1>11, <2>3, <3>1, <3>2, WindowIInv DEF PresetNameGiven, Answer
  <2> QED BY <1>11, <2>1, <2>2, <2>3 DEF PresetNameGiven
<1>12. CASE PresetReplaceAnswered
  <2>1. CASE modals' = Popped /\ Finish(Top.op)
    BY <1>0, <1>2, <1>12, <2>1, WindowIInv DEF PresetReplaceAnswered, Answer, Finish
  <2>2. CASE ShowPresetError(Top.op)
    BY <1>0, <1>3, <1>4, <1>12, <2>2, WindowIInv
       DEF PresetReplaceAnswered, Answer, ShowPresetError, FinishActive
  <2> QED BY <1>12, <2>1, <2>2 DEF PresetReplaceAnswered
<1> QED BY <1>5, <1>6, <1>7, <1>8, <1>9, <1>10, <1>11, <1>12

\* The task is over for the runner: queue is what is delivered of the events, and neither it
\* nor the dialogs hold an end of the task; no verification counts as running any more.
LEMMA FinishedIInv ==
  ASSUME TaskIInv, Running, NEW queue \in Seq(Events), Finished(queue),
         \A i \in 1..Len(queue) : ~Ends(queue[i]),
         modals' \in Seq(Frames), \A i \in 1..Len(modals') : modals'[i] # EndNote,
         verificationRunning' = FALSE, tree'.phase # "checking", path' = path,
         verifyLoaded' \in Torrents \cup {None},
         tree' \in [files : Torrents \cup {None}, results : Torrents \cup {None}, phase : Phases],
         ResultsOfShownTorrent', UNCHANGED ops
  PROVE  TaskIInv'
<1> USE DEF TaskIInv
<1>1. task' = None /\ busy' = FALSE
  BY DEF Finished, SetBusy
<1>2. cancellationRequested' \in BOOLEAN /\ closeAfterOperation' \in BOOLEAN
      /\ busy' \in BOOLEAN /\ verificationRunning' \in BOOLEAN
  BY DEF Finished, SetBusy
<1>3. /\ events' \in Seq(Events)
      /\ \A i \in 1..Len(events') : ~Ends(events'[i])
  <2>1. [kind |-> "close"] \in Events /\ ~Ends([kind |-> "close"])
    BY DEF Events, Ends
  <2>2. Append(queue, [kind |-> "close"]) \in Seq(Events)
        /\ \A i \in 1..Len(Append(queue, [kind |-> "close"])) :
             ~Ends(Append(queue, [kind |-> "close"])[i])
    BY <2>1, AppendProperties
  <2> QED BY <2>2 DEF Finished
<1>4. TypeOK'
  BY <1>1, <1>2, <1>3 DEF TypeOK, Finished
<1>5. EndsOnce'
  BY <1>3 DEF EndsOnce, Ends
<1>6. Verifying' /\ SettledWhenIdle' /\ RequestIsOfThisTask'
  BY <1>1 DEF Verifying, SettledWhenIdle, RequestIsOfThisTask, Running
<1> QED BY <1>4, <1>5, <1>6

\* The last dialog of a task is answered.
LEMMA DismissIInv ==
  ASSUME TaskIInv, DismissNote
  PROVE  TaskIInv'
<1> USE DEF log, page
<1>0. /\ modals \in Seq(Frames) /\ modals # <<>> /\ Len(modals) \in Nat \ {0}
      /\ modals' = Popped /\ Popped \in Seq(Frames)
      /\ Len(Popped) = Len(modals) - 1 /\ \A i \in 1..Len(Popped) : Popped[i] = modals[i]
      /\ Top \in Frames /\ Top.kind = "note"
  <2>1. modals \in Seq(Frames) /\ modals # <<>>
    BY DEF TaskIInv, TypeOK, DismissNote, Answer
  <2>2. Popped \in Seq(Frames) /\ Len(modals) \in Nat \ {0}
        /\ Len(Popped) = Len(modals) - 1 /\ \A i \in 1..Len(Popped) : Popped[i] = modals[i]
    BY <2>1, PopElements DEF Popped
  <2>3. Top \in Frames /\ Top.kind = "note"
    BY <2>1, <2>2 DEF DismissNote, Answer, Top
  <2> QED BY <2>1, <2>2, <2>3 DEF DismissNote
<1>1. CASE Top.ends
  <2>1. Top = EndNote
    BY <1>0, <1>1 DEF Frames, EndNote
  <2>2. Running /\ ~task.working /\ ~verificationRunning /\ \A i \in 1..Len(Popped) : Popped[i] # EndNote
    BY <1>0, <2>1 DEF TaskIInv, EndsOnce, Top
  <2>3. \A i \in 1..Len(events) : ~Ends(events[i])
    BY <1>0, <2>1 DEF TaskIInv, EndsOnce, Top
  <2>4. tree.phase # "checking" /\ verificationRunning' = FALSE
    BY <2>2 DEF TaskIInv, Verifying, TypeOK, DismissNote
  <2>5. ResultsOfShownTorrent'
    BY DEF TaskIInv, ResultsOfShownTorrent, DismissNote
  <2>6. events \in Seq(Events) /\ verifyLoaded \in Torrents \cup {None}
        /\ tree \in [files : Torrents \cup {None}, results : Torrents \cup {None}, phase : Phases]
    BY DEF TaskIInv, TypeOK
  <2>7. Finished(events) /\ UNCHANGED <<ops, path, verifyLoaded, tree>>
    BY <1>1 DEF DismissNote
  <2> QED BY <1>0, <2>2, <2>3, <2>4, <2>5, <2>6, <2>7, FinishedIInv
<1>2. CASE ~Top.ends
  <2>1. /\ window \in {"open", "closed"} /\ closeAfterOperation \in BOOLEAN
        /\ ops \in Seq(TaskKinds \cup {"preset"}) /\ Len(ops) <= MaxOps
    BY DEF TaskIInv, TypeOK
  <2>2. UNCHANGED <<window, events, task, posted, cancelled, busy, cancellationRequested,
                    closeAfterOperation, verificationRunning, path, verifyLoaded, tree, ops>>
    BY <1>2 DEF DismissNote, runner
  <2> QED BY <1>0, <2>1, <2>2, WindowIInv
<1> QED BY <1>1, <1>2

\* What is left of the queue when its first event is delivered.
LEMMA DeliveredEvents ==
  ASSUME TaskIInv, events # <<>>
  PROVE  /\ Head(events) \in Events /\ Head(events) = events[1]
         /\ Tail(events) \in Seq(Events) /\ Len(events) \in Nat \ {0}
         /\ Len(Tail(events)) = Len(events) - 1
         /\ \A i \in 1..Len(Tail(events)) : Tail(events)[i] = events[i + 1]
         /\ Ends(Head(events)) =>
              /\ Running /\ ~task.working
              /\ \A i \in 1..Len(Tail(events)) : ~Ends(Tail(events)[i])
              /\ \A i \in 1..Len(modals) : modals[i] # EndNote
<1>1. /\ events \in Seq(Events) /\ Head(events) = events[1] /\ Len(events) \in Nat \ {0}
  BY DEF TaskIInv, TypeOK
<1>2. /\ Head(events) \in Events /\ Tail(events) \in Seq(Events)
      /\ Len(Tail(events)) = Len(events) - 1
      /\ \A i \in 1..Len(Tail(events)) : Tail(events)[i] = events[i + 1]
  BY <1>1, HeadTailProperties
<1>3. ASSUME Ends(Head(events))
      PROVE  /\ Running /\ ~task.working
             /\ \A i \in 1..Len(Tail(events)) : ~Ends(Tail(events)[i])
             /\ \A i \in 1..Len(modals) : modals[i] # EndNote
  <2>1. 1 \in 1..Len(events) /\ Ends(events[1])
    BY <1>1, <1>3
  <2>2. \A i \in 1..Len(Tail(events)) : i + 1 \in 1..Len(events) /\ i + 1 # 1
    BY <1>1, <1>2
  <2> QED BY <1>2, <2>1, <2>2 DEF TaskIInv, EndsOnce
<1> QED BY <1>1, <1>2, <1>3

\* The task's outcome opens a dialog with whose answer the task will end.
LEMMA NotifiedIInv ==
  ASSUME TaskIInv, events # <<>>, Ends(Head(events)), Open(EndNote), events' = Tail(events),
         UNCHANGED <<window, task, posted, cancelled, cancellationRequested, closeAfterOperation>>,
         busy' \in BOOLEAN, verificationRunning' = FALSE, tree'.phase # "checking",
         UNCHANGED <<path, verifyLoaded, ops>>,
         tree' \in [files : Torrents \cup {None}, results : Torrents \cup {None}, phase : Phases],
         ResultsOfShownTorrent'
  PROVE  TaskIInv'
<1>1. /\ Running /\ ~task.working /\ Tail(events) \in Seq(Events)
      /\ \A i \in 1..Len(Tail(events)) : ~Ends(Tail(events)[i])
      /\ \A i \in 1..Len(modals) : modals[i] # EndNote
  BY DeliveredEvents
<1>2. /\ modals' \in Seq(Frames) /\ Len(modals) \in Nat /\ Len(modals') = Len(modals) + 1
      /\ \A i \in 1..Len(modals') : modals'[i] = EndNote => i = Len(modals) + 1
  <2>1. EndNote \in Frames /\ modals \in Seq(Frames)
    BY DEF EndNote, Frames, TaskIInv, TypeOK
  <2> QED BY <1>1, <2>1, AppendProperties DEF Open
<1>3. TypeOK'
  <2>1. verificationRunning' \in BOOLEAN
    BY Zenon
  <2> QED BY <1>1, <1>2, <2>1 DEF TaskIInv, TypeOK
<1>4. EndsOnce'
  BY <1>1, <1>2 DEF EndsOnce, Ends, Running
<1>5. Verifying' /\ SettledWhenIdle' /\ RequestIsOfThisTask'
  BY <1>1 DEF TaskIInv, Verifying, SettledWhenIdle, RequestIsOfThisTask, Running
<1> QED BY <1>3, <1>4, <1>5 DEF TaskIInv

\* The task's outcome ends it at once.
LEMMA ReturnedIInv ==
  ASSUME TaskIInv, events # <<>>, Ends(Head(events)), Returns,
         verificationRunning' = FALSE, tree'.phase # "checking", UNCHANGED <<path, ops>>,
         verifyLoaded' \in Torrents \cup {None},
         tree' \in [files : Torrents \cup {None}, results : Torrents \cup {None}, phase : Phases],
         ResultsOfShownTorrent'
  PROVE  TaskIInv'
<1>1. /\ Running /\ Tail(events) \in Seq(Events)
      /\ \A i \in 1..Len(Tail(events)) : ~Ends(Tail(events)[i])
      /\ \A i \in 1..Len(modals) : modals[i] # EndNote
  BY DeliveredEvents
<1>2. Finished(Tail(events)) /\ modals' = modals /\ modals \in Seq(Frames)
  BY DEF Returns, TaskIInv, TypeOK
<1> QED BY <1>1, <1>2, FinishedIInv

\* Marking the files of a verification: they are those of its torrent.
LEMMA MarkedTree ==
  ASSUME TaskIInv, Running, task.kind = "verify", NEW phase \in Phases, Marked(phase),
         UNCHANGED <<path, verifyLoaded>>
  PROVE  /\ tree' \in [files : Torrents \cup {None}, results : Torrents \cup {None}, phase : Phases]
         /\ ResultsOfShownTorrent'
         /\ tree'.files = tree.files
         /\ phase # "checking" => tree'.phase # "checking"
         /\ tree'.phase = "checking" => tree.files # None
<1>1. /\ task.torrent \in Torrents /\ verifyLoaded \in {None, task.torrent}
      /\ tree.files = verifyLoaded /\ tree.results \in {None, tree.files}
      /\ verifyLoaded \in {None, path}
      /\ tree \in [files : Torrents \cup {None}, results : Torrents \cup {None}, phase : Phases]
      /\ tree.phase = "checking" => tree.files # None
  BY DEF TaskIInv, TypeOK, Tasks, Running, Verifying, ResultsOfShownTorrent
<1>2. CASE tree.files = None /\ tree' = tree
  BY <1>1, <1>2 DEF ResultsOfShownTorrent
<1>3. CASE tree.files # None /\ tree' = [tree EXCEPT !.results = task.torrent, !.phase = phase]
  BY <1>1, <1>3 DEF ResultsOfShownTorrent
<1> QED BY <1>2, <1>3 DEF Marked

\* A task that is no verification leaves none that counts as running, or as checking a file.
LEMMA NotVerifying ==
  ASSUME TaskIInv, Running, task.kind # "verify"
  PROVE  verificationRunning = FALSE /\ tree.phase # "checking"
  BY DEF TaskIInv, Verifying, TypeOK

\* A handler of the end of a load.
LEMMA LoadCompletedIInv ==
  ASSUME TaskIInv, events # <<>>, Ends(Head(events)), task.kind = "load", NEW outcome,
         LoadCompleted(outcome)
  PROVE  TaskIInv'
<1>1. Running /\ task.torrent \in Torrents /\ verificationRunning = FALSE /\ tree.phase # "checking"
  BY DeliveredEvents, NotVerifying DEF TaskIInv, TypeOK, Tasks, Running
<1>2. verificationRunning' = FALSE /\ UNCHANGED path
  BY <1>1 DEF LoadCompleted
<1>3. /\ verifyLoaded \in Torrents \cup {None} /\ busy \in BOOLEAN
      /\ tree \in [files : Torrents \cup {None}, results : Torrents \cup {None}, phase : Phases]
  BY DEF TaskIInv, TypeOK
<1>4. CASE Finish(task.op) /\ Returns /\ UNCHANGED <<verifyLoaded, tree>>
  <2>1. ResultsOfShownTorrent'
    BY <1>2, <1>4 DEF TaskIInv, ResultsOfShownTorrent
  <2> QED BY <1>1, <1>2, <1>3, <1>4, <2>1, ReturnedIInv DEF Finish
<1>5. CASE FinishAndShow(task.op) /\ Notifies /\ UNCHANGED <<verifyLoaded, tree>>
  <2>1. ResultsOfShownTorrent'
    BY <1>2, <1>5 DEF TaskIInv, ResultsOfShownTorrent
  <2>2. UNCHANGED ops
    BY <1>5 DEF FinishAndShow, FinishActive
  <2> QED BY <1>1, <1>2, <1>3, <1>5, <2>1, <2>2, NotifiedIInv DEF Notifies, EndNote, runner
<1>6. CASE /\ path = task.torrent /\ verifyLoaded' = task.torrent
           /\ tree' = [files |-> task.torrent, results |-> None, phase |-> "pending"]
           /\ Finish(task.op) /\ Returns
  <2>1. /\ ResultsOfShownTorrent' /\ tree'.phase # "checking"
        /\ tree' \in [files : Torrents \cup {None}, results : Torrents \cup {None}, phase : Phases]
    BY <1>1, <1>2, <1>6 DEF ResultsOfShownTorrent, Phases
  <2> QED BY <1>1, <1>2, <1>6, <2>1, ReturnedIInv DEF Finish
<1> QED BY <1>4, <1>5, <1>6 DEF LoadCompleted

\* A handler of the end of a verification.
LEMMA VerifyCompletedIInv ==
  ASSUME TaskIInv, events # <<>>, Ends(Head(events)), task.kind = "verify", NEW outcome,
         VerifyCompleted(outcome)
  PROVE  TaskIInv'
<1>1. Running
  BY DeliveredEvents
<1>2. verificationRunning' = FALSE /\ UNCHANGED <<path, verifyLoaded>>
  BY DEF VerifyCompleted
<1>3. verifyLoaded \in Torrents \cup {None} /\ busy \in BOOLEAN
  BY DEF TaskIInv, TypeOK
<1>4. PICK phase \in {"cancelled", "interrupted", "final"} :
        /\ Marked(phase)
        /\ \/ Finish(task.op) /\ Returns
           \/ (FinishAndShow(task.op) \/ Finish(task.op)) /\ Notifies
  BY DEF VerifyCompleted
<1>5. phase \in Phases /\ phase # "checking"
  BY DEF Phases
<1>6. /\ tree' \in [files : Torrents \cup {None}, results : Torrents \cup {None}, phase : Phases]
      /\ ResultsOfShownTorrent' /\ tree'.phase # "checking"
  BY <1>1, <1>2, <1>4, <1>5, MarkedTree
<1>7. UNCHANGED ops
  BY <1>4 DEF Finish, FinishAndShow, FinishActive
<1>8. CASE Returns
  BY <1>2, <1>3, <1>6, <1>7, <1>8, ReturnedIInv
<1>9. CASE Notifies
  BY <1>2, <1>3, <1>6, <1>7, <1>9, NotifiedIInv DEF Notifies, EndNote, runner
<1> QED BY <1>4, <1>8, <1>9

\* set_busy(false) keeps a request to cancel, and the page is left alone but for the marks.
LEMMA UnbusyFacts ==
  ASSUME TaskIInv, SetBusy(FALSE)
  PROVE  UNCHANGED cancellationRequested /\ busy' \in BOOLEAN
<1>1. cancellationRequested \in BOOLEAN
  BY DEF TaskIInv, TypeOK
<1>2. busy' = FALSE /\ cancellationRequested' = (cancellationRequested /\ ~FALSE)
  BY DEF SetBusy
<1>3. cancellationRequested' = cancellationRequested
  BY <1>1, <1>2
<1>4. busy' \in BOOLEAN
  BY <1>2
<1> QED BY <1>3, <1>4

\* A handler of the end of a task of another page.
LEMMA OtherCompletedIInv ==
  ASSUME TaskIInv, events # <<>>, Ends(Head(events)), task.kind = "other", NEW outcome,
         OtherCompleted(outcome)
  PROVE  TaskIInv'
<1>1. Running /\ verificationRunning = FALSE /\ tree.phase # "checking"
  BY DeliveredEvents, NotVerifying
<1>2. verificationRunning' = FALSE /\ UNCHANGED <<path, verifyLoaded, tree>>
  BY <1>1 DEF OtherCompleted, page
<1>3. /\ verifyLoaded \in Torrents \cup {None} /\ busy \in BOOLEAN
      /\ tree \in [files : Torrents \cup {None}, results : Torrents \cup {None}, phase : Phases]
  BY DEF TaskIInv, TypeOK
<1>4. ResultsOfShownTorrent'
  BY <1>2 DEF TaskIInv, ResultsOfShownTorrent
<1>5. UNCHANGED ops
  BY DEF OtherCompleted, Finish, FinishAndShow, ShowTaskError, FinishActive
<1>6. CASE Returns
  BY <1>1, <1>2, <1>3, <1>4, <1>5, <1>6, ReturnedIInv
<1>7. CASE Notifies
  BY <1>1, <1>2, <1>3, <1>4, <1>5, <1>7, NotifiedIInv DEF Notifies, EndNote, runner
<1>8. CASE ShowTaskError({<<task.op, task.op>>})
  <2>1. SetBusy(FALSE) /\ Open(EndNote) /\ events' = Tail(events)
        /\ UNCHANGED <<window, task, posted, cancelled, closeAfterOperation>>
    BY <1>8 DEF ShowTaskError, EndNote, runner
  <2> QED BY <1>1, <1>2, <1>3, <1>4, <1>5, <2>1, UnbusyFacts, NotifiedIInv
<1> QED BY <1>6, <1>7, <1>8 DEF OtherCompleted

\* The handler of a task that threw.
LEMMA FailedIInv ==
  ASSUME TaskIInv, events # <<>>, Ends(Head(events)), Failed
  PROVE  TaskIInv'
<1>1. Running
  BY DeliveredEvents
<1>2. /\ SetBusy(FALSE) /\ Open(EndNote) /\ events' = Tail(events)
      /\ UNCHANGED <<window, task, posted, cancelled, closeAfterOperation, path, verifyLoaded, ops>>
      /\ verificationRunning' = FALSE
      /\ IF verificationRunning THEN Marked("interrupted") ELSE UNCHANGED tree
  BY DEF Failed, FinishActive, EndNote, runner
<1>3. /\ tree' \in [files : Torrents \cup {None}, results : Torrents \cup {None}, phase : Phases]
      /\ ResultsOfShownTorrent' /\ tree'.phase # "checking"
  <2>1. CASE verificationRunning
    <3>1. task.kind = "verify" /\ Marked("interrupted") /\ "interrupted" \in Phases
      BY <1>2, <2>1 DEF TaskIInv, Verifying, Phases
    <3> QED BY <1>1, <1>2, <3>1, MarkedTree
  <2>2. CASE ~verificationRunning
    BY <1>2, <2>2 DEF TaskIInv, TypeOK, Verifying, ResultsOfShownTorrent
  <2> QED BY <2>1, <2>2
<1> QED BY <1>1, <1>2, <1>3, UnbusyFacts, NotifiedIInv

\* A snapshot, or the close that was asked for while a task ran: no task ends.
LEMMA PassedOnIInv ==
  ASSUME TaskIInv, events # <<>>, ~Ends(Head(events)), ApplySnapshot \/ CloseEvent(Tail(events))
  PROVE  TaskIInv'
<1>1. /\ events' = Tail(events) /\ Tail(events) \in Seq(Events)
      /\ Len(Tail(events)) \in Nat /\ Len(events) = Len(Tail(events)) + 1
      /\ \A i \in 1..Len(Tail(events)) : Tail(events)[i] = events[i + 1]
  BY DeliveredEvents DEF ApplySnapshot, CloseEvent
<1>2. UNCHANGED <<task, posted, cancelled, busy, cancellationRequested, closeAfterOperation,
                  verificationRunning, path, verifyLoaded, ops>>
  BY DEF ApplySnapshot, CloseEvent, log, runner, flags, page
<1>3. /\ modals' \in Seq(Frames) /\ window' \in {"open", "closed"}
      /\ \/ UNCHANGED modals
         \/ /\ Len(modals) \in Nat /\ Len(modals') = Len(modals) + 1
            /\ \A i \in 1..Len(modals) : modals'[i] = modals[i]
            /\ modals'[Len(modals) + 1] # EndNote
  <2>1. modals \in Seq(Frames) /\ window \in {"open", "closed"}
    BY DEF TaskIInv, TypeOK
  <2>2. [kind |-> "exit"] \in Frames /\ [kind |-> "exit"] # EndNote
    BY DEF Frames, EndNote
  <2>3. CASE UNCHANGED <<window, modals>>
    BY <2>1, <2>3
  <2>4. CASE modals' = Append(modals, [kind |-> "exit"]) /\ UNCHANGED window
    BY <2>1, <2>2, <2>4, AppendProperties
  <2>5. CASE window' = "closed" /\ UNCHANGED modals
    BY <2>1, <2>5
  <2> QED BY <2>3, <2>4, <2>5 DEF ApplySnapshot, CloseEvent, Open
<1>4. /\ tree' \in [files : Torrents \cup {None}, results : Torrents \cup {None}, phase : Phases]
      /\ ResultsOfShownTorrent'
      /\ tree'.phase = "checking" => verificationRunning /\ tree'.files # None
  <2>1. CASE verificationRunning /\ Marked("checking")
    <3>1. Running /\ task.kind = "verify" /\ "checking" \in Phases
      BY <2>1 DEF TaskIInv, Verifying, Phases
    <3> QED BY <1>2, <2>1, <3>1, MarkedTree
  <2>2. CASE UNCHANGED tree
    BY <1>2, <2>2 DEF TaskIInv, TypeOK, Verifying, ResultsOfShownTorrent
  <2> QED BY <2>1, <2>2 DEF ApplySnapshot, CloseEvent, page
<1>5. TypeOK'
  BY <1>1, <1>2, <1>3, <1>4 DEF TaskIInv, TypeOK
<1>6. EndsOnce'
  <2>1. \A i \in 1..Len(Tail(events)) : i + 1 \in 1..Len(events) /\ i + 1 # 1
    BY <1>1
  <2>2. \A i \in 1..Len(events') : Ends(events'[i]) =>
          /\ Running' /\ ~task'.working
          /\ \A j \in 1..Len(events') : Ends(events'[j]) => i = j
          /\ \A j \in 1..Len(modals') : modals'[j] # EndNote
    <3> SUFFICES ASSUME NEW i \in 1..Len(events'), Ends(events'[i])
                 PROVE  /\ Running' /\ ~task'.working
                        /\ \A j \in 1..Len(events') : Ends(events'[j]) => i = j
                        /\ \A j \in 1..Len(modals') : modals'[j] # EndNote
      OBVIOUS
    <3>1. i + 1 \in 1..Len(events) /\ Ends(events[i + 1])
      BY <1>1, <2>1
    <3>2. Running /\ ~task.working /\ \A j \in 1..Len(modals) : modals[j] # EndNote
      BY <3>1 DEF TaskIInv, EndsOnce
    <3>3. \A j \in 1..Len(events) : Ends(events[j]) => i + 1 = j
      BY <3>1 DEF TaskIInv, EndsOnce
    <3>4. \A j \in 1..Len(events') : Ends(events'[j]) => i = j
      BY <1>1, <2>1, <3>3
    <3>5. \A j \in 1..Len(modals') : modals'[j] # EndNote
      BY <1>3, <3>2
    <3> QED BY <1>2, <3>2, <3>4, <3>5 DEF Running
  <2>3. \A i \in 1..Len(modals') : modals'[i] = EndNote =>
          /\ Running' /\ ~task'.working /\ ~verificationRunning'
          /\ \A j \in 1..Len(modals') : modals'[j] = EndNote => i = j
    BY <1>2, <1>3 DEF TaskIInv, EndsOnce, Running
  <2> QED BY <2>2, <2>3 DEF EndsOnce, Ends, EndNote
<1>7. Verifying' /\ SettledWhenIdle' /\ RequestIsOfThisTask'
  BY <1>2, <1>4 DEF TaskIInv, Verifying, SettledWhenIdle, RequestIsOfThisTask, Running
<1> QED BY <1>4, <1>5, <1>6, <1>7 DEF TaskIInv

\* Whatever event the loop delivers.
LEMMA DispatchIInv ==
  ASSUME TaskIInv, Dispatch
  PROVE  TaskIInv'
<1>1. events # <<>>
  BY DEF Dispatch
<1>2. CASE Head(events).kind = "snapshot" /\ ApplySnapshot
  BY <1>1, <1>2, PassedOnIInv DEF Ends
<1>3. CASE Head(events).kind = "completed" /\ Completed(Head(events).outcome)
  BY <1>1, <1>3, LoadCompletedIInv, VerifyCompletedIInv, OtherCompletedIInv DEF Completed, Ends
<1>4. CASE Head(events).kind = "failed" /\ Failed
  BY <1>1, <1>4, FailedIInv DEF Ends
<1>5. CASE Head(events).kind = "close" /\ CloseEvent(Tail(events))
  BY <1>1, <1>5, PassedOnIInv DEF Ends
<1> QED BY <1>2, <1>3, <1>4, <1>5 DEF Dispatch

\* The window opens with nothing running and nothing loaded.
LEMMA InitTaskIInv == Init => TaskIInv
<1> SUFFICES ASSUME Init PROVE TaskIInv
  OBVIOUS
<1>1. TypeOK
  <2>1. tree \in [files : Torrents \cup {None}, results : Torrents \cup {None}, phase : Phases]
    BY DEF Init, NoTree, Phases
  <2>2. /\ modals \in Seq(Frames) /\ events \in Seq(Events)
        /\ ops \in Seq(TaskKinds \cup {"preset"}) /\ Len(ops) <= MaxOps
    BY GuiAssumption DEF Init
  <2>3. /\ cancelled \in BOOLEAN /\ busy \in BOOLEAN /\ cancellationRequested \in BOOLEAN
        /\ closeAfterOperation \in BOOLEAN /\ verificationRunning \in BOOLEAN
    BY Zenon DEF Init
  <2>4. /\ window \in {"open", "closed"} /\ task \in {None} \cup Tasks
        /\ posted \in 0..MaxSnapshots /\ path \in Torrents
        /\ verifyLoaded \in Torrents \cup {None}
    BY GuiAssumption DEF Init
  <2> QED BY <2>1, <2>2, <2>3, <2>4 DEF TypeOK
<1>2. EndsOnce /\ Verifying /\ SettledWhenIdle /\ RequestIsOfThisTask /\ ResultsOfShownTorrent
  BY DEF Init, EndsOnce, Verifying, SettledWhenIdle, RequestIsOfThisTask, ResultsOfShownTorrent,
         Running, NoTree
<1> QED BY <1>1, <1>2 DEF TaskIInv

\* Every step keeps the invariant.
LEMMA NextTaskIInv == TaskIInv /\ [Next]_vars => TaskIInv'
<1> SUFFICES ASSUME TaskIInv, [Next]_vars PROVE TaskIInv'
  OBVIOUS
<1>1. CASE LoadVerifyTorrent \/ StartVerify \/ StartOther
  BY <1>1, StartIInv
<1>2. CASE Report \/ Execute
  BY <1>2, WorkerIInv
<1>3. CASE Dispatch
  BY <1>3, DispatchIInv
<1>4. CASE DismissNote
  BY <1>4, DismissIInv
<1>5. CASE \/ EditPath \/ ClickCancel \/ UserCloses \/ ConfirmExit \/ DeclineExit
           \/ AskPresetName \/ PresetNameGiven \/ PresetReplaceAnswered
  BY <1>5, UserIInv
<1>6. CASE UNCHANGED vars
  BY <1>6 DEF vars, log, runner, flags, page, TaskIInv, TypeOK, EndsOnce, Ends, EndNote, Verifying,
              SettledWhenIdle, RequestIsOfThisTask, ResultsOfShownTorrent, Running
<1> QED BY <1>1, <1>2, <1>3, <1>4, <1>5, <1>6 DEF Next

-----------------------------------------------------------------------------
(* The log of operations *)

\* Whether `c` may be said to have finished operation `o`.
Explained(o, c) == o = c \/ o \in silent \/ c = None \/ "preset" \in {ops[o], ops[c]}
NoEndNote == \A i \in 1..Len(modals) : modals[i] # EndNote
Asked(o) == modals # <<>> /\ modals[1] = [kind |-> "replace", op |-> o]

LEMMA LogFacts ==
  ASSUME IInv
  PROVE  /\ modals \in Seq(Frames) /\ Len(modals) \in Nat
         /\ ops \in Seq(TaskKinds \cup {"preset"}) /\ Len(ops) \in Nat
         /\ active \subseteq 1..Len(ops) /\ silent \subseteq 1..Len(ops)
         /\ Running => task.op \in 1..Len(ops) /\ \A o \in silent : o < task.op
         /\ \A o \in active : \/ o \in silent
                              \/ Running /\ o = task.op /\ NoEndNote
                              \/ Asked(o)
         /\ \A o : Asked(o) => o = Len(ops) /\ ops[o] = "preset" /\ o \in 1..Len(ops)
<1>1. /\ modals \in Seq(Frames) /\ ops \in Seq(TaskKinds \cup {"preset"})
      /\ task \in {None} \cup Tasks
  BY DEF IInv, TaskIInv, TypeOK
<1>2. Len(modals) \in Nat /\ Len(ops) \in Nat
  BY <1>1
<1>3. Running => task.op \in 1..Len(ops) /\ \A o \in silent : o < task.op
  <2>1. Running => task.op \in 1..MaxOps
    BY <1>1 DEF Running, Tasks
  <2> QED BY <1>2, <2>1, GuiAssumption DEF IInv, LogIInv, ActiveKnown
<1>4. ASSUME NEW o, Asked(o)
      PROVE  o = Len(ops) /\ ops[o] = "preset" /\ o \in 1..Len(ops)
  <2>1. 1 \in 1..Len(modals) /\ modals[1] \in Frames
    BY <1>1, <1>2, <1>4 DEF Asked
  <2>2. modals[1].kind = "replace" /\ modals[1].op = o
    BY <1>4 DEF Asked
  <2>3. o \in 1..MaxOps
    BY <2>1, <2>2 DEF Frames
  <2>4. o = Len(ops) /\ ops[Len(ops)] = "preset"
    BY <2>1, <2>2 DEF IInv, LogIInv, PresetBeneath
  <2> QED BY <1>2, <2>3, <2>4, GuiAssumption
<1> QED BY <1>1, <1>2, <1>3, <1>4 DEF IInv, LogIInv, LogTypes, ActiveKnown, NoEndNote, Asked

\* A step that begins no operation: it may finish some, which must be explained.
LEMMA LogStep ==
  ASSUME IInv, UNCHANGED ops, active' \subseteq active,
         \/ UNCHANGED silent
         \/ Running /\ ~Running' /\ silent' = silent \cup {task.op},
         Running' => Running /\ task'.op = task.op,
         \A entry \in filed' : \/ entry \in filed
                               \/ \E o \in 1..Len(ops), c \in (1..Len(ops)) \cup {None} :
                                    entry = <<o, c>> /\ Explained(o, c),
         PresetBeneath',
         \A o \in active' : \/ o \in silent'
                            \/ Running' /\ o = task.op /\ NoEndNote'
                            \/ Asked(o)'
  PROVE  LogIInv'
<1>1. /\ active \subseteq 1..Len(ops) /\ silent \subseteq 1..Len(ops)
      /\ Running => task.op \in 1..Len(ops) /\ \A o \in silent : o < task.op
      /\ Len(ops) \in Nat
  BY LogFacts
<1>2. silent \subseteq silent' /\ silent' \subseteq 1..Len(ops)
  BY <1>1
<1>3. /\ filed \subseteq (1..Len(ops)) \X ((1..Len(ops)) \cup {None})
      /\ \A entry \in filed : Explained(entry[1], entry[2])
  BY DEF IInv, LogIInv, LogTypes, FiledExplained, Explained
<1>4. ASSUME NEW entry \in filed'
      PROVE  /\ entry \in (1..Len(ops)) \X ((1..Len(ops)) \cup {None})
             /\ Explained(entry[1], entry[2])
  BY <1>3, <1>4
<1>5. LogTypes'
  BY <1>1, <1>2, <1>4 DEF LogTypes
<1>6. FiledExplained'
  BY <1>2, <1>4 DEF FiledExplained, Explained
<1>7. ASSUME Running' PROVE task'.op <= Len(ops') /\ \A o \in silent' : o < task'.op
  <2>1. Running /\ task'.op = task.op /\ silent' = silent
    BY <1>7
  <2> QED BY <1>1, <2>1
<1>8. ActiveKnown'
  BY <1>7 DEF ActiveKnown, NoEndNote, Asked
<1> QED BY <1>5, <1>6, <1>8 DEF LogIInv

\* A step that leaves the log alone.
LEMMA QuietLog ==
  ASSUME IInv, UNCHANGED <<ops, active, silent, filed>>, PresetBeneath',
         Running' => Running /\ task'.op = task.op,
         Running /\ NoEndNote => Running' /\ NoEndNote',
         \A o \in active : Asked(o) => Asked(o)'
  PROVE  LogIInv'
<1>1. \A o \in active : o \in silent \/ (Running /\ o = task.op /\ NoEndNote) \/ Asked(o)
  BY LogFacts
<1> QED BY <1>1, LogStep

\* What is opened on top of the dialogs, or in place of the innermost.
LEMMA OpenedFrames ==
  ASSUME IInv, NEW frame \in Frames, frame.kind \notin {"name", "replace"}, Open(frame),
         UNCHANGED ops
  PROVE  /\ PresetBeneath'
         /\ \A o : Asked(o) => Asked(o)'
         /\ frame # EndNote /\ NoEndNote => NoEndNote'
<1>1. /\ modals \in Seq(Frames) /\ Len(modals) \in Nat /\ Len(modals') = Len(modals) + 1
      /\ modals'[Len(modals) + 1] = frame
      /\ \A i \in 1..Len(modals) : modals'[i] = modals[i]
      /\ modals # <<>> => 1 \in 1..Len(modals) /\ modals' # <<>>
  BY LogFacts, AppendProperties DEF Open
<1>2. PresetBeneath'
  BY <1>1 DEF IInv, LogIInv, PresetBeneath
<1>3. \A o : Asked(o) => Asked(o)'
  BY <1>1 DEF Asked
<1>4. ASSUME frame # EndNote, NoEndNote PROVE NoEndNote'
  <2>1. ASSUME NEW i \in 1..Len(modals') PROVE modals'[i] # EndNote
    <3>1. i \in 1..Len(modals) \/ i = Len(modals) + 1
      BY <1>1
    <3> QED BY <1>1, <1>4, <3>1 DEF NoEndNote
  <2> QED BY <2>1 DEF NoEndNote, EndNote
<1> QED BY <1>2, <1>3, <1>4
LEMMA PoppedFrames ==
  ASSUME IInv, modals # <<>>
  PROVE  /\ Popped \in Seq(Frames) /\ Len(modals) \in Nat \ {0}
         /\ Len(Popped) = Len(modals) - 1
         /\ \A i \in 1..Len(Popped) : Popped[i] = modals[i]
         /\ Top \in Frames
         /\ Top.kind \in {"name", "replace"} => Len(modals) = 1 /\ modals[1] = Top
         /\ Top.kind = "replace" =>
              Asked(Top.op) /\ Top.op \in 1..Len(ops) /\ Top.op = Len(ops) /\ ops[Top.op] = "preset"
<1>1. /\ Popped \in Seq(Frames) /\ Len(modals) \in Nat \ {0}
      /\ Len(Popped) = Len(modals) - 1
      /\ \A i \in 1..Len(Popped) : Popped[i] = modals[i]
      /\ modals \in Seq(Frames)
  BY LogFacts, PopElements DEF Popped
<1>2. Len(modals) \in 1..Len(modals) /\ Top = modals[Len(modals)] /\ Top \in Frames
  BY <1>1 DEF Top
<1>3. Top.kind \in {"name", "replace"} => Len(modals) = 1 /\ modals[1] = Top
  BY <1>2 DEF IInv, LogIInv, PresetBeneath
<1>4. ASSUME Top.kind = "replace"
      PROVE  Asked(Top.op)
  <2>1. Top = [kind |-> "replace", op |-> Top.op]
    BY <1>2, <1>4 DEF Frames
  <2> QED BY <1>3, <1>4, <2>1 DEF Asked
<1> QED BY <1>1, <1>2, <1>3, <1>4, LogFacts

\* An operation begins.
LEMMA BegunLog ==
  ASSUME IInv, NEW kind, kind \in TaskKinds \cup {"preset"}, Begin(kind), PresetBeneath',
         \A o \in active : Asked(o) => o \in silent,
         Running' => /\ task'.op <= Len(ops) + 1 /\ \A o \in silent : o < task'.op
                     /\ Running => task'.op = task.op,
         Running /\ NoEndNote => Running' /\ NoEndNote',
         \/ Running' /\ task'.op = Len(ops) + 1 /\ NoEndNote'
         \/ Asked(Len(ops))'
  PROVE  LogIInv'
<1> DEFINE n == Len(ops)
<1>1. /\ ops \in Seq(TaskKinds \cup {"preset"}) /\ n \in Nat
      /\ active \subseteq 1..n /\ silent \subseteq 1..n
      /\ \A o \in active : o \in silent \/ (Running /\ o = task.op /\ NoEndNote) \/ Asked(o)
  BY LogFacts
<1>2. Len(ops') = n + 1 /\ \A o \in 1..n : ops'[o] = ops[o]
  BY <1>1, AppendProperties DEF Begin
<1>3. active' = active \cup {n + 1} /\ UNCHANGED <<silent, filed>>
  BY DEF Begin
<1>4. /\ filed \subseteq (1..n) \X ((1..n) \cup {None})
      /\ \A entry \in filed : Explained(entry[1], entry[2])
  BY DEF IInv, LogIInv, LogTypes, FiledExplained, Explained
<1> HIDE DEF n
<1>5. 1..n \subseteq 1..n + 1 /\ n + 1 \in 1..n + 1
  BY <1>1
<1>6. LogTypes'
  BY <1>1, <1>2, <1>3, <1>4, <1>5 DEF LogTypes
<1>7. FiledExplained'
  <2> SUFFICES ASSUME NEW entry \in filed
               PROVE  \/ entry[1] = entry[2] \/ entry[1] \in silent \/ entry[2] = None
                      \/ "preset" \in {ops'[entry[1]], ops'[entry[2]]}
    BY <1>3 DEF FiledExplained
  <2>1. entry[1] \in 1..n /\ entry[2] \in (1..n) \cup {None} /\ Explained(entry[1], entry[2])
    BY <1>4
  <2> QED BY <1>2, <2>1 DEF Explained
<1>8. \A o \in active' : \/ o \in silent'
                         \/ Running' /\ o = task'.op /\ NoEndNote'
                         \/ Asked(o)'
  <2>1. ASSUME NEW o \in active
        PROVE  o \in silent' \/ (Running' /\ o = task'.op /\ NoEndNote') \/ Asked(o)'
    <3>1. CASE o \in silent \/ Asked(o)
      BY <1>3, <3>1
    <3>2. CASE Running /\ o = task.op /\ NoEndNote
      BY <3>2
    <3> QED BY <1>1, <3>1, <3>2
  <2>2. Len(ops') = Len(ops) + 1
    BY <1>2 DEF n
  <2>3. active' = active \cup {n + 1}
    BY <1>3 DEF n
  <2>4. \/ Running' /\ n + 1 = task'.op /\ NoEndNote'
        \/ \E o : o = n + 1 /\ Asked(o)'
    BY <2>2 DEF n
  <2> QED BY <2>1, <2>3, <2>4
<1>9. ActiveKnown'
  BY <1>2, <1>3, <1>8 DEF ActiveKnown, NoEndNote, Asked, n
<1> QED BY <1>6, <1>7, <1>9 DEF LogIInv

\* A task is started from the window: no dialog is open.
LEMMA StartLog ==
  ASSUME IInv, LoadVerifyTorrent \/ StartVerify \/ StartOther
  PROVE  LogIInv'
<1>1. PICK kind \in TaskKinds : StartTask(kind) /\ ~Running /\ modals = <<>>
  BY DEF LoadVerifyTorrent, StartVerify, StartOther, TaskKinds, AtWindow
<1>2. Begin(kind) /\ modals' = <<>> /\ task'.op = Len(ops) + 1
  BY <1>1 DEF StartTask
<1>3. PresetBeneath' /\ NoEndNote' /\ \A o : ~Asked(o)
  BY <1>1, <1>2 DEF PresetBeneath, NoEndNote, Asked
<1>4. \A o \in silent : o < Len(ops) + 1
  BY LogFacts
<1>5. Running'
  <2>1. TaskIInv'
    BY StartIInv DEF IInv
  <2>2. Len(ops) + 1 \in 1..MaxOps /\ path \in Torrents
    BY <1>2, LogFacts, GuiAssumption DEF Begin, IInv, TaskIInv, TypeOK
  <2>3. task' = [op |-> Len(ops) + 1, kind |-> kind, torrent |-> path, working |-> TRUE]
    BY <1>1 DEF StartTask
  <2>4. task' \in Tasks
    BY <2>2, <2>3 DEF Tasks
  <2> QED BY <2>4, GuiAssumption DEF Running
<1>6. kind \in TaskKinds \cup {"preset"} /\ Len(ops) + 1 <= Len(ops) + 1
  BY LogFacts
<1> QED BY <1>1, <1>2, <1>3, <1>4, <1>5, <1>6, BegunLog

\* The worker posts events.
LEMMA WorkerLog ==
  ASSUME IInv, Report \/ Execute
  PROVE  LogIInv'
<1>1. /\ UNCHANGED <<modals, ops, active, silent, filed>> /\ Running
      /\ task' = task \/ task' = [task EXCEPT !.working = FALSE]
  BY DEF Report, Execute, log
<1>2. task \in Tasks /\ task'.op = task.op
  BY <1>1 DEF IInv, TaskIInv, TypeOK, Running, Tasks
<1>3. Running'
  <2>1. [task EXCEPT !.working = FALSE] \in Tasks
    BY <1>2 DEF Tasks
  <2> QED BY <1>1, <1>2, <2>1, GuiAssumption DEF Running
<1>4. PresetBeneath' /\ (NoEndNote => NoEndNote') /\ \A o : Asked(o) => Asked(o)'
  BY <1>1 DEF IInv, LogIInv, PresetBeneath, NoEndNote, Asked
<1> QED BY <1>1, <1>2, <1>3, <1>4, QuietLog

\* The window and the dialogs, without the log; ending a task with its last dialog.
LEMMA WindowLog ==
  ASSUME IInv,
         \/ EditPath \/ ClickCancel \/ UserCloses \/ ConfirmExit \/ DeclineExit \/ DismissNote
         \/ AskPresetName \/ ApplySnapshot \/ CloseEvent(Tail(events))
  PROVE  LogIInv'
<1>1. UNCHANGED <<ops, active, silent, filed>>
  BY DEF EditPath, ClickCancel, UserCloses, ConfirmExit, DeclineExit, DismissNote, AskPresetName,
         ApplySnapshot, CloseEvent, log
<1>2. CASE UNCHANGED <<task, modals>>
  <2>1. PresetBeneath' /\ (NoEndNote => NoEndNote') /\ \A o : Asked(o) => Asked(o)'
    BY <1>1, <1>2 DEF IInv, LogIInv, PresetBeneath, NoEndNote, Asked
  <2> QED BY <1>1, <1>2, <2>1, QuietLog DEF Running
<1>3. CASE UNCHANGED task /\ Open([kind |-> "exit"])
  <2>1. [kind |-> "exit"] \in Frames /\ [kind |-> "exit"] # EndNote
    BY DEF Frames, EndNote
  <2>2. PresetBeneath' /\ (NoEndNote => NoEndNote') /\ \A o : Asked(o) => Asked(o)'
    BY <1>1, <1>3, <2>1, OpenedFrames
  <2> QED BY <1>1, <1>3, <2>2, QuietLog DEF Running
<1>4. CASE UNCHANGED task /\ Open([kind |-> "name"]) /\ modals = <<>>
  <2>1. modals' = <<[kind |-> "name"]>>
    BY <1>4 DEF Open
  <2>2. PresetBeneath' /\ NoEndNote' /\ \A o : ~Asked(o)
    BY <1>4, <2>1 DEF PresetBeneath, NoEndNote, Asked, EndNote
  <2> QED BY <1>1, <1>4, <2>2, QuietLog DEF Running
<1>5. CASE /\ modals # <<>> /\ modals' = Popped /\ Top.kind \in {"exit", "note"}
           /\ \/ UNCHANGED task
              \/ Top.kind = "note" /\ Top.ends /\ task' = None
  <2>1. PresetBeneath' /\ (NoEndNote => NoEndNote')
    BY <1>1, <1>5, PoppedFrames DEF IInv, LogIInv, PresetBeneath, NoEndNote
  <2>2. ASSUME NEW o, Asked(o) PROVE Asked(o)'
    <3>1. modals[1] # Top
      BY <1>5, <2>2 DEF Asked
    <3>2. 1 \in 1..Len(Popped) /\ Popped[1] = modals[1] /\ Popped # <<>>
      BY <1>5, <3>1, PoppedFrames DEF Top
    <3> QED BY <1>5, <2>2, <3>2 DEF Asked
  <2>3. Top.kind = "note" /\ Top.ends => ~NoEndNote
    <3>1. Top \in Frames /\ Len(modals) \in 1..Len(modals)
      BY <1>5, PoppedFrames
    <3> QED BY <3>1 DEF Top, Frames, NoEndNote, EndNote
  <2>4. Running' => Running /\ task'.op = task.op
    BY <1>5 DEF Running
  <2>5. Running /\ NoEndNote => Running'
    BY <1>5, <2>3 DEF Running
  <2> QED BY <1>1, <2>1, <2>2, <2>4, <2>5, QuietLog
<1>6. EditPath \/ ClickCancel \/ ApplySnapshot => UNCHANGED <<task, modals>>
  BY DEF EditPath, ClickCancel, ApplySnapshot, runner
<1>7. UserCloses \/ CloseEvent(Tail(events)) =>
        UNCHANGED task /\ (UNCHANGED modals \/ Open([kind |-> "exit"]))
  BY DEF UserCloses, CloseEvent, runner
<1>8. AskPresetName => UNCHANGED task /\ Open([kind |-> "name"]) /\ modals = <<>>
  BY DEF AskPresetName, AtWindow, runner
<1>9. ConfirmExit \/ DeclineExit =>
        UNCHANGED task /\ modals # <<>> /\ modals' = Popped /\ Top.kind = "exit"
  BY DEF ConfirmExit, DeclineExit, Answer, Top, runner
<1>10. DismissNote => /\ modals # <<>> /\ modals' = Popped /\ Top.kind = "note"
                      /\ UNCHANGED task \/ (Top.ends /\ task' = None)
  BY DEF DismissNote, Answer, Top, Finished, runner
<1> QED BY <1>2, <1>3, <1>4, <1>5, <1>6, <1>7, <1>8, <1>9, <1>10

\* The dialogs of a preset.
LEMMA PresetLog ==
  ASSUME IInv, PresetNameGiven \/ PresetReplaceAnswered
  PROVE  LogIInv'
<1>1. /\ modals # <<>> /\ UNCHANGED task
      /\ Top.kind = IF PresetNameGiven THEN Top.kind ELSE "replace"
      /\ Top.kind \in {"name", "replace"}
  BY DEF PresetNameGiven, PresetReplaceAnswered, Answer, Top, runner
<1>2. /\ Popped \in Seq(Frames) /\ Len(modals) = 1 /\ Len(Popped) = 0 /\ Popped = <<>>
      /\ modals[1] = Top /\ Top \in Frames
  BY <1>1, PoppedFrames
<1>3. \A o : Asked(o) => Top.kind = "replace" /\ Top.op = o
  BY <1>2 DEF Asked
<1>4. CASE modals' = <<>> \/ modals' = <<[kind |-> "note", ends |-> FALSE]>>
  <2>1. PresetBeneath' /\ NoEndNote'
    BY <1>4 DEF PresetBeneath, NoEndNote, EndNote
  <2>2. \A o \in active : \/ o \in silent
                          \/ Running /\ o = task.op /\ NoEndNote
                          \/ Asked(o)
    BY LogFacts
  <2>3. CASE Top.kind = "name"
    <3>1. \A o \in active : o \in silent \/ (Running' /\ o = task.op /\ NoEndNote')
      BY <1>1, <1>3, <2>1, <2>2, <2>3 DEF Running
    <3>2. CASE UNCHANGED log
      BY <1>1, <2>1, <3>1, <3>2, LogStep DEF log, Running
    <3>3. CASE FinishActive(None, active, {})
      <4>1. active \subseteq 1..Len(ops)
        BY LogFacts
      <4>2. \A entry \in filed' : \/ entry \in filed
                                  \/ \E o \in 1..Len(ops), c \in (1..Len(ops)) \cup {None} :
                                       entry = <<o, c>> /\ Explained(o, c)
        BY <3>3, <4>1 DEF FinishActive, LastOf, Explained
      <4>3. active' \subseteq active /\ UNCHANGED <<ops, silent>>
        BY <3>3 DEF FinishActive
      <4> QED BY <1>1, <2>1, <3>1, <4>2, <4>3, LogStep DEF Running
    <3>4. PresetNameGiven
      BY <2>3 DEF PresetReplaceAnswered, Answer, Top
    <3>5. UNCHANGED log \/ FinishActive(None, active, {})
      <4>1. ~(modals' = Append(Popped, [kind |-> "replace", op |-> Len(ops) + 1]))
        BY <1>2, <1>4
      <4> QED BY <3>4, <4>1 DEF PresetNameGiven, ShowPresetError
    <3> QED BY <3>2, <3>3, <3>5
  <2>4. CASE Top.kind = "replace"
    <3> DEFINE p == Top.op
    <3>1. p \in 1..Len(ops) /\ p = Len(ops) /\ ops[p] = "preset"
      BY <1>1, <2>4, PoppedFrames
    <3>2. PresetReplaceAnswered
      BY <2>4 DEF PresetNameGiven, Answer, Top
    <3>3. Finish(p) \/ FinishActive(p, active, {})
      BY <3>2 DEF PresetReplaceAnswered, ShowPresetError
    <3>4. \A o : Asked(o) => o = p
      BY <1>3
    <3> HIDE DEF p
    <3>5. active \subseteq 1..Len(ops) /\ Len(ops) \in Nat
      BY LogFacts
    <3>6. p \in active => p \in LastOf(active)
      BY <3>1, <3>5 DEF LastOf
    <3>7. active' \subseteq active \ {p} /\ UNCHANGED <<ops, silent>>
      BY <3>3, <3>6 DEF Finish, Without, FinishActive
    <3>8. \A entry \in filed' : \/ entry \in filed
                                \/ \E o \in 1..Len(ops), c \in (1..Len(ops)) \cup {None} :
                                     entry = <<o, c>> /\ Explained(o, c)
      BY <3>1, <3>3, <3>5 DEF Finish, FinishActive, LastOf, Explained
    <3>9. \A o \in active' : o \in silent \/ (Running' /\ o = task.op /\ NoEndNote')
      BY <1>1, <2>1, <2>2, <3>4, <3>7 DEF Running
    <3> QED BY <1>1, <2>1, <3>7, <3>8, <3>9, LogStep DEF Running
  <2> QED BY <1>1, <2>3, <2>4
<1>5. CASE /\ Begin("preset") /\ Top.kind = "name"
           /\ modals' = <<[kind |-> "replace", op |-> Len(ops) + 1]>>
  <2>1. Len(ops') = Len(ops) + 1 /\ ops'[Len(ops) + 1] = "preset"
    BY <1>5, LogFacts, AppendProperties DEF Begin
  <2>2. /\ Len(modals') = 1 /\ modals' # <<>>
        /\ modals'[1] = [kind |-> "replace", op |-> Len(ops) + 1]
    BY <1>5
  <2>5. modals'[1].kind = "replace" /\ modals'[1].op = Len(ops) + 1
    BY <2>2
  <2>6. PresetBeneath'
    BY <2>1, <2>2, <2>5 DEF PresetBeneath
  <2>7. NoEndNote'
    BY <2>2, <2>5 DEF NoEndNote, EndNote
  <2>8. Asked(Len(ops))'
    BY <2>1, <2>2 DEF Asked
  <2>3. \A o : ~Asked(o)
    BY <1>3, <1>5
  <2>4. Running => task.op <= Len(ops) + 1 /\ \A o \in silent : o < task.op
    BY LogFacts
  <2> QED BY <1>1, <1>5, <2>3, <2>4, <2>6, <2>7, <2>8, BegunLog DEF Running
<1>6. /\ Append(Popped, [kind |-> "note", ends |-> FALSE]) = <<[kind |-> "note", ends |-> FALSE]>>
      /\ Append(Popped, [kind |-> "replace", op |-> Len(ops) + 1])
           = <<[kind |-> "replace", op |-> Len(ops) + 1]>>
  BY <1>2
<1>7. PresetNameGiven => Top.kind = "name"
  BY DEF PresetNameGiven, Answer, Top
<1> QED
  BY <1>2, <1>4, <1>5, <1>6, <1>7 DEF PresetNameGiven, PresetReplaceAnswered, ShowPresetError

\* The end of a task is handled: its operation is finished or, once, forgotten; what else is
\* finished with it was forgotten before or is a preset's.
LEMMA EndedLog ==
  ASSUME IInv, events # <<>>, Ends(Head(events)), UNCHANGED ops, active' \subseteq active,
         \A entry \in filed' : \/ entry \in filed \/ entry = <<task.op, task.op>>
                               \/ \E o \in active : entry = <<o, task.op>>,
         \/ UNCHANGED silent /\ task.op \notin active' /\ (Returns \/ (Open(EndNote) /\ UNCHANGED task))
         \/ silent' = silent \cup {task.op} /\ Returns
  PROVE  LogIInv'
<1>1. Running /\ NoEndNote
  BY DeliveredEvents DEF IInv, NoEndNote
<1>2. /\ active \subseteq 1..Len(ops) /\ task.op \in 1..Len(ops)
      /\ \A o \in active : o \in silent \/ o = task.op \/ Asked(o)
      /\ \A o : Asked(o) => ops[o] = "preset"
  BY <1>1, LogFacts
<1>3. \A entry \in filed' : \/ entry \in filed
                            \/ \E o \in 1..Len(ops), c \in (1..Len(ops)) \cup {None} :
                                 entry = <<o, c>> /\ Explained(o, c)
  BY <1>2 DEF Explained
<1>4. CASE Returns
  <2>1. ~Running' /\ modals' = modals
    BY <1>4 DEF Returns, Finished, Running
  <2>2. PresetBeneath' /\ \A o : Asked(o) => Asked(o)'
    BY <2>1 DEF IInv, LogIInv, PresetBeneath, Asked
  <2>3. \A o \in active' : o \in silent' \/ Asked(o)'
    BY <1>2, <2>2
  <2>4. UNCHANGED silent \/ (Running /\ ~Running' /\ silent' = silent \cup {task.op})
    BY <1>1, <2>1
  <2> QED BY <1>3, <2>1, <2>2, <2>3, <2>4, LogStep
<1>5. CASE Open(EndNote) /\ UNCHANGED <<task, silent>> /\ task.op \notin active'
  <2>1. EndNote \in Frames /\ EndNote.kind \notin {"name", "replace"}
    BY DEF EndNote, Frames
  <2>2. PresetBeneath' /\ \A o : Asked(o) => Asked(o)'
    BY <1>5, <2>1, OpenedFrames
  <2>3. \A o \in active' : o \in silent' \/ Asked(o)'
    BY <1>2, <1>5, <2>2
  <2>4. Running' => Running /\ task'.op = task.op
    BY <1>5 DEF Running
  <2> QED BY <1>3, <1>5, <2>2, <2>3, <2>4, LogStep
<1> QED BY <1>4, <1>5

\* What a completion does to the log.
LEMMA CompletedLog ==
  ASSUME IInv, events # <<>>, Ends(Head(events)), NEW outcome, Completed(outcome)
  PROVE  LogIInv'
<1> DEFINE t == task.op
<1>1. CASE Finish(t) /\ (Returns \/ Notifies)
  <2>1. /\ UNCHANGED <<ops, silent>> /\ active' = active \ {t} /\ filed' = filed \cup {<<t, t>>}
    BY <1>1 DEF Finish, Without
  <2>2. Returns \/ (Open(EndNote) /\ UNCHANGED task)
    BY <1>1 DEF Notifies, EndNote, runner
  <2> QED BY <2>1, <2>2, EndedLog
<1>2. CASE FinishAndShow(t) /\ Notifies
  <2>1. /\ UNCHANGED <<ops, silent>> /\ active' = (active \ {t}) \ LastOf(active \ {t})
        /\ filed' = filed \cup {<<t, t>>} \cup {<<o, t>> : o \in LastOf(active \ {t})}
    BY <1>2 DEF FinishAndShow, FinishActive, Without
  <2>2. LastOf(active \ {t}) \subseteq active
    BY DEF LastOf
  <2>3. Open(EndNote) /\ UNCHANGED task
    BY <1>2 DEF Notifies, EndNote, runner
  <2>4. /\ active' \subseteq active /\ t \notin active'
        /\ \A entry \in filed' : \/ entry \in filed \/ entry = <<t, t>>
                                 \/ \E o \in active : entry = <<o, t>>
    BY <2>1, <2>2
  <2> QED BY <2>1, <2>3, <2>4, EndedLog
<1>3. CASE ShowTaskError({<<t, t>>})
  <2>1. /\ UNCHANGED <<ops, silent>> /\ active' = (active \ {t}) \ LastOf(active \ {t})
        /\ filed' = filed \cup {<<t, t>>} \cup {<<o, t>> : o \in LastOf(active \ {t})}
    BY <1>3 DEF ShowTaskError, FinishActive, Without
  <2>2. LastOf(active \ {t}) \subseteq active
    BY DEF LastOf
  <2>3. Open(EndNote) /\ UNCHANGED task
    BY <1>3 DEF ShowTaskError, EndNote, runner
  <2>4. /\ active' \subseteq active /\ t \notin active'
        /\ \A entry \in filed' : \/ entry \in filed \/ entry = <<t, t>>
                                 \/ \E o \in active : entry = <<o, t>>
    BY <2>1, <2>2
  <2> QED BY <2>1, <2>3, <2>4, EndedLog
<1>4. CASE silent' = silent \cup {t} /\ UNCHANGED <<ops, active, filed>> /\ Returns
  BY <1>4, EndedLog
<1> QED
  BY <1>1, <1>2, <1>3, <1>4 DEF Completed, LoadCompleted, VerifyCompleted, OtherCompleted

\* The `failed` handler finishes the two operations begun last: the task's is one of them.
LEMMA FailedLog ==
  ASSUME IInv, events # <<>>, Ends(Head(events)), Failed
  PROVE  LogIInv'
<1> DEFINE t == task.op
           below == active \ LastOf(active)
<1>1. /\ UNCHANGED <<ops, silent>> /\ active' = below \ LastOf(below)
      /\ filed' = filed \cup {<<o, t>> : o \in LastOf(active)} \cup {<<o, t>> : o \in LastOf(below)}
      /\ Open(EndNote) /\ UNCHANGED task
  BY DEF Failed, FinishActive, EndNote, runner
<1>2. LastOf(active) \subseteq active /\ LastOf(below) \subseteq active
  BY DEF LastOf
<1>3. /\ active \subseteq 1..Len(ops) /\ Len(ops) \in Nat /\ t \in Nat
      /\ \A o \in active : o = t \/ o = Len(ops) \/ o < t
  <2>1. Running
    BY DeliveredEvents DEF IInv
  <2> QED BY <2>1, LogFacts
<1>4. t \notin active'
  <2> SUFFICES ASSUME t \in below, t \notin LastOf(below)
               PROVE  FALSE
    BY <1>1
  <2>1. PICK o \in below : ~(o <= t)
    BY DEF LastOf
  <2>2. o = Len(ops)
    BY <1>3, <2>1
  <2>3. o \in LastOf(active)
    BY <1>3, <2>2 DEF LastOf
  <2> QED BY <2>3
<1>5. /\ active' \subseteq active
      /\ \A entry \in filed' : entry \in filed \/ \E o \in active : entry = <<o, t>>
  BY <1>1, <1>2
<1> QED BY <1>1, <1>4, <1>5, EndedLog

\* Every step keeps what is known of the log.
LEMMA NextLogIInv ==
  ASSUME IInv, [Next]_vars
  PROVE  LogIInv'
<1>1. CASE Dispatch
  <2>1. events # <<>>
    BY <1>1 DEF Dispatch
  <2>2. CASE ApplySnapshot \/ CloseEvent(Tail(events))
    BY <2>2, WindowLog
  <2>3. CASE Head(events).kind = "completed" /\ Completed(Head(events).outcome)
    BY <2>1, <2>3, CompletedLog DEF Ends
  <2>4. CASE Head(events).kind = "failed" /\ Failed
    BY <2>1, <2>4, FailedLog DEF Ends
  <2> QED BY <1>1, <2>2, <2>3, <2>4 DEF Dispatch
<1>2. CASE UNCHANGED vars
  BY <1>2 DEF vars, log, runner, IInv, LogIInv, LogTypes, FiledExplained, PresetBeneath,
              ActiveKnown, Running
<1> QED BY <1>1, <1>2, StartLog, WorkerLog, WindowLog, PresetLog DEF Next

LEMMA InitIInv == Init => IInv
<1>1. Init => LogIInv
  BY GuiAssumption DEF Init, LogIInv, LogTypes, FiledExplained, PresetBeneath, ActiveKnown,
                       Running
<1> QED BY <1>1, InitTaskIInv DEF IInv

LEMMA NextIInv == IInv /\ [Next]_vars => IInv'
<1> SUFFICES ASSUME IInv, [Next]_vars PROVE IInv'
  OBVIOUS
<1>1. TaskIInv'
  BY NextTaskIInv DEF IInv
<1> QED BY <1>1, NextLogIInv DEF IInv

\* The inductive invariant holds in every reachable state: whatever the order of starts,
\* outcomes, dialogs and cancellations, a task ends once, and when none runs the buttons are
\* those of an idle window and no file is left "checking" (GuiTaskRunner.cpp, MainWindow.cpp).
THEOREM SpecIInv == Spec => []IInv
  BY InitIInv, NextIInv, PTL DEF Spec

\* The window treats the running task as cancelled exactly when its token is
\* (cancel_operation, begin of the next task).
THEOREM SpecRequestIsOfThisTask == Spec => []RequestIsOfThisTask
<1>1. IInv => RequestIsOfThisTask
  BY DEF IInv, TaskIInv
<1> QED BY <1>1, SpecIInv, PTL

\* What the Verify page shows belongs to the path typed there, although the path may be edited
\* while a load or a verification runs (the completions of MainWindow.cpp).
THEOREM SpecResultsOfShownTorrent == Spec => []ResultsOfShownTorrent
<1>1. IInv => ResultsOfShownTorrent
  BY DEF IInv, TaskIInv
<1> QED BY <1>1, SpecIInv, PTL

\* The log finishes each operation by its own completion, but for presets, which run beside a
\* task, and for operations their completion forgot; at rest only the latter are open
\* (finish_gui_operation, show_error, show_task_error and the `failed` handler).
THEOREM SpecLogExplained == Spec => []LogExplained
<1>1. IInv => LogExplained
  <2> SUFFICES ASSUME IInv, ~Running, modals = <<>>
               PROVE  active \subseteq silent
    BY DEF IInv, LogIInv, LogExplained
  <2> QED BY DEF IInv, LogIInv, ActiveKnown
<1> QED BY <1>1, SpecIInv, PTL
=============================================================================
