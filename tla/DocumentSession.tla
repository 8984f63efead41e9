----------------------------- MODULE DocumentSession -----------------------------
(***************************************************************************)
(* Torrent files edited by one window and by command lines at the same     *)
(* time: the Inspect, Modify and Tracker pages (src/gui/MainWindow.cpp),   *)
(* the commands metadata and tracker (src/cli/cli.cpp), and load and save  *)
(* of the service (src/application.cpp).                                   *)
(*                                                                         *)
(* The window runs one task at a time.  What the user does, what the       *)
(* worker does and what the window does with the outcome are steps of      *)
(* their own, so the user goes on typing and command lines go on saving    *)
(* between them.  A save is one step here; TorrentSave takes it apart.     *)
(***************************************************************************)
EXTENDS MetadataEngine

CONSTANTS
    Dirs, Names,    \* a path is a pair of them
    DefaultDir,     \* where the pages propose to save
    Starts,         \* what may be on disk in the beginning
    DefaultRows,    \* the tracker rows of the configuration
    Opened,         \* the paths the user opens, files and folders
    Typed,          \* what the user may type on the Modify page: [field, value]
    Urls,           \* the trackers the user may add
    CliCommands,    \* what a command line, or another client of the library, may be told
    MaxSteps        \* bound on what the users do, saves and validations not counted

Paths == Dirs \X Names

\* What a page, a task and a command line hold of a torrent: what was read or saved last, the
\* path and the file it was read from or saved as.
Snapshots == [document : Documents, source : Paths, original : Torrents]

Rows == Seq([tier : Int, url : Strings])
Fields == [name : Texts, source : Texts, comment : Texts, creator : Texts, private : BOOLEAN,
           date : Dates, web_seeds : Seq(Strings)]
Clears == {"comment", "creator", "source", "date", "web_seeds"}

ASSUME DocumentAssumption ==
    /\ DefaultDir \in Dirs /\ Opened \subseteq Paths \cup Dirs /\ None \notin Paths \cup Dirs
    /\ MaxSteps \in Nat /\ IsFiniteSet(Names)
    /\ "" \in Texts /\ "TorrentCraft" \in Texts /\ 0 \in Dates /\ Urls \subseteq Strings
    /\ DefaultRows \in Rows /\ Starts \subseteq [Paths -> Files]
    /\ Typed \subseteq
         [field : {"name", "source", "comment", "creator"}, value : Texts] \cup
         [field : {"private", "custom", "dated"}, value : BOOLEAN] \cup
         [field : {"date"}, value : Dates] \cup [field : {"web_seeds"}, value : Seq(Strings)] \cup
         [field : {"clear"}, value : Clears] \cup [field : {"output"}, value : Paths \cup {None}]
    /\ CliCommands \subseteq
         [kind : {"metadata", "client"}, path : Paths, dry : BOOLEAN, actions : Seq(Actions)] \cup
         [kind : {"add"}, path : Paths, dry : BOOLEAN, tier : Int, url : Trackers] \cup
         [kind : {"remove"}, path : Paths, dry : BOOLEAN, tier : Int, index : Int] \cup
         [kind : {"replace"}, path : Paths, dry : BOOLEAN, entries : Seq(Int \X Trackers)]
    /\ {None, Refused} \cap (Snapshots \cup Dirs) = {} /\ Refused # None
    /\ Dirs \cap Snapshots = {}

VARIABLES
    files,      \* the torrent at each path, None or Garbage
    inspect,    \* the Inspect page: path, loaded, trackers (its table)
    modify,     \* the Modify page: path, loaded, fields, custom and dated (check boxes), clear
                \* (the Clear boxes), rows, output, auto; origin and unread are history: the
                \* path of the document, and the path was set without loading it
    tracker,    \* the Tracker page: path, loaded, folder, rows, output, auto; origin, unread
    task,       \* the window's task, None between tasks
    cli,        \* the command line that runs: its command and what it loaded
    written,    \* what the last step wrote, from what and why, or None (history)
    steps

vars == <<files, inspect, modify, tracker, task, cli, written, steps>>
pages == <<inspect, modify, tracker>>

Shown(value) == IF value = None THEN "" ELSE value
BlankFields == [name |-> "", source |-> "", comment |-> "", creator |-> "", private |-> FALSE,
                date |-> 0, web_seeds |-> <<>>]

Init ==
    /\ files \in Starts
    /\ inspect = [path |-> None, loaded |-> None, trackers |-> <<>>]
    /\ modify = [path |-> None, loaded |-> None, fields |-> BlankFields, custom |-> FALSE,
                 dated |-> FALSE, clear |-> {}, rows |-> <<>>, output |-> None, auto |-> None,
                 origin |-> None, unread |-> FALSE]
    /\ tracker = [path |-> None, loaded |-> None, folder |-> None, rows |-> <<>>,
                  output |-> None, auto |-> None, origin |-> None, unread |-> FALSE]
    /\ task = None /\ cli = None /\ written = None /\ steps = 0

Quiet == written' = None /\ UNCHANGED files

Step == steps < MaxSteps /\ steps' = steps + 1

-----------------------------------------------------------------------------
(* Loading and saving *)

LoadFrom(path, mode) ==
    [document |-> decode_torrent(files[path], mode), source |-> path, original |-> files[path]]

\* commit: to the source only over the bytes that were loaded, elsewhere only over nothing
\* unless the user allows it.
Commits(loaded, request) ==
    LET target == IF request.target = None THEN loaded.source ELSE request.target
    IN IF target = loaded.source
       THEN (request.target = None \/ request.overwrite) /\ files[target] = loaded.original
       ELSE files[target] = None \/ request.overwrite

\* What a save comes to: nothing to write, a refusal, or the torrent as it is then held.
save(loaded, request) ==
    LET target == IF request.target = None THEN loaded.source ELSE request.target
        torrent == encode_patch(loaded.document)
        same == torrent = loaded.original /\ target = loaded.source
    IN IF same THEN loaded
       ELSE IF Commits(loaded, request)
       THEN [loaded EXCEPT !.source = target, !.original = torrent]
       ELSE Refused

\* The outcome of the save reaches the disk, unless there is none.
Write(old, new, by, actions, shown) ==
    IF new = Refused \/ new = old THEN Quiet
    ELSE /\ files' = [files EXCEPT ![new.source] = new.original]
         /\ written' = [torrent |-> new.original, before |-> old.original,
                        mode |-> old.document.mode, actions |-> actions, by |-> by,
                        shown |-> shown]

-----------------------------------------------------------------------------
(* Paths and tables of the pages *)

\* A generated path is replaced by the next one, a path of the user's own is not.
set_auto_path(page, candidate) ==
    IF page.output # None /\ page.output # page.auto THEN page
    ELSE [page EXCEPT !.output = candidate, !.auto = candidate]

update_modify_output_path(page, path) == set_auto_path(page, <<DefaultDir, path[2]>>)

\* A path text that is emptied takes the generated output with it.
ModifyPathText(page, path) ==
    IF path = None
    THEN [page EXCEPT !.path = None, !.output = IF @ = page.auto THEN None ELSE @, !.auto = None]
    ELSE [update_modify_output_path(page, path) EXCEPT !.path = path]

\* The rows of a tier bear its number.
populate_tracker_model(list) ==
    LET rows == InOrder(Places(list))
    IN [k \in DOMAIN rows |-> [tier |-> rows[k][1], url |-> list[rows[k][1]][rows[k][2]]]]

\* Mutant: rows are grouped as they come, whatever number they bear.
tracker_list_from_model_InOrder(rows) ==
    IF \A r \in ToSet(rows) : Valid(r.url)
    THEN MakeList([r \in DOMAIN rows |-> <<rows[r].url>>])
    ELSE Refused

\* Tiers must be numbered from 1 without a gap; the order of their rows is the order in a tier.
tracker_list_from_model(rows) ==
    LET tiers == {r.tier : r \in ToSet(rows)}
        urls == [r \in DOMAIN rows |-> rows[r].url]
    IN IF tiers = 1 .. Cardinality(tiers) /\ \A r \in ToSet(rows) : Valid(r.url)
       THEN [t \in 1 .. Cardinality(tiers) |->
               CreateTier(Pick(urls, {r \in DOMAIN rows : rows[r].tier = t}))]
       ELSE Refused

add_tracker_row(rows, url) ==
    Append(rows, [tier |-> Max({0} \cup {r.tier : r \in ToSet(rows)}) + 1, url |-> url])

\* What the user may do to the rows: add, edit, remove or move one.
RowEdits(rows) ==
    {add_tracker_row(rows, url) : url \in Urls} \cup
    {[rows EXCEPT ![i].tier = t] : i \in DOMAIN rows, t \in 1 .. 2} \cup
    {RemoveAt(rows, i) : i \in DOMAIN rows} \cup
    {[rows EXCEPT ![i] = rows[i + 1], ![i + 1] = rows[i]] : i \in 1 .. Len(rows) - 1}

-----------------------------------------------------------------------------
(* Tasks *)

job == task.job

StartTask(kind, arguments) ==
    task' = [kind |-> kind, job |-> arguments, done |-> FALSE, cancelled |-> FALSE, result |-> Refused]

Works(kind) == task # None /\ task.kind = kind /\ ~task.done
Returns(kind) == task # None /\ task.kind = kind /\ task.done
Done(result) == task' = [task EXCEPT !.done = TRUE, !.result = result]

\* cancel_operation: the worker looks at its token later.
CancelTask ==
    /\ Step /\ task # None /\ ~task.done /\ ~task.cancelled
    /\ task' = [task EXCEPT !.cancelled = TRUE]
    /\ Quiet /\ UNCHANGED <<pages, cli>>

\* The worker of every page's load.
LoadWorker ==
    /\ \E kind \in {"load_inspect", "load_modify", "load_tracker"} : Works(kind)
    /\ Done(IF ~task.cancelled /\ Loads(files[job.path], job.mode)
            THEN LoadFrom(job.path, job.mode) ELSE Refused)
    /\ Quiet /\ UNCHANGED <<pages, cli, steps>>

-----------------------------------------------------------------------------
(* The Inspect page *)

InspectOpen(path) ==
    /\ Step
    /\ IF task = None
       THEN /\ inspect' = [path |-> path, loaded |-> None, trackers |-> <<>>]
            /\ \E mode \in Modes : StartTask("load_inspect", [path |-> path, mode |-> mode])
       ELSE inspect' = [inspect EXCEPT !.path = path] /\ UNCHANGED task
    /\ Quiet /\ UNCHANGED <<modify, tracker, cli>>

InspectLoaded ==
    /\ Returns("load_inspect")
    /\ task' = None
    /\ inspect' = IF task.result = Refused THEN inspect
                  ELSE [inspect EXCEPT !.loaded = task.result,
                                       !.trackers = task.result.document.trackers]
    /\ Quiet /\ UNCHANGED <<modify, tracker, cli, steps>>

\* Validation reads the loaded document only and shows what it finds.
Validate ==
    /\ task = None /\ inspect.loaded # None
    /\ StartTask("validate", [path |-> inspect.path])
    /\ Quiet /\ UNCHANGED <<pages, cli, steps>>

ValidateWorker == Works("validate") /\ Done(Refused) /\ Quiet /\ UNCHANGED <<pages, cli, steps>>

Validated == Returns("validate") /\ task' = None /\ Quiet /\ UNCHANGED <<pages, cli, steps>>

-----------------------------------------------------------------------------
(* The Modify page *)

\* Mutant: the document of the torrent before stays until the next one is there.
ModifyOpen_KeepsLoaded(path) ==
    /\ Step
    /\ IF task = None /\ path # None
       THEN /\ modify' = [ModifyPathText(modify, path) EXCEPT !.unread = FALSE]
            /\ \E mode \in Modes : StartTask("load_modify", [path |-> path, mode |-> mode])
       ELSE modify' = [ModifyPathText(modify, path) EXCEPT !.unread = TRUE] /\ UNCHANGED task
    /\ Quiet /\ UNCHANGED <<inspect, tracker, cli>>

\* A path is typed, chosen or dropped; it is loaded unless a task runs.
ModifyOpen(path) ==
    /\ Step
    /\ IF task = None /\ path # None
       THEN /\ modify' = [ModifyPathText(modify, path) EXCEPT !.loaded = None, !.unread = FALSE]
            /\ \E mode \in Modes : StartTask("load_modify", [path |-> path, mode |-> mode])
       ELSE modify' = [ModifyPathText(modify, path) EXCEPT !.unread = TRUE] /\ UNCHANGED task
    /\ Quiet /\ UNCHANGED <<inspect, tracker, cli>>

\* The built-in creator counts as none of the user's own.
is_custom_created_by(creator) == creator \notin {None, "TorrentCraft"}

populate_modify_fields(page, loaded) ==
    LET info == loaded.document.info
        metadata == loaded.document.metadata
    IN [update_modify_output_path(page, loaded.source) EXCEPT
          !.path = loaded.source, !.loaded = loaded, !.clear = {},
          !.fields = [name |-> Shown(info.name), source |-> Shown(metadata.source),
                      comment |-> Shown(metadata.comment), creator |-> Shown(metadata.creator),
                      private |-> info.private, web_seeds |-> metadata.web_seeds,
                      date |-> IF metadata.date = None THEN page.fields.date ELSE metadata.date],
          !.custom = is_custom_created_by(metadata.creator),
          !.dated = metadata.date # None,
          !.rows = populate_tracker_model(loaded.document.trackers)]

\* A path typed meanwhile is overwritten by the one loaded.
ModifyLoaded ==
    /\ Returns("load_modify")
    /\ task' = None
    /\ modify' = IF task.result = Refused THEN modify
                 ELSE [populate_modify_fields(modify, task.result) EXCEPT
                         !.origin = job.path, !.unread = FALSE]
    /\ Quiet /\ UNCHANGED <<inspect, tracker, cli, steps>>

\* Typing the built-in creator takes the mark from its check box.
ModifyType(typed) ==
    /\ Step
    /\ modify' = CASE typed.field = "clear"  -> [modify EXCEPT !.clear = @ \cup {typed.value}]
                   [] typed.field = "custom" -> [modify EXCEPT !.custom = typed.value]
                   [] typed.field = "dated"  -> [modify EXCEPT !.dated = typed.value]
                   [] typed.field = "output" -> [modify EXCEPT !.output = typed.value]
                   [] OTHER -> [modify EXCEPT !.fields[typed.field] = typed.value,
                                  !.custom = @ /\ typed # [field |-> "creator",
                                                           value |-> "TorrentCraft"]]
    /\ modify' # modify
    /\ Quiet /\ UNCHANGED <<inspect, tracker, task, cli>>

ModifyRows ==
    /\ Step
    /\ \E rows \in RowEdits(modify.rows) : modify' = [modify EXCEPT !.rows = rows]
    /\ Quiet /\ UNCHANGED <<inspect, tracker, task, cli>>

Act(kind, value) == [kind |-> kind, value |-> value]

\* What a save asks for.  A Clear box wins over the text of its field, but only an empty list
\* of seeds is cleared; private and the trackers are always set.
ModifyActions(page) ==
    LET old == page.loaded.document
        seeds == page.fields.web_seeds
        Asks(when, kind, value) == [when |-> when, action |-> Act(kind, value)]
        Text(kind, when) == IF kind \in page.clear THEN Asks(old.metadata[kind] # None, kind, None)
                                                   ELSE Asks(when, kind, page.fields[kind])
        Differs(kind) == page.fields[kind] \notin {"", Shown(old.metadata[kind])}
        all == <<Text("comment", Differs("comment")),
                 Text("creator", page.custom /\ page.fields.creator # old.metadata.creator),
                 Text("source", Differs("source")),
                 Asks(page.fields.name \notin {"", Shown(old.info.name)}, "name", page.fields.name),
                 Asks(TRUE, "private", IF page.fields.private THEN 1 ELSE 0),
                 IF "date" \in page.clear THEN Asks(TRUE, "date", None)
                                          ELSE Asks(page.dated, "date", page.fields.date),
                 Asks("web_seeds" \in page.clear \/ seeds # <<>>, "web_seeds", seeds),
                 Asks(TRUE, "trackers", tracker_list_from_model(page.rows))>>
    IN Pick([k \in DOMAIN all |-> all[k].action], {k \in DOMAIN all : all[k].when})

\* The view of a torrent that the page shows (for the properties): a ticked Clear box stands for
\* a field without a value, whatever text it has.
ShownView(page) ==
    LET old == page.loaded.document
        Text(kind, given) == IF kind \in page.clear THEN None
                             ELSE IF given THEN page.fields[kind] ELSE old.metadata[kind]
    IN [comment |-> Text("comment", page.fields.comment # ""),
        creator |-> Text("creator", page.custom),
        name |-> IF page.fields.name = "" THEN old.info.name ELSE page.fields.name,
        private |-> page.fields.private,
        date |-> Text("date", page.dated),
        web_seeds |-> IF "web_seeds" \in page.clear THEN <<>>
                      ELSE IF page.fields.web_seeds # <<>> THEN page.fields.web_seeds
                      ELSE old.metadata.web_seeds,
        trackers |-> tracker_list_from_model(page.rows)]

\* Seeds whose Clear box is ticked over a text are left to ClearedSeedsAreGone.
PageView(page) ==
    LET view == ShownView(page)
        overruled == IF page.fields.web_seeds # <<>> THEN page.clear \cap {"web_seeds"} ELSE {}
    IN [field \in DOMAIN view \ overruled |-> view[field]]

\* Save or Preview: seeds or rows that are wrong refuse it before a task begins.  A dry run never
\* comes to ask for overwrite.
SaveModify(dry) ==
    /\ task = None /\ modify.loaded # None
    /\ ToSet(modify.fields.web_seeds) \subseteq SeedUrls
    /\ tracker_list_from_model(modify.rows) # Refused
    /\ \E overwrite \in {o \in BOOLEAN : o => ~dry /\ modify.output # None} :
        StartTask("save_modify",
             [actions |-> ModifyActions(modify), dry |-> dry,
              request |-> [target |-> modify.output, overwrite |-> overwrite],
              shown |-> [path |-> modify.path, origin |-> modify.origin, unread |-> modify.unread,
                         clear |-> modify.clear, view |-> PageView(modify)]])
    /\ Quiet /\ UNCHANGED <<pages, cli, steps>>

\* Edit, look at the token, save: the save may fail, and a failure leaves no new file.
EditWorker(kind, loaded) ==
    /\ Works(kind)
    /\ \E edited \in {edit(loaded, job.actions)}, fails \in BOOLEAN :
        LET stops == \/ edited = Refused \/ task.cancelled
                     \/ job.dry \/ edited.disposition # "Applied"
        IN /\ fails => ~stops
           /\ \E saved \in {IF stops \/ fails THEN Refused ELSE save(edited.loaded, job.request)} :
                /\ Done(saved)
                /\ Write(loaded, saved, kind, job.actions, job.shown)
    /\ UNCHANGED <<pages, cli, steps>>

SaveModifyWorker == EditWorker("save_modify", modify.loaded)

\* The page goes on with the document that was saved; its fields stay as they are.
ModifySaved ==
    /\ Returns("save_modify")
    /\ task' = None
    /\ modify' = IF task.result = Refused THEN modify ELSE [modify EXCEPT !.loaded = task.result]
    /\ Quiet /\ UNCHANGED <<inspect, tracker, cli, steps>>

-----------------------------------------------------------------------------
(* The Tracker page *)

ProposeOutput(page) == set_auto_path(page, DefaultDir)

\* The folder is forgotten when another one is read, or a torrent from elsewhere; the rows and
\* the document of a torrent stay until the next one is there.
TrackerOpen(path) ==
    /\ Step
    /\ IF task # None
       THEN /\ \E page \in {tracker, ProposeOutput(tracker)} :      \* typed, or chosen or dropped
                  tracker' = [page EXCEPT !.path = path, !.unread = TRUE]
            /\ UNCHANGED task
       ELSE IF path \in Dirs
       THEN /\ tracker' = [ProposeOutput(tracker) EXCEPT
                             !.path = path, !.loaded = None, !.folder = None, !.unread = TRUE]
            /\ StartTask("load_folder", [path |-> path])
       ELSE /\ tracker' = [ProposeOutput(tracker) EXCEPT
                             !.path = path, !.folder = IF @ = path[1] THEN @ ELSE None,
                             !.unread = TRUE]
            /\ StartTask("load_tracker", [path |-> path, mode |-> "lenient"])
    /\ Quiet /\ UNCHANGED <<inspect, modify, cli>>

\* Listing a folder reads no torrent.
FolderWorker ==
    /\ Works("load_folder")
    /\ Done(IF task.cancelled THEN Refused ELSE job.path)
    /\ Quiet /\ UNCHANGED <<pages, cli, steps>>

FolderLoaded ==
    /\ Returns("load_folder")
    /\ task' = None
    /\ tracker' = IF task.result = Refused THEN tracker
                  ELSE [tracker EXCEPT !.folder = job.path, !.rows = DefaultRows,
                                       !.origin = job.path, !.unread = tracker.path # job.path]
    /\ Quiet /\ UNCHANGED <<inspect, modify, cli, steps>>

TrackerLoaded ==
    /\ Returns("load_tracker")
    /\ task' = None
    /\ tracker' = IF task.result = Refused THEN tracker
                  ELSE [tracker EXCEPT !.loaded = task.result,
                          !.rows = populate_tracker_model(task.result.document.trackers),
                          !.origin = job.path, !.unread = tracker.path # job.path]
    /\ Quiet /\ UNCHANGED <<inspect, modify, cli, steps>>

TrackerRows ==
    /\ Step
    /\ \E rows \in RowEdits(tracker.rows) : tracker' = [tracker EXCEPT !.rows = rows]
    /\ Quiet /\ UNCHANGED <<inspect, modify, task, cli>>

TrackerOutput ==
    /\ Step
    /\ tracker.output # None /\ tracker' = [tracker EXCEPT !.output = None]
    /\ Quiet /\ UNCHANGED <<inspect, modify, task, cli>>

\* Convert: every torrent of the folder if there is one, else the torrent loaded.
SaveTracker(dry) ==
    LET list == tracker_list_from_model(tracker.rows)
        shown == [path |-> tracker.path, origin |-> tracker.origin, unread |-> tracker.unread,
                  clear |-> {}, view |-> [trackers |-> list]]
        actions == <<Act("trackers", list)>>
    IN /\ task = None /\ list # Refused
       /\ \E overwrite \in {o \in BOOLEAN : o => ~dry /\ tracker.output # None} :
            IF tracker.folder # None
            THEN StartTask("batch",
                    [actions |-> actions, dry |-> dry, shown |-> shown, output |-> tracker.output,
                     overwrite |-> overwrite, folder |-> tracker.folder, names |-> <<>>,
                     next |-> 0, failures |-> {}, disturbed |-> FALSE])
            ELSE /\ tracker.loaded # None
                 /\ StartTask("save_tracker",
                      [actions |-> actions, dry |-> dry, shown |-> shown,
                       request |-> [target |-> IF tracker.output = None THEN None
                                               ELSE <<tracker.output, tracker.loaded.source[2]>>,
                                    overwrite |-> overwrite]])
       /\ Quiet /\ UNCHANGED <<pages, cli, steps>>

SaveTrackerWorker == EditWorker("save_tracker", tracker.loaded)

TrackerSaved ==
    /\ Returns("save_tracker")
    /\ task' = None
    /\ tracker' = IF task.result = Refused THEN tracker ELSE [tracker EXCEPT !.loaded = task.result]
    /\ Quiet /\ UNCHANGED <<inspect, modify, cli, steps>>

-----------------------------------------------------------------------------
(* The batch over a folder *)

\* The names are listed once and sorted.
BatchList ==
    /\ Works("batch") /\ job.next = 0
    /\ IF task.cancelled THEN Done(Refused)
       ELSE task' = [task EXCEPT !.job.next = 1,
                       !.job.names = SetToSeq({n \in Names : files[<<job.folder, n>>] # None})]
    /\ Quiet /\ UNCHANGED <<pages, cli, steps>>

BatchPath == <<job.folder, job.names[job.next]>>
BatchRequest ==
    [target |-> IF job.output = None THEN None ELSE <<job.output, BatchPath[2]>>,
     overwrite |-> job.overwrite]

\* What is held of a torrent when the batch is through with it, Refused if that failed.
Converted(loaded, request, fails) ==
    LET edited == edit(loaded, job.actions)
    IN IF edited = Refused THEN Refused
       ELSE IF job.dry \/ edited.disposition # "Applied" THEN loaded
       ELSE IF fails THEN Refused
       ELSE save(edited.loaded, request)

\* Mutant: the first torrent that fails ends the batch.
BatchFile_StopsAtFailure ==
    /\ Works("batch") /\ job.next \in DOMAIN job.names /\ ~task.cancelled
    /\ IF Loads(files[BatchPath], "lenient")
       THEN \E saved \in {Converted(LoadFrom(BatchPath, "lenient"), BatchRequest, FALSE)} :
              /\ task' = [task EXCEPT !.job.next = @ + 1]
              /\ Write(LoadFrom(BatchPath, "lenient"), saved, "batch", job.actions, job.shown)
       ELSE /\ task' = [task EXCEPT !.job.next = Len(job.names) + 1,
                                    !.job.failures = @ \cup {job.names[job.next]}]
            /\ Quiet
    /\ UNCHANGED <<pages, cli, steps>>

\* One torrent is loaded, edited and saved; a failure is noted and the batch goes on.  A torrent
\* that has the trackers already is processed without being written, to another folder neither.
BatchFile ==
    /\ Works("batch") /\ job.next \in DOMAIN job.names /\ ~task.cancelled
    /\ \E fails \in BOOLEAN, loads \in {Loads(files[BatchPath], "lenient")} :
       \E loaded \in {IF loads THEN LoadFrom(BatchPath, "lenient") ELSE Refused} :
       \E saved \in {IF loads THEN Converted(loaded, BatchRequest, fails) ELSE Refused} :
        /\ fails => saved = Refused
        /\ task' = [task EXCEPT !.job.next = @ + 1,
                      !.job.failures = IF saved = Refused THEN @ \cup {job.names[job.next]} ELSE @]
        /\ Write(loaded, saved, "batch", job.actions, job.shown)
    /\ UNCHANGED <<pages, cli, steps>>

\* The end of the list, or the token was seen cancelled before the next torrent.
BatchEnds ==
    /\ Works("batch") /\ job.next > 0
    /\ IF job.next > Len(job.names) THEN Done(job.folder) ELSE task.cancelled /\ Done(Refused)
    /\ Quiet /\ UNCHANGED <<pages, cli, steps>>

BatchReported == Returns("batch") /\ task' = None /\ Quiet /\ UNCHANGED <<pages, cli, steps>>

-----------------------------------------------------------------------------
(* Command lines *)

\* tracker replace: the URLs by the tier named after each, tiers in the order of their numbers.
ReplaceList(entries) ==
    LET numbers == {entries[k][1] : k \in DOMAIN entries}
        urls == [k \in DOMAIN entries |-> entries[k][2]]
    IN [t \in 1 .. Cardinality(numbers) |->
          CreateTier(Pick(urls, {k \in DOMAIN entries : entries[k][1] = Nth(numbers, t)}))]

\* tracker add: into a tier that is there, or as the next one.
AddActions(list, t, url) ==
    IF t \in DOMAIN list THEN <<Act("add_to_tier", <<t, url>>)>>
    ELSE IF t = Len(list) + 1 THEN <<Act("add_tier", <<url>>)>>
    ELSE Refused

CliActions(command, loaded) ==
    CASE command.kind = "add"     -> AddActions(loaded.document.trackers, command.tier, command.url)
      [] command.kind = "replace" -> <<Act("trackers", ReplaceList(command.entries))>>
      [] command.kind = "remove"  -> <<Act("remove", <<command.tier, command.index>>)>>
      [] OTHER                    -> command.actions      \* metadata set and clear, a client

CliLoad(command) ==
    /\ Step /\ cli = None
    /\ Loads(files[command.path], "lenient")
    /\ cli' = [command |-> command, loaded |-> LoadFrom(command.path, "lenient")]
    /\ Quiet /\ UNCHANGED <<pages, task>>

\* Edit, and unless it is a dry run save, a document that did not change included.
CliSave ==
    /\ cli # None
    /\ cli' = None
    /\ \E actions \in {CliActions(cli.command, cli.loaded)} :
       \E edited \in {IF actions \in {Refused, <<>>} THEN Refused ELSE edit(cli.loaded, actions)} :
       \E saved \in {IF \/ edited = Refused \/ cli.command.dry
                        \/ edited.disposition = "NeedRebuild"
                     THEN Refused
                     ELSE save(edited.loaded, [target |-> None, overwrite |-> FALSE])} :
          /\ Write(cli.loaded, saved, "cli", actions, None)
          /\ task' = IF task # None /\ task.kind = "batch" /\ files' # files
                     THEN [task EXCEPT !.job.disturbed = TRUE] ELSE task
    /\ UNCHANGED <<pages, steps>>

-----------------------------------------------------------------------------
Worker == \/ LoadWorker \/ ValidateWorker \/ FolderWorker \/ SaveModifyWorker \/ SaveTrackerWorker
          \/ BatchList \/ BatchFile \/ BatchEnds

Window == \/ InspectLoaded \/ Validated \/ ModifyLoaded \/ ModifySaved
          \/ FolderLoaded \/ TrackerLoaded \/ TrackerSaved \/ BatchReported

User == \/ \E path \in Opened \cap Paths : InspectOpen(path)
        \/ Validate
        \/ \E path \in (Opened \cap Paths) \cup {None} : ModifyOpen(path)
        \/ \E typed \in Typed : ModifyType(typed)
        \/ ModifyRows
        \/ \E dry \in BOOLEAN : SaveModify(dry)
        \/ \E path \in Opened : TrackerOpen(path)
        \/ TrackerRows \/ TrackerOutput
        \/ \E dry \in BOOLEAN : SaveTracker(dry)
        \/ CancelTask

CommandLine == CliSave \/ \E command \in CliCommands : CliLoad(command)

Next == User \/ Worker \/ Window \/ CommandLine

Spec == Init /\ [][Next]_vars

-----------------------------------------------------------------------------
(* Properties *)

View(document) ==
    [name |-> document.info.name, private |-> document.info.private,
     comment |-> document.metadata.comment, creator |-> document.metadata.creator,
     source |-> document.metadata.source, date |-> document.metadata.date,
     web_seeds |-> document.metadata.web_seeds, trackers |-> document.trackers]

InspectPages == [path : Paths \cup {None}, loaded : Snapshots \cup {None}, trackers : Lists]
ModifyPages ==
    [path : Paths \cup {None}, loaded : Snapshots \cup {None}, fields : Fields, custom : BOOLEAN,
     dated : BOOLEAN, clear : SUBSET Clears, rows : Rows, output : Paths \cup {None},
     auto : Paths \cup {None}, origin : Paths \cup {None}, unread : BOOLEAN]
TrackerPages ==
    [path : Paths \cup Dirs \cup {None}, loaded : Snapshots \cup {None}, folder : Dirs \cup {None},
     rows : Rows, output : Dirs \cup {None}, auto : Dirs \cup {None},
     origin : Paths \cup Dirs \cup {None}, unread : BOOLEAN]

\* What the tasks of each kind are given and return, and the page they run for.
LoadTyped ==
    /\ job \in [path : Paths, mode : Modes]
    /\ task.result = Refused \/ (task.result \in Snapshots /\ task.result.source = job.path)
FolderTyped == job \in [path : Dirs] /\ task.result \in Dirs \cup {Refused}
SaveTyped(page) ==
    /\ job \in [actions : Seq(Actions), dry : BOOLEAN, shown : {job.shown},
                request : [target : Paths \cup {None}, overwrite : BOOLEAN]]
    /\ page.loaded # None /\ task.result \in Snapshots \cup {Refused}
BatchTyped ==
    /\ job \in [actions : Seq(Actions), dry : BOOLEAN, shown : {job.shown}, folder : Dirs,
                output : Dirs \cup {None}, overwrite : BOOLEAN, names : Seq(Names), next : Nat,
                failures : SUBSET Names, disturbed : BOOLEAN]
    /\ \E list \in {job.actions[1].value} : list \in Lists /\ job.actions = <<Act("trackers", list)>>
    /\ task.result = Refused \/ (task.result \in Dirs /\ job.next > Len(job.names))
TaskTyped ==
    /\ task \in [kind : {"load_inspect", "load_modify", "load_tracker", "load_folder", "validate",
                         "save_modify", "save_tracker", "batch"},
                 job : {job}, done : BOOLEAN, cancelled : BOOLEAN, result : {task.result}]
    /\ task.kind \in {"load_inspect", "load_modify", "load_tracker"} => LoadTyped
    /\ task.kind = "load_folder" => FolderTyped
    /\ task.kind = "validate" => task.result = Refused
    /\ task.kind = "save_modify" => SaveTyped(modify)
    /\ task.kind = "save_tracker" => SaveTyped(tracker)
    /\ task.kind = "batch" => BatchTyped

TypeOK ==
    /\ files \in [Paths -> Files]
    /\ inspect \in InspectPages /\ modify \in ModifyPages /\ tracker \in TrackerPages
    /\ task # None => TaskTyped
    /\ cli = None \/ cli \in [command : CliCommands, loaded : Snapshots]
    /\ steps \in 0 .. MaxSteps

Held == {inspect.loaded, modify.loaded, tracker.loaded, IF cli = None THEN None ELSE cli.loaded,
         IF task = None THEN None ELSE task.result} \cap Snapshots

\* A document in memory, read or saved, says what the bytes it is held with say, and would be
\* written as these: so "nothing changed" and the check for others' changes are about the file.
HeldSnapshots ==
    \A loaded \in Held :
        /\ encode_patch(loaded.document) = loaded.original
        /\ Loads(loaded.original, loaded.document.mode)
        /\ Loads(loaded.document.retained, loaded.document.mode)
        /\ View(decode_torrent(loaded.original, loaded.document.mode)) = View(loaded.document)
        /\ ~NeedsRebuild(loaded.document)

\* A list survives its export, its JSON document and the table of a page.
ListsSurvive ==
    \A loaded \in Held :
        LET list == loaded.document.trackers
        IN /\ ImportText(ExportText(list)) = list
           /\ ImportJson(ExportJson(list)) = list
           /\ tracker_list_from_model(populate_tracker_model(list)) = list

-----------------------------------------------------------------------------
(* What an edit asks for, stated without the engine: a list or tier that moves is written down
   place by place. *)

Moved(s, i, d) ==
    LET rest == Pick(s, DOMAIN s \ {i})
    IN [k \in DOMAIN s |-> IF k < d THEN rest[k] ELSE IF k = d THEN s[i] ELSE rest[k - 1]]

TrackerActions == {"trackers", "add_to_tier", "add_tier", "remove", "move", "move_within",
                   "move_tier"}

RequestedTrackers(list, action) ==
    LET arg == action.value
    IN CASE action.kind = "trackers"    -> arg
         [] action.kind = "add_to_tier" -> MakeList([list EXCEPT ![arg[1]] = Append(@, arg[2])])
         [] action.kind = "add_tier"    -> Append(list, arg)
         [] action.kind = "remove"      -> MakeList([list EXCEPT ![arg[1]] = RemoveAt(@, arg[2])])
         [] action.kind = "move"        ->
              MakeList([list EXCEPT ![arg[1]] = RemoveAt(@, arg[2]),
                                    ![arg[3]] = Append(@, list[arg[1]][arg[2]])])
         [] action.kind = "move_within" -> [list EXCEPT ![arg[1]] = Moved(@, arg[2], arg[3])]
         [] action.kind = "move_tier"   -> [t \in DOMAIN list |->
              list[CHOOSE s \in DOMAIN list : Moved([u \in DOMAIN list |-> u], arg[1], arg[2])[t] = s]]
         [] OTHER -> list

\* A source that is cleared uncovers the one of the top level.
Request(view, torrent, action) ==
    IF action.kind \in TrackerActions
    THEN [view EXCEPT !.trackers = RequestedTrackers(@, action)]
    ELSE IF action.kind = "private" THEN [view EXCEPT !.private = action.value = 1]
    ELSE IF action.kind = "source" /\ action.value = None
    THEN [view EXCEPT !.source = read_optional_text(torrent.source)]
    ELSE [view EXCEPT ![action.kind] = action.value]

Requested(view, torrent, actions) ==
    LET views[k \in 0 .. Len(actions)] ==
          IF k = 0 THEN view ELSE Request(views[k - 1], torrent, actions[k])
    IN views[Len(actions)]

\* Whatever is written reads back as what the file said before with the edits asked for, whoever
\* wrote it, after however many saves of one document.
ReopensAsEdited ==
    written # None =>
        /\ Loads(written.torrent, written.mode)
        /\ View(decode_torrent(written.torrent, written.mode)) =
             Requested(View(decode_torrent(written.before, written.mode)), written.before,
                       written.actions)

\* A key is rewritten only if what it says changed: bytes that are no text, bad URLs, a second
\* key of seeds and unknown keys of the file survive every other edit.
KeepsTheRest ==
    written # None =>
        LET old == written.before
            new == written.torrent
            before == View(decode_torrent(old, written.mode))
            after == View(decode_torrent(new, written.mode))
            Asked(field) == \E k \in DOMAIN written.actions : written.actions[k].kind = field
        IN /\ new.comment # old.comment => after.comment # before.comment
           /\ new.creator # old.creator => after.creator # before.creator
           /\ <<new.url_list, new.httpseeds>> # <<old.url_list, old.httpseeds>> =>
                after.web_seeds # before.web_seeds
           /\ <<new.announce, new.announce_list>> # <<old.announce, old.announce_list>> =>
                after.trackers # before.trackers
           /\ <<new.source, new.unknown, new.info.sorted>> =
                <<old.source, old.unknown, old.info.sorted>>
           /\ \A field \in {"name", "private", "source"} :
                new.info[field] # old.info[field] => Asked(field)

\* When a batch was not cancelled, every torrent of the folder is reported as failed or has the
\* trackers asked for: at its target, or already before, and then it is not written elsewhere.
HasThem(path) ==
    /\ Loads(files[path], "lenient")
    /\ read_trackers(files[path]) = job.actions[1].value
IsConverted(name) ==
    HasThem(<<job.folder, name>>) \/ (job.output # None /\ HasThem(<<job.output, name>>))
BatchConvertsFolder ==
    Returns("batch") /\ task.result # Refused /\ ~job.dry /\ ~job.disturbed =>
        \A name \in Names :
            files[<<job.folder, name>>] # None => name \in job.failures \/ IsConverted(name)

\* A page saves the torrent whose path it shows, as it shows it, unless that path was set while
\* a task ran or could not be loaded: then the torrent loaded before is what is saved.  Seeds
\* typed or loaded under a ticked Clear box are the one field left out.
SavesWhatIsShown ==
    written # None /\ written.by # "cli" =>
        LET shown == written.shown
            view == View(decode_torrent(written.torrent, written.mode))
        IN /\ shown.path = shown.origin \/ shown.unread
           /\ \A field \in DOMAIN shown.view : view[field] = shown.view[field]

\* "Explicitly clear individual metadata fields": what the Modify page saves with the Clear box
\* of the web seeds ticked has no web seeds.
ClearedSeedsAreGone ==
    written # None /\ written.by # "cli" /\ "web_seeds" \in written.shown.clear =>
        View(decode_torrent(written.torrent, written.mode)).web_seeds = <<>>

-----------------------------------------------------------------------------
(* The inductive invariant *)

\* What a save is told and what its page showed.
AsksForWhatIsShown(loaded) ==
    LET view == View(loaded.document)
        asked == Requested(view, loaded.original, job.actions)
        shown == job.shown
    IN /\ shown.path = shown.origin \/ shown.unread
       /\ \A field \in DOMAIN shown.view : field \in DOMAIN view /\ asked[field] = shown.view[field]

\* A page knows whether it shows the path of what it holds.
PathsShown ==
    /\ modify.loaded # None => modify.path = modify.origin \/ modify.unread
    /\ tracker.loaded # None \/ tracker.folder # None => tracker.path = tracker.origin \/ tracker.unread

SavesAsShown ==
    task # None =>
        /\ task.kind = "save_modify" /\ ~task.done => AsksForWhatIsShown(modify.loaded)
        /\ task.kind = "save_tracker" /\ ~task.done => AsksForWhatIsShown(tracker.loaded)
        /\ task.kind = "batch" =>
             /\ job.shown.path = job.shown.origin \/ job.shown.unread
             /\ job.shown.view = [trackers |-> job.actions[1].value]

\* What a batch has done, unless a command line wrote a torrent meanwhile.
BatchSoFar ==
    task # None /\ task.kind = "batch" /\ job.next > 0 /\ ~job.dry /\ ~job.disturbed =>
        /\ ToSet(job.names) = {n \in Names : files[<<job.folder, n>>] # None}
        /\ IsInjective(job.names)
        /\ \A k \in DOMAIN job.names : k < job.next =>
             job.names[k] \in job.failures \/ IsConverted(job.names[k])

IInv ==
    /\ TypeOK /\ HeldSnapshots /\ ListsSurvive
    /\ PathsShown /\ SavesAsShown /\ BatchSoFar
=============================================================================
