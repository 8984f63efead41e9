----------------------------- MODULE ConfigSession -----------------------------
(***************************************************************************)
(* The configuration as command-line processes and one window share it     *)
(* (src/config_store.cpp, src/cli/cli.cpp, src/gui/MainWindow.cpp).  Every *)
(* access to a file is a step of its own: the size and the content of a    *)
(* file are read separately, whoever has loaded a document edits and saves *)
(* it later, a file operation may fail, and a process may be killed.       *)
(*                                                                         *)
(* A command line loads, edits once, saves and exits.  The window keeps    *)
(* its document for as long as it is open, and a form filled from it, and  *)
(* saves the whole document whenever anything of it changes.  Temporary    *)
(* names are taken to be unique: each carries a clock tick.                *)
(***************************************************************************)
EXTENDS ConfigFile, Naturals, Sequences

CONSTANTS
    Clis,        \* command-line processes
    Gui,         \* the window
    SearchPath,  \* the paths a configuration is looked for on, in order: the working directory,
                 \* the one of the executable, the user's
    UserPath,    \* the last of them
    Starts,      \* what may be on disk in the beginning
    Commands,    \* what a process may be told to do
    GuiCommands, \* what the user may do in the window
    Typed,       \* what the user may type: pairs of a field and a value
    MaxSteps     \* bound on the user's actions in the window

Actors == Clis \cup {Gui}
Paths == {SearchPath[i] : i \in DOMAIN SearchPath}

ASSUME ConfigAssumption ==
    /\ Gui \notin Clis /\ UserPath \in Paths /\ None \notin Paths /\ MaxSteps \in Nat
    /\ SearchPath \in Seq(Paths)

ASSUME StartsAssumption == Starts \subseteq [Paths -> Documents \cup {None}]

\* What the command line may be told: a key is parsed before it is used.
CommandKinds == {"init", "set", "add", "remove"}
Keys ==
    [scope : {"defaults"}, name : {""}, setting : Members]
    \cup [scope : {"preset"}, name : Names, setting : Members]
    \cup [scope : {"none", "default_preset", "machine"}, name : {""}, setting : {""}]
CommandOps ==
    [kind : CommandKinds, path : Paths \cup {None}, key : Keys, value : Texts, name : Names,
     patch : [Fields -> Texts], dry : BOOLEAN, backup : BOOLEAN, force : BOOLEAN,
     created : BOOLEAN]
ASSUME CommandsAssumption == Commands \subseteq {cmd \in CommandOps : ~cmd.created}

\* What the user may do in the window: its lists and texts have no value of a wrong type.
GuiKinds == {"reload", "initialize", "language", "remember", "import", "save", "delete", "apply"}
GuiOps ==
    [kind : GuiKinds, path : Paths, name : Names, patch : [Fields -> Texts \ {"bad"}],
     value : Texts, machine : Texts \ {"bad"}, default_preset : Texts, pathless : BOOLEAN,
     created : BOOLEAN]
ASSUME GuiCommandsAssumption == GuiCommands \subseteq {cmd \in GuiOps : ~cmd.created}

ASSUME TypedAssumption == Typed \subseteq [field : Fields, value : Texts \ {Missing}]

VARIABLES
    fs,      \* the document at each path, or None
    proc,    \* each actor: pc, op (what it is doing), path (to which file), seen (the
             \* document whose size it read), mem (the document it has loaded and edited),
             \* home (where that came from), backup (the copy its --backup made)
    stale,   \* <<actor, path>>: the file was replaced since the actor loaded or saw it (history)
    form,    \* the fields of the Create page
    custom,  \* its checkbox for a creator of one's own
    active,  \* the preset named in the title, or ""
    edits,   \* what was typed since the form was filled (history)
    fresh,   \* the form was filled from the document and the preset (history)
    advanced,\* the Advanced page, as it was filled (filled: it was, a history)
    unsaved, \* the window's document has edits that were refused or not saved (history)
    steps    \* actions of the user so far

window == <<form, custom, active, edits, fresh, advanced, unsaved>>
vars == <<fs, proc, stale, window, steps>>

Idle == [kind |-> "none"]
Start == [kind |-> "reload", created |-> FALSE]     \* the window's first load
Blank(label) == [pc |-> label, op |-> Idle, path |-> None, seen |-> None, mem |-> None,
                 home |-> None, backup |-> None]
BlankForm == [format |-> "hybrid", trackers |-> "[]", comment |-> "", created_by |-> ""]
BlankAdvanced == [fields |-> BlankForm, machine |-> "builtin", default_preset |-> "",
                  filled |-> FALSE]

Init ==
    /\ fs \in Starts
    /\ proc = [a \in Actors |-> Blank(IF a = Gui THEN "starting" ELSE "idle")]
    /\ stale = {}
    /\ form = BlankForm /\ custom = FALSE /\ active = "" /\ edits = NoSettings /\ fresh = FALSE
    /\ advanced = BlankAdvanced /\ unsaved = FALSE
    /\ steps = 0

At(a, label) == proc[a].pc = label
Op(a) == proc[a].op
Mem(a) == proc[a].mem
OnDisk(a) == fs[proc[a].path]

Goto(a, label) == proc' = [proc EXCEPT ![a].pc = label]

\* The operation ends: a process exits, the window keeps its document.
End(a) ==
    proc' = [proc EXCEPT ![a] = IF a = Gui THEN [@ EXCEPT !.pc = "idle", !.op = Idle, !.seen = None]
                                         ELSE Blank("done")]

-----------------------------------------------------------------------------
(* Finding the file *)

FirstIn(S) ==
    IF \E i \in DOMAIN SearchPath : SearchPath[i] \in S
    THEN SearchPath[CHOOSE i \in DOMAIN SearchPath :
                      /\ SearchPath[i] \in S
                      /\ \A j \in 1 .. i - 1 : SearchPath[j] \notin S]
    ELSE None

Existing == {p \in Paths : fs[p] # None}

\* discover_config: the explicit path or the first one with a file, sound or not.
DiscoverConfig(explicit) ==
    IF explicit # None THEN IF explicit \in Existing THEN explicit ELSE None
    ELSE FirstIn(Existing)

\* config init without --config takes the first free place, or else the first.
InitTarget(explicit) ==
    IF explicit # None THEN explicit
    ELSE IF Paths \ Existing # {} THEN FirstIn(Paths \ Existing) ELSE SearchPath[1]

StartCommand(c) ==
    /\ At(c, "idle")
    /\ \E cmd \in Commands :
        LET p == IF cmd.kind = "init" THEN InitTarget(cmd.path) ELSE DiscoverConfig(cmd.path) IN
        IF p = None THEN End(c)
        ELSE proc' = [proc EXCEPT ![c].op = cmd, ![c].path = p,
                                  ![c].pc = IF cmd.kind = "init" THEN "creating" ELSE "sizing"]
    /\ UNCHANGED <<fs, stale, window, steps>>

-----------------------------------------------------------------------------
(* The Create page *)

\* apply_creation_settings with the defaults and that preset, or without a preset.
Fill(doc, name) ==
    /\ form' = ResolveSettings(WithPreset(doc, name))
    /\ custom' = (name \in PresetNames(doc) /\ Preset(doc, name).created_by # Missing)
    /\ active' = IF name \in PresetNames(doc) THEN name ELSE ""
    /\ edits' = NoSettings
    /\ fresh' = TRUE

\* The fallback preset as its list shows it.
Offered(doc) == IF DefaultPreset(doc) \in PresetNames(doc) THEN DefaultPreset(doc) ELSE ""

\* populate_advanced_configuration fills both pages.
Populate(doc) ==
    /\ Fill(doc, DefaultPreset(doc))
    /\ advanced' = [fields |-> ResolveSettings(Defaults(doc)),
                    machine |-> First(doc.machine, "builtin"),
                    default_preset |-> Offered(doc),
                    filled |-> TRUE]

Differing(value, default) == IF value = default THEN Missing ELSE value

\* Mutant: a cleared comment is taken for one that was not given.
PatchFromForm_OmitsEmpty(doc) ==
    LET given == Defaults(doc) IN
    [format |-> Differing(form.format, First(given.format, "hybrid")),
     trackers |-> Differing(form.trackers, First(given.trackers, "[]")),
     comment |-> IF form.comment = "" THEN Missing ELSE Differing(form.comment, given.comment),
     created_by |-> IF custom THEN form.created_by ELSE Missing]

\* creation_patch_from_create_form: what differs from the defaults.
PatchFromForm(doc) ==
    LET given == Defaults(doc)
        comment == IF form.comment = "" THEN Missing ELSE form.comment
    IN [format |-> Differing(form.format, First(given.format, "hybrid")),
        trackers |-> Differing(form.trackers, First(given.trackers, "[]")),
        comment |-> IF comment = given.comment THEN Missing ELSE form.comment,
        created_by |-> IF custom THEN form.created_by ELSE Missing]

\* What create_torrent takes: a creator that is not custom comes from the defaults.
CreateFromForm ==
    [form EXCEPT !.created_by =
        IF custom THEN @
        ELSE IF proc[Gui].mem = None THEN "TorrentCraft"
        ELSE First(Defaults(proc[Gui].mem).created_by, "TorrentCraft")]

-----------------------------------------------------------------------------
(* Loading *)

\* Where there is no file, a change of the language creates one.
Size(a) ==
    /\ At(a, "sizing")
    /\ CASE OnDisk(a) # None -> proc' = [proc EXCEPT ![a].pc = "reading", ![a].seen = OnDisk(a)]
         [] OnDisk(a) = None /\ Op(a).kind = "language" -> Goto(a, "creating")
         [] OTHER -> End(a)
    /\ UNCHANGED <<fs, stale, window, steps>>

\* A file replaced since its size was read may be cut short, and is then no JSON.
Read(a) ==
    /\ At(a, "reading")
    /\ \/ /\ Parses(OnDisk(a))
          /\ proc' = [proc EXCEPT ![a].mem = OnDisk(a), ![a].home = proc[a].path,
                                  ![a].seen = None, ![a].pc = "editing"]
          /\ stale' = stale \ {<<a, proc[a].path>>}
          /\ unsaved' = (a # Gui /\ unsaved)
       \/ /\ ~Parses(OnDisk(a)) \/ proc[a].seen # OnDisk(a)
          /\ End(a)
          /\ UNCHANGED <<stale, unsaved>>
    /\ UNCHANGED <<fs, form, custom, active, edits, fresh, advanced, steps>>

\* ConfigFile::create looks, and replaces what is there a moment later.
Create(a) ==
    /\ At(a, "creating")
    /\ IF OnDisk(a) # None /\ ~(a # Gui /\ Op(a).force)
       THEN End(a) /\ UNCHANGED stale
       ELSE Goto(a, "placing") /\ stale' = stale \ {<<a, proc[a].path>>}
    /\ UNCHANGED <<fs, window, steps>>

\* Who has a document from p, or has seen that there is none.
Others(a, p) ==
    {<<b, p>> : b \in {b \in Actors \ {a} :
                       proc[b].home = p \/ (At(b, "placing") /\ proc[b].path = p)}}

Place(a) ==
    /\ At(a, "placing")
    /\ fs' = [fs EXCEPT ![proc[a].path] = FreshDocument]
    /\ stale' = (stale \cup Others(a, proc[a].path)) \ {<<a, proc[a].path>>}
    /\ proc' = [proc EXCEPT ![a].op.created = TRUE, ![a].pc = "sizing"]
    /\ UNCHANGED <<window, steps>>

\* ConfigFile::save: everything before the rename is private to the caller.
Replace(a) ==
    /\ fs' = [fs EXCEPT ![proc[a].home] = Mem(a)]
    /\ stale' = (stale \cup Others(a, proc[a].home)) \ {<<a, proc[a].home>>}

-----------------------------------------------------------------------------
(* A command line *)

CommandEdit(cmd, doc) ==
    CASE cmd.kind = "set" -> SetKey(doc, cmd.key, cmd.value)
      [] cmd.kind = "add" -> AddPreset(doc, cmd.name, cmd.patch, cmd.force)
      [] cmd.kind = "remove" -> RemovePreset(doc, cmd.name)

EditCommand(c) ==
    /\ At(c, "editing")
    /\ IF Op(c).kind = "init" THEN End(c)
       ELSE LET doc == CommandEdit(Op(c), Mem(c)) IN
            IF doc = None \/ Op(c).dry THEN End(c)
            ELSE proc' = [proc EXCEPT ![c].mem = doc,
                                      ![c].pc = IF Op(c).backup THEN "backing" ELSE "saving"]
    /\ UNCHANGED <<fs, stale, window, steps>>

\* make_backup copies what is on disk now, not what was loaded.
MakeBackup(c) ==
    /\ At(c, "backing")
    /\ proc' = [proc EXCEPT ![c].backup = fs[proc[c].home], ![c].pc = "saving"]
    /\ UNCHANGED <<fs, stale, window, steps>>

SaveCommand(c) ==
    /\ At(c, "saving")
    /\ Replace(c)
    /\ End(c)
    /\ UNCHANGED <<window, steps>>

\* A file operation fails, or the process is killed.
Stop(c) ==
    /\ proc[c].pc \notin {"idle", "done"}
    /\ End(c)
    /\ UNCHANGED <<fs, stale, window, steps>>

-----------------------------------------------------------------------------
(* The window *)

\* At the start the window reloads what it discovers, or else shows the user's path.
StartUp ==
    LET p == DiscoverConfig(None) IN
    /\ At(Gui, "starting")
    /\ proc' = [proc EXCEPT ![Gui].path = IF p = None THEN UserPath ELSE p,
                            ![Gui].op = Start,
                            ![Gui].pc = IF p = None THEN "idle" ELSE "sizing"]
    /\ UNCHANGED <<fs, stale, window, steps>>

Tick == At(Gui, "idle") /\ steps < MaxSteps /\ steps' = steps + 1

\* Where a command begins: without a document, apply, import and save initialize one, and
\* language loads one.
FirstStep(kind) ==
    CASE kind = "reload" -> "sizing"
      [] kind = "initialize" -> "creating"
      [] OTHER -> IF Mem(Gui) # None THEN "editing"
                  ELSE IF kind = "language" THEN "sizing" ELSE "creating"

UserCommand ==
    /\ Tick
    /\ \E cmd \in GuiCommands :
        /\ cmd.kind = "remember" => Mem(Gui) # None
        /\ cmd.kind = "delete" => Mem(Gui) # None /\ cmd.name \in PresetNames(Mem(Gui))
        /\ proc' = [proc EXCEPT
              ![Gui].op = cmd, ![Gui].pc = FirstStep(cmd.kind),
              ![Gui].path = IF cmd.kind \in {"reload", "initialize"} THEN cmd.path ELSE @]
    /\ UNCHANGED <<fs, stale, window>>

\* initialize_configuration shows the new document, on both pages; what was typed there is
\* gone before the operation that needed the document goes on.
ShowInitialized ==
    /\ At(Gui, "editing") /\ Op(Gui).created
    /\ Populate(Mem(Gui))
    /\ IF Op(Gui).kind = "initialize" THEN End(Gui)
       ELSE proc' = [proc EXCEPT ![Gui].op =
                IF @.kind = "apply"
                THEN [@ EXCEPT !.created = FALSE, !.patch = NoSettings, !.machine = Missing,
                               !.default_preset = Missing, !.pathless = FALSE]
                ELSE [@ EXCEPT !.created = FALSE]]
    /\ UNCHANGED <<fs, stale, unsaved, steps>>

\* apply_advanced_configuration: every field of the page is written, except that a text
\* that is empty is not.  The preferences come last and may be refused.
Shown(cmd) ==
    [fields |-> OverlaySettings(advanced.fields, cmd.patch),
     machine |-> First(cmd.machine, advanced.machine),
     default_preset |-> First(cmd.default_preset, advanced.default_preset),
     filled |-> advanced.filled]

AppliedDefaults(doc, cmd) ==
    LET patch == [Shown(cmd).fields EXCEPT !.comment = IF @ = "" THEN Missing ELSE @] IN
    SetKey(SetDefaults(doc, patch), [scope |-> "machine"], Shown(cmd).machine)

Applied(doc, cmd) ==
    LET chosen == Shown(cmd).default_preset IN
    SetGuiPreferences(AppliedDefaults(doc, cmd),
        [default_preset |-> IF chosen = "" THEN Missing ELSE chosen,
         recent |-> doc.recent, specified |-> cmd.pathless])

WindowEdit(doc, cmd) ==
    CASE cmd.kind = "reload" -> SetGuiLanguage(doc, First(doc.language, "en"))
      [] cmd.kind = "language" -> SetGuiLanguage(doc, cmd.value)
      [] cmd.kind = "remember" ->
            SetGuiPreferences(doc, [GuiPreferences(doc) EXCEPT !.recent = cmd.value])
      [] cmd.kind = "import" -> AddPreset(doc, cmd.name, cmd.patch, TRUE)
      [] cmd.kind = "save" -> AddPreset(doc, cmd.name, PatchFromForm(doc), TRUE)
      [] cmd.kind = "delete" -> RemovePreset(doc, cmd.name)
      [] cmd.kind = "apply" -> IF doc.canonical THEN Applied(doc, cmd) ELSE None

\* A refused edit changes nothing, but an apply that is refused at its end has already
\* changed the defaults of the document in memory.
EditWindow ==
    /\ At(Gui, "editing") /\ ~Op(Gui).created
    /\ LET doc == WindowEdit(Mem(Gui), Op(Gui))
           half == doc = None /\ Op(Gui).kind = "apply" /\ Mem(Gui).canonical
       IN /\ proc' = [proc EXCEPT
                ![Gui].mem = IF doc # None THEN doc
                             ELSE IF half THEN AppliedDefaults(@, Op(Gui)) ELSE @,
                ![Gui].op = IF doc = None THEN Idle ELSE @,
                ![Gui].pc = IF doc = None THEN "idle" ELSE "saving"]
          /\ unsaved' = (unsaved \/ half)
          /\ fresh' = (fresh /\ ~half)
    /\ advanced' = IF Op(Gui).kind = "apply" THEN Shown(Op(Gui)) ELSE advanced
    /\ UNCHANGED <<fs, stale, form, custom, active, edits, steps>>

\* What the pages show after a save.
Saved(cmd, doc) ==
    CASE cmd.kind \in {"reload", "apply"} -> Populate(doc)
      [] cmd.kind = "import" -> Fill(doc, cmd.name) /\ UNCHANGED advanced
      [] cmd.kind = "save" ->
            /\ active' = cmd.name /\ edits' = NoSettings /\ fresh' = TRUE
            /\ UNCHANGED <<form, custom, advanced>>
      [] cmd.kind = "delete" ->
            /\ active' = IF active = cmd.name THEN "" ELSE active
            /\ fresh' = (fresh /\ active # cmd.name)
            /\ UNCHANGED <<form, custom, edits, advanced>>
      [] OTHER -> UNCHANGED <<form, custom, active, edits, fresh, advanced>>

\* A reload goes on to fill the pages although the language could not be saved.
SaveWindow ==
    /\ At(Gui, "saving")
    /\ \/ /\ Replace(Gui)
          /\ Saved(Op(Gui), Mem(Gui))
          /\ unsaved' = FALSE
       \/ /\ IF Op(Gui).kind = "reload" THEN Populate(Mem(Gui))
             ELSE fresh' = FALSE /\ UNCHANGED <<form, custom, active, edits, advanced>>
          /\ unsaved' = TRUE
          /\ UNCHANGED <<fs, stale>>
    /\ End(Gui)
    /\ UNCHANGED steps

\* The menu offers the presets of the document.
LoadPreset ==
    /\ Tick /\ Mem(Gui) # None
    /\ \E name \in PresetNames(Mem(Gui)) : Fill(Mem(Gui), name)
    /\ UNCHANGED <<fs, proc, stale, advanced, unsaved>>

\* The field of the creator can be typed in only when the box is checked.
TypeField ==
    /\ Tick
    /\ \E t \in Typed :
        /\ t.field = "created_by" => custom
        /\ form' = [form EXCEPT ![t.field] = t.value]
        /\ edits' = [edits EXCEPT ![t.field] = t.value]
    /\ UNCHANGED <<fs, proc, stale, custom, active, fresh, advanced, unsaved>>

\* Toggling the box fills in the creator of the active preset, or of the defaults.
ToggleCreator ==
    /\ Tick
    /\ custom' = ~custom
    /\ LET doc == Mem(Gui)
           given == IF doc = None THEN Missing ELSE Defaults(doc).created_by
           preset == IF doc # None /\ custom' /\ active \in PresetNames(doc)
                     THEN Preset(doc, active).created_by ELSE Missing
       IN form' = [form EXCEPT !.created_by = First(First(preset, given), "TorrentCraft")]
    /\ edits' = [edits EXCEPT !.created_by = Missing]
    /\ UNCHANGED <<fs, proc, stale, active, fresh, advanced, unsaved>>

\* clear_current_form leaves the lists of formats and orders as they are.
ClearForm ==
    /\ Tick
    /\ form' = [BlankForm EXCEPT !.format = form.format]
    /\ custom' = FALSE /\ active' = "" /\ fresh' = FALSE /\ edits' = NoSettings
    /\ UNCHANGED <<fs, proc, stale, advanced, unsaved>>

\* reset_advanced_configuration
ResetAdvanced ==
    /\ Tick /\ Mem(Gui) # None
    /\ Populate(Mem(Gui))
    /\ UNCHANGED <<fs, proc, stale, unsaved>>

Step(a) == Size(a) \/ Read(a) \/ Create(a) \/ Place(a)

CommandStep(c) ==
    StartCommand(c) \/ EditCommand(c) \/ MakeBackup(c) \/ SaveCommand(c) \/ Stop(c)

WindowStep ==
    \/ StartUp \/ UserCommand \/ ShowInitialized \/ EditWindow \/ SaveWindow
    \/ LoadPreset \/ TypeField \/ ToggleCreator \/ ClearForm \/ ResetAdvanced

Next == (\E a \in Actors : Step(a)) \/ (\E c \in Clis : CommandStep(c)) \/ WindowStep

Spec == Init /\ [][Next]_vars

-----------------------------------------------------------------------------
(* Properties *)

\* What a create from a document, a preset and no options would take.
Taken(doc, preset) == ResolveCreateSettings(doc, preset, NoSettings, NoSettings)

\* The fields of that preset (or, for "", of the fallback) an operation is asked to change,
\* with that Advanced page.
FieldOf(setting) ==
    IF setting \in {"tracker_list", "tracker_tiers"} THEN "trackers" ELSE setting
MayChange(cmd, page, doc, preset) ==
    LET chosen == IF preset = "" THEN DefaultPreset(doc) ELSE preset IN
    CASE cmd.kind \in {"add", "import", "save", "remove", "delete"} ->
            IF cmd.name = chosen THEN Fields ELSE {}
      [] cmd.kind = "apply" ->
            IF preset = "" /\ (cmd.default_preset # Missing \/ page.default_preset # Offered(doc))
            THEN Fields
            ELSE {f \in Fields : cmd.patch[f] # Missing}
      [] cmd.kind = "set" ->
            (CASE cmd.key.scope = "defaults" -> {FieldOf(cmd.key.setting)}
               [] cmd.key.scope = "preset" -> IF cmd.key.name = chosen THEN Fields ELSE {}
               [] cmd.key.scope = "default_preset" -> IF preset = "" THEN Fields ELSE {}
               [] OTHER -> {})
      [] OTHER -> {}

\* Only what was asked differs between two documents.
KeepsRest(before, after, cmd, page) ==
    /\ \A n \in Names \cup {""} :
          LET may == MayChange(cmd, page, before, n) IN
          \/ may = Fields
          \/ /\ Taken(before, n) # None <=> Taken(after, n) # None
             /\ Taken(before, n) # None =>
                   \A f \in Fields \ may : Taken(after, n)[f] = Taken(before, n)[f]
    /\ \/ First(after.machine, "builtin") = First(before.machine, "builtin")
       \/ cmd.kind = "set" /\ cmd.key.scope = "machine"
       \/ cmd.kind = "apply" /\ cmd.machine # Missing
    /\ First(after.language, "en") = First(before.language, "en") \/ cmd.kind = "language"
    /\ after.recent = before.recent \/ cmd.kind = "remember"

-----------------------------------------------------------------------------
(* The invariant *)

Stages == {"starting", "idle", "sizing", "reading", "creating", "placing", "editing", "backing",
           "saving", "done"}
Resting == {"starting", "idle", "done"}
Loading == {"sizing", "reading", "creating", "placing"}

\* The types of the files, of the actors and of the window.
Processes ==
    [pc : Stages, op : CommandOps \cup GuiOps \cup {Idle, Start}, path : Paths \cup {None},
     seen : Documents \cup {None}, mem : Documents \cup {None}, home : Paths \cup {None},
     backup : Documents \cup {None}]
Pages ==
    [fields : [Fields -> Texts \ {Missing, "bad"}], machine : Texts \ {Missing, "bad"},
     default_preset : Texts, filled : BOOLEAN]
TypeOK ==
    /\ fs \in [Paths -> Documents \cup {None}] /\ proc \in [Actors -> Processes]
    /\ stale \subseteq Actors \X Paths
    /\ form \in [Fields -> Texts \ {Missing}] /\ edits \in [Fields -> Texts]
    /\ custom \in BOOLEAN /\ fresh \in BOOLEAN /\ unsaved \in BOOLEAN
    /\ active \in Names \cup {""} /\ advanced \in Pages /\ steps \in Nat

\* A configuration on disk can be loaded unless it could not from the beginning.
FilesLoad ==
    \A p \in Paths : fs[p] # None => Parses(fs[p]) \/ \E start \in Starts : fs[p] = start[p]

Stale(a) == <<a, proc[a].home>> \in stale

\* A document in memory can be loaded, and its file is still there, whoever replaced it;
\* where a new configuration is about to be placed none was seen, or it may be replaced.
DocumentKept(a) ==
    /\ Mem(a) # None => Parses(Mem(a)) /\ proc[a].home \in Paths /\ fs[proc[a].home] # None
    /\ At(a, "reading") => OnDisk(a) # None
    /\ At(a, "placing") /\ <<a, proc[a].path>> \notin stale =>
         OnDisk(a) = None \/ (a # Gui /\ Op(a).force)

\* What a command line does at its stages, and what it has in memory.
CommandStages(c) ==
    /\ ~At(c, "starting")
    /\ proc[c].pc \notin Resting => Op(c) \in CommandOps /\ proc[c].path \in Paths
    /\ proc[c].pc \in {"creating", "placing"} => Op(c).kind = "init"
    /\ proc[c].pc \in {"backing", "saving"} => Op(c).kind # "init"
    /\ Mem(c) # None <=> proc[c].pc \in {"editing", "backing", "saving"}

\* What the window does at its stages: only a reload and an initialization load a second
\* document, and what was created is shown before it is edited.
WindowStages ==
    /\ ~At(Gui, "backing") /\ ~At(Gui, "done")
    /\ IF At(Gui, "starting") THEN Mem(Gui) = None ELSE proc[Gui].path \in Paths
    /\ proc[Gui].pc \in {"editing", "saving"} => Mem(Gui) # None
    /\ proc[Gui].pc \notin Resting =>
         /\ Op(Gui) \in GuiOps \cup {Start}
         /\ proc[Gui].pc \in {"creating", "placing"} => Op(Gui).kind # "reload"
         /\ Op(Gui).kind = "initialize" /\ proc[Gui].pc \notin {"creating", "placing"} =>
              Op(Gui).created
         /\ At(Gui, "saving") => ~Op(Gui).created
         /\ proc[Gui].pc \in Loading /\ Op(Gui).kind \notin {"reload", "initialize"} =>
              Mem(Gui) = None

\* As long as nobody else replaces the file, a command line edits what is on disk, will
\* change there what it was asked to, and its backup is what the save will replace.
CommandExact(c) ==
    ~Stale(c) =>
      /\ At(c, "editing") => Mem(c) = fs[proc[c].home]
      /\ proc[c].pc \in {"backing", "saving"} =>
           KeepsRest(fs[proc[c].home], Mem(c), Op(c), advanced)
      /\ At(c, "saving") /\ Op(c).backup => proc[c].backup = fs[proc[c].home]

\* As long as nobody else replaces the file and no edit failed, the window holds what is on
\* disk, and will change there what it was asked to; it places no configuration there.
WindowExact ==
    Mem(Gui) # None =>
      /\ At(Gui, "placing") => proc[Gui].path # proc[Gui].home
      /\ ~Stale(Gui) /\ ~unsaved /\ ~At(Gui, "saving") => Mem(Gui) = fs[proc[Gui].home]
      /\ ~Stale(Gui) /\ ~unsaved /\ At(Gui, "saving")
            /\ (Op(Gui).kind = "apply" => advanced.filled) =>
           KeepsRest(fs[proc[Gui].home], Mem(Gui), Op(Gui), advanced)

\* The fields, with or without a creator of one's own, show the settings of a document with
\* that preset, and what was typed; "" is no preset, when there is none to fall back on.
Shows(fields, own, doc, name, typed) ==
    LET shown == ResolveSettings(OverlaySettings(WithPreset(doc, name), typed)) IN
    /\ name \in PresetNames(doc) \/ (name = "" /\ DefaultPreset(doc) \notin PresetNames(doc))
    /\ \A f \in Fields \ {"created_by"} : fields[f] = shown[f]
    /\ IF own THEN fields.created_by = shown.created_by ELSE typed.created_by = Missing
FormShows(doc, name, typed) == Shows(form, custom, doc, name, typed)

\* The window has a document which its pages do not show yet.
ToBeShown ==
    /\ proc[Gui].pc \in {"editing", "saving"}
    /\ Op(Gui).kind = "reload" \/ Op(Gui).created

\* A form filled from the document shows it, with the active preset; between an edit and
\* its save it shows what it will be said to.
FormTrue ==
    /\ active # "" \/ fresh => Mem(Gui) # None
    /\ fresh /\ ~At(Gui, "saving") /\ ~ToBeShown => FormShows(Mem(Gui), active, edits)
    /\ At(Gui, "saving") =>
         CASE Op(Gui).kind = "save" -> FormShows(Mem(Gui), Op(Gui).name, NoSettings)
           [] Op(Gui).kind = "import" -> Op(Gui).name \in PresetNames(Mem(Gui))
           [] Op(Gui).kind = "delete" ->
                fresh /\ active # Op(Gui).name => FormShows(Mem(Gui), active, edits)
           [] Op(Gui).kind \in {"language", "remember"} ->
                fresh => FormShows(Mem(Gui), active, edits)
           [] OTHER -> TRUE

\* The Advanced page shows the defaults, but for a comment that was cleared.
PageShows(page, doc) ==
    /\ \A f \in Fields : LET shown == ResolveSettings(Defaults(doc))[f] IN
         page.fields[f] = shown \/ (f = "comment" /\ page.fields[f] = "")
    /\ page.machine = First(doc.machine, "builtin")
PageTrue ==
    /\ advanced.filled => Mem(Gui) # None
    /\ advanced.filled /\ ~ToBeShown /\ Mem(Gui).canonical => PageShows(advanced, Mem(Gui))

\* The files, the documents loaded from them and the pages filled from those belong together.
IInv ==
    /\ TypeOK /\ FilesLoad
    /\ \A a \in Actors : DocumentKept(a)
    /\ \A c \in Clis : CommandStages(c) /\ CommandExact(c)
    /\ WindowStages /\ WindowExact /\ FormTrue /\ PageTrue

\* A write changes what its operation was asked to change and nothing else, the fallback
\* preset that moves to its new place and the fields a page writes untouched included;
\* except that it undoes what others wrote since the document was loaded, carries edits of
\* the window that failed before, and that an apply writes the fallback preset of a page
\* filled before that preset came or went.  A new configuration replaces none.
WriteAsked ==
    \A a \in Actors :
        /\ At(a, "placing") /\ fs' # fs /\ <<a, proc[a].path>> \notin stale =>
              fs[proc[a].path] = None \/ (a # Gui /\ Op(a).force)
        /\ At(a, "saving") /\ proc'[a].pc # "saving" /\ fs' # fs
              /\ <<a, proc[a].home>> \notin stale
              /\ ~(a = Gui /\ (unsaved \/ (Op(a).kind = "apply" /\ ~advanced.filled))) =>
              KeepsRest(fs[proc[a].home], fs'[proc[a].home], Op(a), advanced)
WritesWhatWasAsked == [][WriteAsked]_vars

\* What the Create page would create with is what the command line would, given the active
\* preset and what was typed as options; a creator box that was unchecked skips the
\* preset's creator, as documented.
FrontendsAgree ==
    At(Gui, "idle") /\ Mem(Gui) # None /\ fresh
        /\ <<Gui, proc[Gui].home>> \notin stale /\ ~unsaved =>
        LET doc == fs[proc[Gui].home]
            cli == ResolveCreateSettings(doc, active, NoSettings, edits)
            skipped == ~custom /\ active # "" /\ Preset(doc, active).created_by # Missing
        IN /\ cli # None
           /\ \A f \in Fields : CreateFromForm[f] = cli[f] \/ (f = "created_by" /\ skipped)
           /\ active = DefaultPreset(doc) =>
                 ResolveCreateSettings(doc, "", NoSettings, edits) = cli
=============================================================================
