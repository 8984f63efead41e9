------------------------------ MODULE MCConfig ------------------------------
(* An instance of ConfigSession for TLC: a local and a user path, a command line, a window. *)
EXTENDS ConfigSession, TLC

CONSTANTS c1, gui, cwd, user

MCClis == {c1}
MCSearchPath == <<cwd, user>>
MCNames == {"p"}
MCTexts == {"missing", "bad", "", "[]", "t", "u", "c", "d", "e", "f", "p", "me", "you", "us",
            "hybrid", "v1", "TorrentCraft", "builtin", "slow", "fast", "en", "zh", "dir"}

Settings_(list, tiers, comment, creator) ==
    [EmptyObject EXCEPT !.tracker_list = list, !.tracker_tiers = tiers,
                        !.comment = comment, !.created_by = creator]
Legacy ==
    [FreshDocument EXCEPT !.canonical = FALSE,
        !.defaults = Settings_("t", Missing, "c", Missing), !.gui_default_preset = "p"]
Canonical ==
    [FreshDocument EXCEPT !.defaults = Settings_("t", Missing, "c", "me"),
        !.presets["p"] = Settings_(Missing, "[]", "", "you"), !.gui_default_preset = "p"]
Broken == [FreshDocument EXCEPT !.defaults.comment = "bad"]
MCStarts ==
    {cwd :> d @@ user :> None : d \in {Canonical, Legacy, None}} \cup
    {cwd :> None @@ user :> Canonical, cwd :> Broken @@ user :> Canonical}

Patch(trackers, comment, creator) ==
    [NoSettings EXCEPT !.trackers = trackers, !.comment = comment, !.created_by = creator]
Key(scope, name, setting) == [scope |-> scope, name |-> name, setting |-> setting]
Command(kind) ==
    [kind |-> kind, path |-> None, key |-> Key("none", "", ""), value |-> Missing, name |-> "p",
     patch |-> NoSettings, dry |-> FALSE, backup |-> FALSE, force |-> FALSE, created |-> FALSE]
Set(key, value) == [Command("set") EXCEPT !.key = key, !.value = value]
MCCommands ==
    {[Set(Key("defaults", "", "comment"), "d") EXCEPT !.backup = TRUE],
     Set(Key("defaults", "", "tracker_tiers"), "u"),
     Set(Key("defaults", "", "comment"), "bad"),
     Set(Key("preset", "p", "format"), "v1"),
     Set(Key("default_preset", "", ""), "p"),
     Set(Key("machine", "", ""), "slow"),
     [Command("add") EXCEPT !.patch = Patch("t", Missing, Missing)],
     [Command("remove") EXCEPT !.dry = TRUE],
     Command("remove"),
     Command("init"), [Command("init") EXCEPT !.path = cwd, !.force = TRUE]}

GuiCommand(kind) ==
    [kind |-> kind, path |-> user, name |-> "p", patch |-> NoSettings, value |-> Missing,
     machine |-> Missing, default_preset |-> Missing, pathless |-> FALSE, created |-> FALSE]
MCGuiCommands ==
    {GuiCommand("reload"), GuiCommand("initialize"), GuiCommand("save"), GuiCommand("delete"),
     [GuiCommand("language") EXCEPT !.value = "zh"],
     [GuiCommand("remember") EXCEPT !.value = "dir"],
     [GuiCommand("import") EXCEPT !.patch = Patch("t", "e", Missing)],
     GuiCommand("apply"),
     [GuiCommand("apply") EXCEPT !.patch = Patch("u", "", Missing), !.pathless = TRUE],
     [GuiCommand("apply") EXCEPT !.patch = Patch("u", "", "us"), !.machine = "fast"],
     [GuiCommand("apply") EXCEPT !.default_preset = ""]}
MCTyped == {[field |-> "comment", value |-> "f"], [field |-> "comment", value |-> ""],
            [field |-> "created_by", value |-> ""]}
=============================================================================
