------------------------------ MODULE ConfigFile ------------------------------
(***************************************************************************)
(* The edits of a configuration document (ConfigFile in                    *)
(* src/config_store.cpp).  An edit is an operator from a document to the   *)
(* edited document, or to None when it is refused; a refused edit leaves   *)
(* the document alone.                                                     *)
(***************************************************************************)
EXTENDS Settings

Checked(doc) == IF Parses(doc) THEN doc ELSE None

\* Only members the patch has are written; nothing is ever erased but a tracker_list that
\* tiers replace.
ApplyPatch(object, patch) ==
    [m \in Members |->
        CASE m = "tracker_tiers" -> First(patch.trackers, object[m])
          [] m = "tracker_list" -> IF patch.trackers = Missing THEN object[m] ELSE Missing
          [] OTHER -> First(patch[m], object[m])]

SetDefaults(doc, patch) == Checked([doc EXCEPT !.defaults = ApplyPatch(@, patch)])

AddPreset(doc, name, patch, overwrite) ==
    IF doc.canonical /\ (overwrite \/ doc.presets[name] = None)
    THEN Checked([doc EXCEPT !.presets[name] = ApplyPatch(EmptyObject, patch)])
    ELSE None

\* The default preset may go on naming what was removed.
RemovePreset(doc, name) ==
    IF name \in PresetNames(doc) THEN Checked([doc EXCEPT !.presets[name] = None]) ELSE None

\* Settings the root of a legacy document cannot hold.
RequiresCanonical(setting) == setting \in {"format", "tracker_tiers"}

\* Mutant: the edited document is not parsed before it is kept.
SetKey_Unchecked(doc, key, value) ==
    CASE key.scope = "defaults" ->
            IF RequiresCanonical(key.setting) /\ ~doc.canonical THEN None
            ELSE [doc EXCEPT !.defaults[key.setting] = value]
      [] OTHER -> None

\* set_key; the value "missing" erases the member.  A preset comes into being with its
\* first member, and setting default_preset drops its legacy place.
SetKey(doc, key, value) ==
    CASE key.scope = "defaults" ->
            IF RequiresCanonical(key.setting) /\ ~doc.canonical THEN None
            ELSE Checked([doc EXCEPT !.defaults[key.setting] = value])
      [] key.scope = "preset" /\ doc.canonical ->
            Checked([doc EXCEPT !.presets[key.name] =
                       [IF @ = None THEN EmptyObject ELSE @ EXCEPT ![key.setting] = value]])
      [] key.scope = "default_preset" /\ doc.canonical ->
            Checked([doc EXCEPT !.default_preset = value, !.gui_default_preset = Missing])
      [] key.scope = "machine" /\ doc.canonical -> Checked([doc EXCEPT !.machine = value])
      [] OTHER -> None

SetGuiLanguage(doc, language) == Checked([doc EXCEPT !.language = language])

\* Mutant: the legacy place of the default preset is not read.
GuiPreferences_NoLegacy(doc) ==
    [default_preset |-> doc.default_preset, recent |-> doc.recent, specified |-> FALSE]

\* gui_preferences, as far as it is kept here.
GuiPreferences(doc) ==
    [default_preset |-> First(doc.default_preset, doc.gui_default_preset),
     recent |-> doc.recent, specified |-> FALSE]

\* set_gui_preferences; a specified save location without its path is refused.  The default
\* preset moves from its legacy place to the top.
SetGuiPreferences(doc, preferences) ==
    IF preferences.specified THEN None
    ELSE Checked([doc EXCEPT !.default_preset = preferences.default_preset,
                             !.gui_default_preset = Missing,
                             !.recent = preferences.recent])
=============================================================================
