------------------------------ MODULE Settings ------------------------------
(***************************************************************************)
(* Configuration documents and the settings they mean                      *)
(* (src/frontend.cpp): parsing with its two dialects, the overlay of       *)
(* presets on defaults, and what a create makes of the result.             *)
(*                                                                         *)
(* A value is a string: "missing" for no member, "bad" for one of the      *)
(* wrong type, "" for an empty text, "[]" for no tiers.  The member        *)
(* format stands for every setting chosen from a list (format, file_order, *)
(* file_filter, piece_size, private), comment for every text (comment,     *)
(* source), tracker_tiers for the lists; a tracker_list is named as the    *)
(* one tier it means.  machine stands for verify, disk_io and              *)
(* memory_working_set_limit.                                               *)
(***************************************************************************)
CONSTANTS
    Names,      \* preset names
    Texts,      \* what a member may hold
    None        \* no object where one may be

Missing == "missing"
Members == {"format", "tracker_list", "tracker_tiers", "comment", "created_by"}
Fields == {"format", "trackers", "comment", "created_by"}

EmptyObject == [m \in Members |-> Missing]
NoSettings == [f \in Fields |-> Missing]
First(value, otherwise) == IF value = Missing THEN otherwise ELSE value

\* A document: canonical says that it has the schema member.  A legacy document keeps its
\* settings at the root, here in defaults as well.
FreshDocument ==
    [canonical |-> TRUE, defaults |-> EmptyObject, presets |-> [n \in Names |-> None],
     default_preset |-> Missing, gui_default_preset |-> Missing, machine |-> Missing,
     language |-> Missing, recent |-> Missing]

\* What a document is, loaded or not.
Documents ==
    [canonical : BOOLEAN, defaults : [Members -> Texts],
     presets : [Names -> [Members -> Texts] \cup {None}], default_preset : Texts,
     gui_default_preset : Texts, machine : Texts, language : Texts, recent : Texts]

\* The values the code falls back on are some of them, and the name of a preset is not empty
\* (valid_preset_name).
ASSUME TextsAssumption ==
    {Missing, "", "[]", "hybrid", "TorrentCraft", "builtin", "en"} \subseteq Texts
ASSUME NamesAssumption == Names \subseteq Texts \ {"", Missing}
ASSUME NoneAssumption ==
    None \notin Documents \cup [Members -> Texts] \cup [Fields -> Texts]

\* parse_settings_object; only the canonical dialect knows format and tracker_tiers, which
\* win over a tracker_list.
ParseSettings(object, canonical) ==
    [format |-> IF canonical THEN object.format ELSE Missing,
     trackers |-> First(IF canonical THEN object.tracker_tiers ELSE Missing,
                        object.tracker_list),
     comment |-> object.comment,
     created_by |-> object.created_by]

Sound(object, canonical) ==
    \A m \in Members : object[m] = "bad" => ~canonical /\ m \in {"format", "tracker_tiers"}

\* parse_config_json succeeds.
Parses(doc) ==
    /\ Sound(doc.defaults, doc.canonical)
    /\ IF doc.canonical
       THEN /\ \A n \in Names : doc.presets[n] # None => Sound(doc.presets[n], TRUE)
            /\ "bad" \notin {doc.default_preset, doc.machine}
       ELSE doc.machine = Missing

Defaults(doc) == ParseSettings(doc.defaults, doc.canonical)

PresetNames(doc) ==
    IF doc.canonical THEN {n \in Names : doc.presets[n] # None} ELSE {}

Preset(doc, name) == ParseSettings(doc.presets[name], TRUE)

\* The fallback preset; the legacy place is read when the top-level member is missing.
DefaultPreset(doc) ==
    IF doc.canonical THEN First(doc.default_preset, doc.gui_default_preset) ELSE Missing

OverlaySettings(lower, higher) == [f \in Fields |-> First(higher[f], lower[f])]

\* What the adapter makes of the settings: an empty comment is left out like a missing one.
ResolveSettings(settings) ==
    [format |-> First(settings.format, "hybrid"),
     trackers |-> First(settings.trackers, "[]"),
     comment |-> First(settings.comment, ""),
     created_by |-> First(settings.created_by, "TorrentCraft")]

\* The defaults with the preset of that name, if there is one.
WithPreset(doc, name) ==
    IF name \in PresetNames(doc) THEN OverlaySettings(Defaults(doc), Preset(doc, name))
                                 ELSE Defaults(doc)

\* create on the command line: preset "" stands for no --preset, for which the fallback is
\* taken if it exists; a preset file is already parsed; None stands for a refusal.
ResolveCreateSettings(doc, preset, file, options) ==
    LET named == IF preset # "" THEN WithPreset(doc, preset)
                 ELSE IF file # NoSettings THEN Defaults(doc)
                 ELSE WithPreset(doc, DefaultPreset(doc))
    IN IF preset \in PresetNames(doc) \cup {""}
       THEN ResolveSettings(OverlaySettings(OverlaySettings(named, file), options))
       ELSE None
=============================================================================
