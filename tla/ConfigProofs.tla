------------------------------ MODULE ConfigProofs ------------------------------
(***************************************************************************)
(* ConfigSession keeps IInv, both frontends agree and every write keeps    *)
(* what it was not asked to change, for any command lines, paths, presets, *)
(* texts and commands.                                                     *)
(***************************************************************************)
EXTENDS ConfigSession, FiniteSetTheorems, WellFoundedInduction, TLAPS

-----------------------------------------------------------------------------
(* Settings *)

Settings_ == [Fields -> Texts]

LEMMA RecordOfFields ==
  ASSUME NEW S, NEW a \in S, NEW b \in S, NEW c \in S, NEW d \in S
  PROVE  [format |-> a, trackers |-> b, comment |-> c, created_by |-> d] \in [Fields -> S]
BY DEF Fields

LEMMA FieldsOf ==
  ASSUME NEW S, NEW r \in [Fields -> S], NEW q \in [Fields -> S]
  PROVE  /\ r.format \in S /\ r.trackers \in S /\ r.comment \in S /\ r.created_by \in S
         /\ r.format = q.format /\ r.trackers = q.trackers /\ r.comment = q.comment
              /\ r.created_by = q.created_by => r = q
<1>1. \A f \in Fields : f \in {"format", "trackers", "comment", "created_by"}
  BY DEF Fields
<1>2. r.format \in S /\ r.trackers \in S /\ r.comment \in S /\ r.created_by \in S
  BY DEF Fields
<1>3. ASSUME r.format = q.format, r.trackers = q.trackers, r.comment = q.comment,
             r.created_by = q.created_by
      PROVE  r = q
  <2>1. \A f \in Fields : r[f] = q[f]
    BY <1>1, <1>3
  <2> QED BY <2>1
<1> QED BY <1>2, <1>3

LEMMA FirstTyped ==
  ASSUME NEW x \in Texts, NEW y \in Texts
  PROVE  /\ First(x, y) \in Texts
         /\ x # Missing \/ y # Missing => First(x, y) # Missing
BY DEF First

\* Objects as settings.
LEMMA ParsedTyped ==
  ASSUME NEW o \in [Members -> Texts], NEW canonical \in BOOLEAN
  PROVE  ParseSettings(o, canonical) \in Settings_
<1>1. /\ o.comment \in Texts /\ o.created_by \in Texts
      /\ First(IF canonical THEN o.tracker_tiers ELSE Missing, o.tracker_list) \in Texts
      /\ (IF canonical THEN o.format ELSE Missing) \in Texts
  BY TextsAssumption DEF First, Members, Missing
<1> QED BY <1>1, RecordOfFields, Zenon DEF ParseSettings, Settings_

LEMMA ParsedFields ==
  ASSUME NEW o, NEW c
  PROVE  /\ ParseSettings(o, c)["format"] = (IF c THEN o["format"] ELSE Missing)
         /\ ParseSettings(o, c)["trackers"] =
              First(IF c THEN o["tracker_tiers"] ELSE Missing, o["tracker_list"])
         /\ ParseSettings(o, c)["comment"] = o["comment"]
         /\ ParseSettings(o, c)["created_by"] = o["created_by"]
BY DEF ParseSettings

LEMMA ResolvedTyped ==
  ASSUME NEW s \in Settings_
  PROVE  ResolveSettings(s) \in [Fields -> Texts \ {Missing}]
<1>1. \A x \in Texts, y \in Texts \ {Missing} : First(x, y) \in Texts \ {Missing}
  BY DEF First
<1>2. s.format \in Texts /\ s.trackers \in Texts /\ s.comment \in Texts /\ s.created_by \in Texts
  BY DEF Fields, Settings_
<1>3. {"hybrid", "[]", "", "TorrentCraft"} \subseteq Texts \ {Missing}
  BY TextsAssumption DEF Missing
<1>4. /\ First(s.format, "hybrid") \in Texts \ {Missing}
      /\ First(s.trackers, "[]") \in Texts \ {Missing}
      /\ First(s.comment, "") \in Texts \ {Missing}
      /\ First(s.created_by, "TorrentCraft") \in Texts \ {Missing}
  BY <1>1, <1>2, <1>3
<1> QED BY <1>4, RecordOfFields, Zenon DEF ResolveSettings

Fallback == [format |-> "hybrid", trackers |-> "[]", comment |-> "", created_by |-> "TorrentCraft"]

LEMMA ResolvedFields ==
  ASSUME NEW s, NEW f \in Fields
  PROVE  ResolveSettings(s)[f] = First(s[f], Fallback[f]) /\ Fallback[f] # Missing
<1>1. f \in {"format", "trackers", "comment", "created_by"}
  BY DEF Fields
<1>2. CASE f = "format"
  BY <1>2 DEF ResolveSettings, Fallback, Missing
<1>3. CASE f = "trackers"
  BY <1>3 DEF ResolveSettings, Fallback, Missing
<1>4. CASE f = "comment"
  BY <1>4 DEF ResolveSettings, Fallback, Missing
<1>5. CASE f = "created_by"
  BY <1>5 DEF ResolveSettings, Fallback, Missing
<1> QED BY <1>1, <1>2, <1>3, <1>4, <1>5

LEMMA OverlayTyped ==
  ASSUME NEW s \in Settings_, NEW t \in Settings_
  PROVE  /\ OverlaySettings(s, t) \in Settings_
         /\ \A f \in Fields : OverlaySettings(s, t)[f] = First(t[f], s[f])
BY FirstTyped DEF OverlaySettings, Settings_

LEMMA OverlayNothing ==
  ASSUME NEW s \in Settings_
  PROVE  NoSettings \in Settings_ /\ OverlaySettings(s, NoSettings) = s
BY TextsAssumption DEF OverlaySettings, Settings_, NoSettings, First

\* The settings of a document.
LEMMA DocumentSettings ==
  ASSUME NEW doc \in Documents, NEW name
  PROVE  /\ Defaults(doc) \in Settings_
         /\ PresetNames(doc) \subseteq Names
         /\ PresetNames(doc) # {} => doc.canonical
         /\ name \in PresetNames(doc) => Preset(doc, name) \in Settings_
         /\ WithPreset(doc, name) \in Settings_
         /\ \A f \in Fields : WithPreset(doc, name)[f] =
              IF name \in PresetNames(doc) THEN First(Preset(doc, name)[f], Defaults(doc)[f])
                                           ELSE Defaults(doc)[f]
         /\ DefaultPreset(doc) \in Texts
         /\ "" \notin PresetNames(doc) /\ Missing \notin PresetNames(doc)
<1>1. /\ doc.canonical \in BOOLEAN /\ doc.defaults \in [Members -> Texts]
      /\ doc.default_preset \in Texts /\ doc.gui_default_preset \in Texts
      /\ \A n \in Names : doc.presets[n] \in [Members -> Texts] \cup {None}
  BY DEF Documents
<1>2. Defaults(doc) \in Settings_
  BY <1>1, ParsedTyped DEF Defaults
<1>3. /\ PresetNames(doc) \subseteq Names /\ (PresetNames(doc) # {} => doc.canonical)
      /\ "" \notin PresetNames(doc) /\ Missing \notin PresetNames(doc)
  BY NamesAssumption DEF PresetNames
<1>4. ASSUME name \in PresetNames(doc) PROVE Preset(doc, name) \in Settings_
  <2>1. doc.presets[name] \in [Members -> Texts]
    BY <1>1, <1>4 DEF PresetNames
  <2> QED BY <2>1, ParsedTyped DEF Preset
<1>5. /\ WithPreset(doc, name) \in Settings_
      /\ \A f \in Fields : WithPreset(doc, name)[f] =
              IF name \in PresetNames(doc) THEN First(Preset(doc, name)[f], Defaults(doc)[f])
                                           ELSE Defaults(doc)[f]
  <2>1. CASE name \in PresetNames(doc)
    BY <2>1, <1>2, <1>4, OverlayTyped DEF WithPreset
  <2>2. CASE name \notin PresetNames(doc)
    BY <2>2, <1>2 DEF WithPreset
  <2> QED BY <2>1, <2>2
<1>6. DefaultPreset(doc) \in Texts
  BY <1>1, FirstTyped, TextsAssumption DEF DefaultPreset
<1> QED BY <1>2, <1>3, <1>4, <1>5, <1>6

-----------------------------------------------------------------------------
(* The edits of a document *)

\* An edit that is not refused leaves a document that loads.
LEMMA CheckedOutcome ==
  ASSUME NEW doc \in Documents
  PROVE  /\ Checked(doc) # None => Checked(doc) = doc /\ Parses(doc)
         /\ Parses(doc) => Checked(doc) = doc
         /\ doc # None
BY NoneAssumption DEF Checked

LEMMA FreshLoads == FreshDocument \in Documents /\ Parses(FreshDocument)
BY TextsAssumption DEF FreshDocument, Documents, Parses, Sound, EmptyObject, Members, Missing

LEMMA PatchTyped ==
  ASSUME NEW o \in [Members -> Texts], NEW patch \in Settings_
  PROVE  ApplyPatch(o, patch) \in [Members -> Texts]
<1>1. /\ patch.format \in Texts /\ patch.trackers \in Texts
      /\ patch.comment \in Texts /\ patch.created_by \in Texts
  BY DEF Settings_, Fields
<1>2. \A m \in Members : o[m] \in Texts
  OBVIOUS
<1>3. \A m \in Members : (CASE m = "tracker_tiers" -> First(patch.trackers, o[m])
          [] m = "tracker_list" -> IF patch.trackers = Missing THEN o[m] ELSE Missing
          [] OTHER -> First(patch[m], o[m])) \in Texts
  BY <1>1, <1>2, TextsAssumption DEF First, Members
<1> QED BY <1>3 DEF ApplyPatch

\* What a patch makes of the settings of an object.
LEMMA PatchedSettings ==
  ASSUME NEW o \in [Members -> Texts], NEW patch \in Settings_, NEW f \in Fields
  PROVE  /\ ParseSettings(ApplyPatch(o, patch), TRUE)[f] =
              First(patch[f], ParseSettings(o, TRUE)[f])
<1>1. f \in {"format", "trackers", "comment", "created_by"}
  BY DEF Fields
<1>2. \A m \in Members : ApplyPatch(o, patch)[m] = 
        CASE m = "tracker_tiers" -> First(patch.trackers, o[m])
          [] m = "tracker_list" -> IF patch.trackers = Missing THEN o[m] ELSE Missing
          [] OTHER -> First(patch[m], o[m])
  BY DEF ApplyPatch
<1>3. /\ ApplyPatch(o, patch)["format"] = First(patch["format"], o["format"])
      /\ ApplyPatch(o, patch)["comment"] = First(patch["comment"], o["comment"])
      /\ ApplyPatch(o, patch)["created_by"] = First(patch["created_by"], o["created_by"])
      /\ ApplyPatch(o, patch)["tracker_tiers"] = First(patch["trackers"], o["tracker_tiers"])
      /\ ApplyPatch(o, patch)["tracker_list"] =
            IF patch["trackers"] = Missing THEN o["tracker_list"] ELSE Missing
  BY <1>2 DEF Members
<1>4. CASE f = "format"
  BY <1>3, <1>4, ParsedFields
<1>5. CASE f = "trackers"
  BY <1>3, <1>5, ParsedFields DEF First
<1>6. CASE f = "comment"
  BY <1>3, <1>6, ParsedFields
<1>7. CASE f = "created_by"
  BY <1>3, <1>7, ParsedFields
<1> QED BY <1>1, <1>4, <1>5, <1>6, <1>7

\* The parts of a document, and documents that differ in one.
LEMMA DocumentParts ==
  ASSUME NEW doc \in Documents
  PROVE  /\ doc.canonical \in BOOLEAN /\ doc.defaults \in [Members -> Texts]
         /\ doc.presets \in [Names -> [Members -> Texts] \cup {None}]
         /\ doc.default_preset \in Texts /\ doc.gui_default_preset \in Texts
         /\ doc.machine \in Texts /\ doc.language \in Texts /\ doc.recent \in Texts
         /\ \A x \in [Members -> Texts] : [doc EXCEPT !.defaults = x] \in Documents
         /\ \A n \in Names, x \in [Members -> Texts] \cup {None} :
              [doc EXCEPT !.presets[n] = x] \in Documents
         /\ \A x \in Texts : /\ [doc EXCEPT !.machine = x] \in Documents
                             /\ [doc EXCEPT !.language = x] \in Documents
         /\ \A x \in Texts, y \in Texts, z \in Texts :
              /\ [doc EXCEPT !.default_preset = x, !.gui_default_preset = y] \in Documents
              /\ [doc EXCEPT !.default_preset = x, !.gui_default_preset = y, !.recent = z]
                    \in Documents
BY DEF Documents

\* The preset that n stands for in a create from a document.
Chosen(doc, n) == IF n = "" THEN DefaultPreset(doc) ELSE n

LEMMA TakenIs ==
  ASSUME NEW doc \in Documents, NEW n \in Names \cup {""}
  PROVE  /\ n \in PresetNames(doc) \cup {""} =>
              Taken(doc, n) = ResolveSettings(WithPreset(doc, Chosen(doc, n)))
         /\ Taken(doc, n) # None <=> n \in PresetNames(doc) \cup {""}
<1> DEFINE named == WithPreset(doc, Chosen(doc, n))
<1>1. named \in Settings_
  BY DocumentSettings
<1>2. OverlaySettings(OverlaySettings(named, NoSettings), NoSettings) = named
  BY <1>1, OverlayNothing
<1>3. ResolveSettings(named) # None
  <2>1. ResolveSettings(named) \in [Fields -> Texts]
    BY <1>1, ResolvedTyped
  <2> QED BY <2>1, NoneAssumption
<1>4. Taken(doc, n) = IF n \in PresetNames(doc) \cup {""}
                      THEN ResolveSettings(
                             OverlaySettings(OverlaySettings(named, NoSettings), NoSettings))
                      ELSE None
  BY DEF Taken, ResolveCreateSettings, Chosen
<1> QED BY <1>2, <1>3, <1>4

\* What an edit must keep for KeepsRest, preset by preset and field by field.
LEMMA KeepsRestFrom ==
  ASSUME NEW before \in Documents, NEW after \in Documents, NEW cmd,
         \A n \in Names \cup {""} :
           \/ MayChange(cmd, advanced, before, n) = Fields
           \/ /\ n \in PresetNames(before) <=> n \in PresetNames(after)
              /\ \A f \in Fields \ MayChange(cmd, advanced, before, n) :
                   ResolveSettings(WithPreset(after, Chosen(after, n)))[f]
                     = ResolveSettings(WithPreset(before, Chosen(before, n)))[f],
         \/ First(after.machine, "builtin") = First(before.machine, "builtin")
         \/ cmd.kind = "set" /\ cmd.key.scope = "machine"
         \/ cmd.kind = "apply" /\ cmd.machine # Missing,
         First(after.language, "en") = First(before.language, "en") \/ cmd.kind = "language",
         after.recent = before.recent \/ cmd.kind = "remember"
  PROVE  KeepsRest(before, after, cmd, advanced)
<1>1. ASSUME NEW n \in Names \cup {""}, MayChange(cmd, advanced, before, n) # Fields
      PROVE  /\ Taken(before, n) # None <=> Taken(after, n) # None
             /\ Taken(before, n) # None =>
                   \A f \in Fields \ MayChange(cmd, advanced, before, n) :
                     Taken(after, n)[f] = Taken(before, n)[f]
  <2>1. /\ n \in PresetNames(before) <=> n \in PresetNames(after)
        /\ \A f \in Fields \ MayChange(cmd, advanced, before, n) :
             ResolveSettings(WithPreset(after, Chosen(after, n)))[f]
               = ResolveSettings(WithPreset(before, Chosen(before, n)))[f]
    BY <1>1
  <2>2. /\ n \in PresetNames(before) \cup {""} =>
              Taken(before, n) = ResolveSettings(WithPreset(before, Chosen(before, n)))
        /\ Taken(before, n) # None <=> n \in PresetNames(before) \cup {""}
    BY TakenIs
  <2>3. /\ n \in PresetNames(after) \cup {""} =>
              Taken(after, n) = ResolveSettings(WithPreset(after, Chosen(after, n)))
        /\ Taken(after, n) # None <=> n \in PresetNames(after) \cup {""}
    BY TakenIs
  <2>4. Taken(before, n) # None <=> Taken(after, n) # None
    BY <2>1, <2>2, <2>3
  <2>5. ASSUME Taken(before, n) # None, NEW f \in Fields \ MayChange(cmd, advanced, before, n)
        PROVE  Taken(after, n)[f] = Taken(before, n)[f]
    BY <2>1, <2>2, <2>3, <2>5
  <2> QED BY <2>4, <2>5
<1> QED BY <1>1, Zenon DEF KeepsRest

\* Documents that agree about a preset.
LEMMA SamePreset ==
  ASSUME NEW doc \in Documents, NEW r \in Documents, NEW name,
         r.canonical = doc.canonical, r.defaults = doc.defaults,
         name \in Names => r.presets[name] = doc.presets[name]
  PROVE  /\ name \in PresetNames(r) <=> name \in PresetNames(doc)
         /\ WithPreset(r, name) = WithPreset(doc, name)
         /\ Preset(r, name) = Preset(doc, name) \/ name \notin PresetNames(doc)
<1>1. name \in PresetNames(r) <=> name \in PresetNames(doc)
  BY DEF PresetNames
<1>2. Defaults(r) = Defaults(doc)
  BY DEF Defaults
<1>3. name \in PresetNames(doc) => Preset(r, name) = Preset(doc, name)
  BY DEF PresetNames, Preset
<1> QED BY <1>1, <1>2, <1>3 DEF WithPreset

\* Documents whose defaults resolve alike in a field.
LEMMA SameField ==
  ASSUME NEW doc \in Documents, NEW r \in Documents, NEW name, NEW f \in Fields,
         r.canonical = doc.canonical, r.presets = doc.presets,
         ResolveSettings(Defaults(r))[f] = ResolveSettings(Defaults(doc))[f]
  PROVE  /\ name \in PresetNames(r) <=> name \in PresetNames(doc)
         /\ ResolveSettings(WithPreset(r, name))[f] = ResolveSettings(WithPreset(doc, name))[f]
<1>1. name \in PresetNames(r) <=> name \in PresetNames(doc)
  BY DEF PresetNames
<1>2. Preset(r, name) = Preset(doc, name)
  BY DEF Preset
<1>3. /\ WithPreset(doc, name)[f] =
           IF name \in PresetNames(doc) THEN First(Preset(doc, name)[f], Defaults(doc)[f])
                                        ELSE Defaults(doc)[f]
      /\ WithPreset(r, name)[f] =
           IF name \in PresetNames(r) THEN First(Preset(r, name)[f], Defaults(r)[f])
                                      ELSE Defaults(r)[f]
  BY DocumentSettings
<1>4. \A x, y, p : First(x, Fallback[f]) = First(y, Fallback[f]) =>
                     First(First(p, x), Fallback[f]) = First(First(p, y), Fallback[f])
  BY DEF First
<1>5. First(Defaults(r)[f], Fallback[f]) = First(Defaults(doc)[f], Fallback[f])
  BY ResolvedFields
<1> QED BY <1>1, <1>2, <1>3, <1>4, <1>5, ResolvedFields

\* r differs from doc in one preset.
DifferAt(name, doc, r) ==
    /\ r \in Documents /\ r.canonical = doc.canonical /\ r.defaults = doc.defaults
    /\ r.machine = doc.machine /\ r.language = doc.language /\ r.recent = doc.recent
    /\ DefaultPreset(r) = DefaultPreset(doc)
    /\ \A n : n # name => /\ n \in PresetNames(r) <=> n \in PresetNames(doc)
                          /\ WithPreset(r, n) = WithPreset(doc, n)

\* Nothing that settings depend on is changed but one preset.
LEMMA OnePreset ==
  ASSUME NEW doc \in Documents, NEW name \in Names, NEW x \in [Members -> Texts] \cup {None},
         NEW r, r = [doc EXCEPT !.presets[name] = x]
  PROVE  DifferAt(name, doc, r)
<1>1. r \in Documents
  BY DocumentParts
<1>2. /\ r.canonical = doc.canonical /\ r.defaults = doc.defaults
      /\ r.default_preset = doc.default_preset /\ r.gui_default_preset = doc.gui_default_preset
      /\ r.machine = doc.machine /\ r.language = doc.language /\ r.recent = doc.recent
      /\ \A n \in Names : n # name => r.presets[n] = doc.presets[n]
  BY DEF Documents
<1>3. \A n : n # name => /\ n \in PresetNames(r) <=> n \in PresetNames(doc)
                         /\ WithPreset(r, n) = WithPreset(doc, n)
  BY <1>1, <1>2, SamePreset
<1>4. DefaultPreset(r) = DefaultPreset(doc)
  BY <1>2 DEF DefaultPreset, First
<1> HIDE DEF DefaultPreset
<1> QED BY <1>1, <1>2, <1>3, <1>4 DEF DifferAt

LEMMA PresetEdit ==
  ASSUME NEW doc \in Documents, NEW name \in Names, NEW r, DifferAt(name, doc, r), NEW cmd,
         \A n \in Names \cup {""} :
           MayChange(cmd, advanced, doc, n) = IF name = Chosen(doc, n) THEN Fields ELSE {}
  PROVE  KeepsRest(doc, r, cmd, advanced)
<1>1. /\ r \in Documents /\ r.canonical = doc.canonical /\ r.defaults = doc.defaults
      /\ r.machine = doc.machine /\ r.language = doc.language /\ r.recent = doc.recent
      /\ DefaultPreset(r) = DefaultPreset(doc)
      /\ \A n : n # name => /\ n \in PresetNames(r) <=> n \in PresetNames(doc)
                            /\ WithPreset(r, n) = WithPreset(doc, n)
  BY DEF DifferAt
<1>5. ASSUME NEW n \in Names \cup {""}, MayChange(cmd, advanced, doc, n) # Fields
      PROVE  /\ n \in PresetNames(doc) <=> n \in PresetNames(r)
             /\ WithPreset(r, Chosen(r, n)) = WithPreset(doc, Chosen(doc, n))
  <2>1. Chosen(doc, n) # name /\ Chosen(r, n) = Chosen(doc, n)
    BY <1>1, <1>5 DEF Chosen
  <2>2. n \in PresetNames(doc) <=> n \in PresetNames(r)
    <3>1. CASE n = ""
      BY <3>1, <1>1, DocumentSettings
    <3>2. CASE n # ""
      BY <3>2, <2>1, <1>1 DEF Chosen
    <3> QED BY <3>1, <3>2
  <2> QED BY <2>1, <2>2, <1>1
<1> QED BY <1>1, <1>5, KeepsRestFrom

\* add_preset and remove_preset.
LEMMA AddOutcome ==
  ASSUME NEW doc \in Documents, NEW name \in Names, NEW patch \in Settings_,
         NEW overwrite \in BOOLEAN,
         AddPreset(doc, name, patch, overwrite) # None
  PROVE  LET r == AddPreset(doc, name, patch, overwrite) IN
         /\ r = [doc EXCEPT !.presets[name] = ApplyPatch(EmptyObject, patch)]
         /\ ApplyPatch(EmptyObject, patch) \in [Members -> Texts]
         /\ Parses(r) /\ doc.canonical /\ r.canonical
         /\ name \in PresetNames(r)
         /\ \A f \in Fields : Preset(r, name)[f] = patch[f]
<1> DEFINE x == ApplyPatch(EmptyObject, patch)
           r == [doc EXCEPT !.presets[name] = x]
<1>1. EmptyObject \in [Members -> Texts]
  BY TextsAssumption DEF EmptyObject
<1>2. x \in [Members -> Texts] /\ x # None
  BY <1>1, PatchTyped, NoneAssumption
<1>3. r \in Documents
  BY <1>2, DocumentParts
<1>4. doc.canonical /\ AddPreset(doc, name, patch, overwrite) = Checked(r)
  BY DEF AddPreset
<1>5. AddPreset(doc, name, patch, overwrite) = r /\ Parses(r)
  BY <1>3, <1>4, CheckedOutcome
<1>6. r.canonical = doc.canonical /\ r.presets[name] = x
  BY DEF Documents
<1>7. name \in PresetNames(r) /\ Preset(r, name) = ParseSettings(x, TRUE)
  BY <1>2, <1>4, <1>6 DEF PresetNames, Preset
<1>8. ASSUME NEW f \in Fields PROVE Preset(r, name)[f] = patch[f]
  <2>1. ParseSettings(EmptyObject, TRUE)[f] = Missing
    <3> DEFINE o == EmptyObject
    <3>1. \A m \in Members : o[m] = Missing
      BY DEF EmptyObject
    <3>2. {"format", "tracker_list", "tracker_tiers", "comment", "created_by"} = Members
      BY DEF Members
    <3> HIDE DEF o
    <3>3. /\ ParseSettings(o, TRUE)["format"] = o["format"]
          /\ ParseSettings(o, TRUE)["trackers"] = First(o["tracker_tiers"], o["tracker_list"])
          /\ ParseSettings(o, TRUE)["comment"] = o["comment"]
          /\ ParseSettings(o, TRUE)["created_by"] = o["created_by"]
      BY ParsedFields
    <3>4. f \in {"format", "trackers", "comment", "created_by"}
      BY DEF Fields
    <3>5. ParseSettings(o, TRUE)[f] = Missing
      BY <3>1, <3>2, <3>3, <3>4 DEF First
    <3> QED BY <3>5 DEF o
  <2>2. ParseSettings(x, TRUE)[f] = First(patch[f], Missing)
    BY <1>1, <2>1, PatchedSettings
  <2> QED BY <2>2, <1>7 DEF First
<1> QED BY <1>2, <1>4, <1>5, <1>6, <1>7, <1>8

LEMMA RemoveOutcome ==
  ASSUME NEW doc \in Documents, NEW name \in Names, RemovePreset(doc, name) # None
  PROVE  LET r == RemovePreset(doc, name) IN
         /\ r = [doc EXCEPT !.presets[name] = None]
         /\ Parses(r)
<1> DEFINE r == [doc EXCEPT !.presets[name] = None]
<1>1. r \in Documents
  BY DocumentParts
<1>2. RemovePreset(doc, name) = Checked(r)
  BY DEF RemovePreset
<1> QED BY <1>1, <1>2, CheckedOutcome

\* set_gui_language is never refused.
LEMMA LanguageOutcome ==
  ASSUME NEW doc \in Documents, Parses(doc), NEW language \in Texts
  PROVE  LET r == SetGuiLanguage(doc, language) IN
         /\ r = [doc EXCEPT !.language = language]
         /\ r \in Documents /\ Parses(r)
         /\ r.canonical = doc.canonical /\ r.defaults = doc.defaults /\ r.presets = doc.presets
         /\ r.default_preset = doc.default_preset
         /\ r.gui_default_preset = doc.gui_default_preset /\ r.machine = doc.machine
         /\ r.recent = doc.recent /\ r.language = language
<1> DEFINE r == [doc EXCEPT !.language = language]
<1>1. r \in Documents
  BY DocumentParts
<1>2. /\ r.canonical = doc.canonical /\ r.defaults = doc.defaults /\ r.presets = doc.presets
      /\ r.default_preset = doc.default_preset
      /\ r.gui_default_preset = doc.gui_default_preset /\ r.machine = doc.machine
      /\ r.recent = doc.recent /\ r.language = language
  BY DEF Documents
<1> HIDE DEF r
<1>3. Parses(r)
  BY <1>2 DEF Parses
<1>4. SetGuiLanguage(doc, language) = Checked(r)
  BY DEF SetGuiLanguage, r
<1> QED BY <1>1, <1>2, <1>3, <1>4, CheckedOutcome DEF r

LEMMA PreferencesOutcome ==
  ASSUME NEW doc \in Documents, NEW prefs, prefs.default_preset \in Texts, prefs.recent \in Texts,
         SetGuiPreferences(doc, prefs) # None
  PROVE  LET r == SetGuiPreferences(doc, prefs) IN
         /\ r \in Documents /\ Parses(r)
         /\ r.canonical = doc.canonical /\ r.defaults = doc.defaults /\ r.presets = doc.presets
         /\ r.default_preset = prefs.default_preset /\ r.gui_default_preset = Missing
         /\ r.machine = doc.machine /\ r.recent = prefs.recent /\ r.language = doc.language
<1> DEFINE r == [doc EXCEPT !.default_preset = prefs.default_preset,
                            !.gui_default_preset = Missing, !.recent = prefs.recent]
<1>1. r \in Documents
  BY DocumentParts, TextsAssumption
<1>2. /\ r.canonical = doc.canonical /\ r.defaults = doc.defaults /\ r.presets = doc.presets
      /\ r.default_preset = prefs.default_preset /\ r.gui_default_preset = Missing
      /\ r.machine = doc.machine /\ r.recent = prefs.recent /\ r.language = doc.language
  BY DEF Documents
<1> HIDE DEF r
<1>3. SetGuiPreferences(doc, prefs) = Checked(r)
  BY DEF SetGuiPreferences, r
<1>4. SetGuiPreferences(doc, prefs) = r /\ Parses(r)
  BY <1>1, <1>3, CheckedOutcome
<1> QED BY <1>1, <1>2, <1>4

\* What the operations may change.
LEMMA MayChangePreset ==
  ASSUME NEW cmd, cmd.kind \in {"add", "import", "save", "remove", "delete"}, NEW doc
  PROVE  \A n : MayChange(cmd, advanced, doc, n) = IF cmd.name = Chosen(doc, n) THEN Fields ELSE {}
BY DEF MayChange, Chosen

LEMMA MayChangeSet ==
  ASSUME NEW cmd, cmd.kind = "set", NEW doc, NEW n
  PROVE  /\ cmd.key.scope = "defaults" =>
              MayChange(cmd, advanced, doc, n) = {FieldOf(cmd.key.setting)}
         /\ cmd.key.scope = "preset" =>
              MayChange(cmd, advanced, doc, n) =
                IF cmd.key.name = Chosen(doc, n) THEN Fields ELSE {}
         /\ cmd.key.scope = "default_preset" =>
              MayChange(cmd, advanced, doc, n) = IF n = "" THEN Fields ELSE {}
         /\ cmd.key.scope = "machine" => MayChange(cmd, advanced, doc, n) = {}
BY DEF MayChange, Chosen

LEMMA MayChangeNothing ==
  ASSUME NEW cmd, cmd.kind \in {"reload", "language", "remember"}, NEW doc, NEW n
  PROVE  MayChange(cmd, advanced, doc, n) = {}
BY DEF MayChange

\* A key typed in the form the code parses it to.
LEMMA KeyTyped ==
  ASSUME NEW key \in Keys
  PROVE  /\ key.scope \in {"none", "defaults", "preset", "default_preset", "machine"}
         /\ key.scope = "defaults" => key.setting \in Members
         /\ key.scope = "preset" => key.name \in Names /\ key.setting \in Members
BY DEF Keys

\* set_key, by what the key names.
LEMMA SetDefaultKept ==
  ASSUME NEW doc \in Documents, NEW m \in Members, NEW value \in Texts,
         NEW r, r = [doc EXCEPT !.defaults[m] = value]
  PROVE  /\ r \in Documents /\ r.canonical = doc.canonical /\ r.presets = doc.presets
         /\ r.default_preset = doc.default_preset
         /\ r.gui_default_preset = doc.gui_default_preset
         /\ r.machine = doc.machine /\ r.language = doc.language /\ r.recent = doc.recent
         /\ \A f \in Fields \ {FieldOf(m)} : Defaults(r)[f] = Defaults(doc)[f]
<1> DEFINE o == doc.defaults
           x == [o EXCEPT ![m] = value]
<1>1. o \in [Members -> Texts] /\ x \in [Members -> Texts]
  BY DocumentParts
<1>2. r = [doc EXCEPT !.defaults = x]
  BY DEF Documents
<1>3. r \in Documents
  BY <1>1, <1>2, DocumentParts
<1>4. /\ r.canonical = doc.canonical /\ r.presets = doc.presets /\ r.defaults = x
      /\ r.default_preset = doc.default_preset
      /\ r.gui_default_preset = doc.gui_default_preset
      /\ r.machine = doc.machine /\ r.language = doc.language /\ r.recent = doc.recent
  BY <1>2 DEF Documents
<1>5. \A k \in Members : k # m => x[k] = o[k]
  BY <1>1
<1>6. ASSUME NEW f \in Fields \ {FieldOf(m)} PROVE Defaults(r)[f] = Defaults(doc)[f]
  <2> DEFINE c == doc.canonical
  <2>1. Defaults(r) = ParseSettings(x, c) /\ Defaults(doc) = ParseSettings(o, c)
    BY <1>4 DEF Defaults
  <2>2. ParseSettings(x, c)[f] = ParseSettings(o, c)[f]
    <3> HIDE DEF x, o, c
    <3>1. CASE f = "format"
      <4>1. m # "format"
        BY <3>1 DEF FieldOf
      <4> QED BY <3>1, <4>1, <1>5, ParsedFields DEF Members
    <3>2. CASE f = "trackers"
      <4>1. m # "tracker_list" /\ m # "tracker_tiers"
        BY <3>2 DEF FieldOf
      <4> QED BY <3>2, <4>1, <1>5, ParsedFields DEF Members
    <3>3. CASE f = "comment"
      <4>1. m # "comment"
        BY <3>3 DEF FieldOf
      <4> QED BY <3>3, <4>1, <1>5, ParsedFields DEF Members
    <3>4. CASE f = "created_by"
      <4>1. m # "created_by"
        BY <3>4 DEF FieldOf
      <4> QED BY <3>4, <4>1, <1>5, ParsedFields DEF Members
    <3>5. f \in {"format", "trackers", "comment", "created_by"}
      BY DEF Fields
    <3> QED BY <3>1, <3>2, <3>3, <3>4, <3>5
  <2> QED BY <2>1, <2>2
<1> QED BY <1>3, <1>4, <1>6

LEMMA SetOutcome ==
  ASSUME NEW doc \in Documents, NEW cmd, cmd.kind = "set", cmd.key \in Keys,
         cmd.value \in Texts, SetKey(doc, cmd.key, cmd.value) # None
  PROVE  LET r == SetKey(doc, cmd.key, cmd.value) IN
         r \in Documents /\ Parses(r) /\ KeepsRest(doc, r, cmd, advanced)
<1> DEFINE key == cmd.key
           value == cmd.value
           r == SetKey(doc, key, value)
<1>0. /\ key.scope \in {"none", "defaults", "preset", "default_preset", "machine"}
      /\ key.scope = "defaults" => key.setting \in Members
      /\ key.scope = "preset" => key.name \in Names /\ key.setting \in Members
  BY KeyTyped
<1>1. CASE key.scope = "defaults"
  <2> DEFINE q == [doc EXCEPT !.defaults[key.setting] = value]
  <2>1. r = Checked(q)
    BY <1>1 DEF SetKey
  <2>2. /\ q \in Documents /\ q.canonical = doc.canonical /\ q.presets = doc.presets
        /\ q.default_preset = doc.default_preset
        /\ q.gui_default_preset = doc.gui_default_preset
        /\ q.machine = doc.machine /\ q.language = doc.language /\ q.recent = doc.recent
        /\ \A f \in Fields \ {FieldOf(key.setting)} : Defaults(q)[f] = Defaults(doc)[f]
    BY <1>0, <1>1, SetDefaultKept
  <2> HIDE DEF q
  <2>3. r = q /\ Parses(q)
    BY <2>1, <2>2, CheckedOutcome
  <2>4. ASSUME NEW n \in Names \cup {""}
        PROVE  /\ n \in PresetNames(doc) <=> n \in PresetNames(q)
               /\ \A f \in Fields \ MayChange(cmd, advanced, doc, n) :
                    ResolveSettings(WithPreset(q, Chosen(q, n)))[f]
                      = ResolveSettings(WithPreset(doc, Chosen(doc, n)))[f]
    <3>1. MayChange(cmd, advanced, doc, n) = {FieldOf(key.setting)}
      BY <1>1, MayChangeSet
    <3>2. Chosen(q, n) = Chosen(doc, n)
      BY <2>2, Zenon DEF Chosen, DefaultPreset
    <3>3. n \in PresetNames(doc) <=> n \in PresetNames(q)
      BY <2>2 DEF PresetNames
    <3>4. ASSUME NEW f \in Fields \ {FieldOf(key.setting)}
          PROVE  ResolveSettings(WithPreset(q, Chosen(doc, n)))[f]
                   = ResolveSettings(WithPreset(doc, Chosen(doc, n)))[f]
      <4> DEFINE dq == Defaults(q)
                 dd == Defaults(doc)
      <4>0. f \in Fields /\ dq[f] = dd[f]
        BY <2>2
      <4>1. ResolveSettings(dq)[f] = ResolveSettings(dd)[f]
        <5> HIDE DEF dq, dd
        <5> QED BY <4>0, ResolvedFields
      <4> QED BY <2>2, <4>1, SameField
    <3> QED BY <3>1, <3>2, <3>3, <3>4
  <2>5. KeepsRest(doc, q, cmd, advanced)
    BY <2>2, <2>4, KeepsRestFrom
  <2> QED BY <2>2, <2>3, <2>5
<1>2. CASE key.scope = "preset"
  <2> DEFINE o == IF doc.presets[key.name] = None THEN EmptyObject ELSE doc.presets[key.name]
             x == [o EXCEPT ![key.setting] = value]
             q == [doc EXCEPT !.presets[key.name] = x]
  <2>1. r = Checked(q)
    BY <1>2 DEF SetKey
  <2>2. o \in [Members -> Texts]
    BY <1>0, <1>2, DocumentParts, TextsAssumption DEF EmptyObject
  <2>3. x \in [Members -> Texts]
    BY <2>2
  <2>4. \A n \in Names \cup {""} :
           MayChange(cmd, advanced, doc, n) = IF key.name = Chosen(doc, n) THEN Fields ELSE {}
    BY <1>2, MayChangeSet
  <2>5. q \in Documents /\ KeepsRest(doc, q, cmd, advanced)
    <3> HIDE DEF x
    <3>1. DifferAt(key.name, doc, q)
      BY <1>0, <1>2, <2>3, OnePreset
    <3>2. q \in Documents
      BY <3>1 DEF DifferAt
    <3> HIDE DEF q
    <3> QED BY <1>0, <1>2, <3>1, <3>2, <2>4, PresetEdit
  <2> QED BY <2>1, <2>5, CheckedOutcome
<1>3. CASE key.scope = "default_preset"
  <2> DEFINE q == [doc EXCEPT !.default_preset = value, !.gui_default_preset = Missing]
  <2>1. r = Checked(q)
    BY <1>3 DEF SetKey
  <2>2. q \in Documents
    BY DocumentParts, TextsAssumption
  <2>3. /\ q.canonical = doc.canonical /\ q.presets = doc.presets /\ q.defaults = doc.defaults
        /\ q.machine = doc.machine /\ q.language = doc.language /\ q.recent = doc.recent
    BY DEF Documents
  <2> HIDE DEF q
  <2>4. \A n \in Names \cup {""} : n # "" =>
               /\ n \in PresetNames(doc) <=> n \in PresetNames(q)
               /\ WithPreset(q, Chosen(q, n)) = WithPreset(doc, Chosen(doc, n))
    BY <2>2, <2>3, SamePreset DEF Chosen
  <2>5. \A n \in Names \cup {""} : MayChange(cmd, advanced, doc, n) = IF n = "" THEN Fields ELSE {}
    BY <1>3, MayChangeSet
  <2>6. KeepsRest(doc, q, cmd, advanced)
    BY <2>2, <2>3, <2>4, <2>5, KeepsRestFrom
  <2> QED BY <2>1, <2>2, <2>6, CheckedOutcome
<1>4. CASE key.scope = "machine"
  <2> DEFINE q == [doc EXCEPT !.machine = value]
  <2>1. r = Checked(q)
    BY <1>4 DEF SetKey
  <2>2. q \in Documents
    BY DocumentParts
  <2>3. /\ q.canonical = doc.canonical /\ q.presets = doc.presets /\ q.defaults = doc.defaults
        /\ q.default_preset = doc.default_preset
        /\ q.gui_default_preset = doc.gui_default_preset
        /\ q.language = doc.language /\ q.recent = doc.recent
    BY DEF Documents
  <2> HIDE DEF q
  <2>4. \A n \in Names \cup {""} :
               /\ n \in PresetNames(doc) <=> n \in PresetNames(q)
               /\ WithPreset(q, Chosen(q, n)) = WithPreset(doc, Chosen(doc, n))
    <3>1. \A n : Chosen(q, n) = Chosen(doc, n)
      BY <2>3, Zenon DEF Chosen, DefaultPreset
    <3>2. \A n : n \in Names => q.presets[n] = doc.presets[n]
      BY <2>3
    <3>3. \A n : /\ n \in PresetNames(q) <=> n \in PresetNames(doc)
                 /\ WithPreset(q, n) = WithPreset(doc, n)
      BY <2>2, <2>3, <3>2, SamePreset
    <3> QED BY <3>1, <3>3
  <2>6. KeepsRest(doc, q, cmd, advanced)
    BY <1>4, <2>2, <2>3, <2>4, KeepsRestFrom
  <2> QED BY <2>1, <2>2, <2>6, CheckedOutcome
<1>5. key.scope # "none"
  BY DEF SetKey
<1> QED BY <1>0, <1>1, <1>2, <1>3, <1>4, <1>5

\* What a command line makes of the document it has loaded.
LEMMA CommandOutcome ==
  ASSUME NEW doc \in Documents, NEW cmd \in CommandOps, cmd.kind # "init",
         CommandEdit(cmd, doc) # None
  PROVE  LET r == CommandEdit(cmd, doc) IN
         r \in Documents /\ Parses(r) /\ KeepsRest(doc, r, cmd, advanced)
<1>1. /\ cmd.kind \in {"set", "add", "remove"} /\ cmd.key \in Keys /\ cmd.value \in Texts
      /\ cmd.name \in Names /\ cmd.patch \in Settings_ /\ cmd.force \in BOOLEAN
  BY DEF CommandOps, CommandKinds, Settings_
<1>2. CASE cmd.kind = "set"
  BY <1>1, <1>2, SetOutcome DEF CommandEdit
<1>3. CASE cmd.kind = "add"
  <2> DEFINE x == ApplyPatch(EmptyObject, cmd.patch)
             r == AddPreset(doc, cmd.name, cmd.patch, cmd.force)
  <2>1. CommandEdit(cmd, doc) = r
    BY <1>3 DEF CommandEdit
  <2>2. r = [doc EXCEPT !.presets[cmd.name] = x] /\ x \in [Members -> Texts] /\ Parses(r)
    BY <1>1, <2>1, AddOutcome
  <2>3. \A n \in Names \cup {""} :
           MayChange(cmd, advanced, doc, n) = IF cmd.name = Chosen(doc, n) THEN Fields ELSE {}
    <3>1. cmd.kind \in {"add", "import", "save", "remove", "delete"}
      BY <1>3
    <3>2. ASSUME NEW n
          PROVE  MayChange(cmd, advanced, doc, n) = IF cmd.name = Chosen(doc, n) THEN Fields ELSE {}
      BY <3>1, MayChangePreset, SMT
    <3> QED BY <3>2
  <2> HIDE DEF x, r
  <2>4. DifferAt(cmd.name, doc, r)
    BY <1>1, <2>2, OnePreset
  <2>5. KeepsRest(doc, r, cmd, advanced)
    BY <1>1, <2>3, <2>4, PresetEdit
  <2> QED BY <2>1, <2>2, <2>4, <2>5 DEF DifferAt
<1>4. CASE cmd.kind = "remove"
  <2> DEFINE r == RemovePreset(doc, cmd.name)
  <2>1. CommandEdit(cmd, doc) = r
    BY <1>4 DEF CommandEdit
  <2>2. r = [doc EXCEPT !.presets[cmd.name] = None] /\ Parses(r)
    BY <1>1, <2>1, RemoveOutcome
  <2>3. \A n \in Names \cup {""} :
           MayChange(cmd, advanced, doc, n) = IF cmd.name = Chosen(doc, n) THEN Fields ELSE {}
    <3>1. cmd.kind \in {"add", "import", "save", "remove", "delete"}
      BY <1>4
    <3>2. ASSUME NEW n
          PROVE  MayChange(cmd, advanced, doc, n) = IF cmd.name = Chosen(doc, n) THEN Fields ELSE {}
      BY <3>1, MayChangePreset, SMT
    <3> QED BY <3>2
  <2> HIDE DEF r
  <2>4. DifferAt(cmd.name, doc, r)
    BY <1>1, <2>2, OnePreset
  <2>5. KeepsRest(doc, r, cmd, advanced)
    BY <1>1, <2>3, <2>4, PresetEdit
  <2> QED BY <2>1, <2>2, <2>4, <2>5 DEF DifferAt
<1> QED BY <1>1, <1>2, <1>3, <1>4

-----------------------------------------------------------------------------
(* The edits of the window *)

GuiOpTyped(cmd) ==
    /\ cmd.kind \in GuiKinds /\ cmd.path \in Paths /\ cmd.name \in Names
    /\ cmd.patch \in [Fields -> Texts \ {"bad"}] /\ cmd.patch \in Settings_
    /\ cmd.value \in Texts /\ cmd.machine \in Texts \ {"bad"} /\ cmd.default_preset \in Texts
    /\ cmd.pathless \in BOOLEAN /\ cmd.created \in BOOLEAN

LEMMA GuiOpParts ==
  ASSUME NEW cmd \in GuiOps
  PROVE  GuiOpTyped(cmd)
<1>1. cmd.patch \in [Fields -> Texts \ {"bad"}]
  BY DEF GuiOps
<1>2. cmd.patch \in Settings_
  BY <1>1 DEF Settings_
<1> QED BY <1>1, <1>2 DEF GuiOps, GuiOpTyped

\* Edits that leave the settings alone.
LEMMA QuietEdit ==
  ASSUME NEW doc \in Documents, NEW r \in Documents, NEW cmd,
         r.canonical = doc.canonical, r.defaults = doc.defaults, r.presets = doc.presets,
         DefaultPreset(r) = DefaultPreset(doc), r.machine = doc.machine,
         cmd.kind \in {"reload", "language", "remember"},
         First(r.language, "en") = First(doc.language, "en") \/ cmd.kind = "language",
         r.recent = doc.recent \/ cmd.kind = "remember"
  PROVE  /\ KeepsRest(doc, r, cmd, advanced)
         /\ \A name : /\ name \in PresetNames(r) <=> name \in PresetNames(doc)
                      /\ WithPreset(r, name) = WithPreset(doc, name)
<1>1. ASSUME NEW name
      PROVE  /\ name \in PresetNames(r) <=> name \in PresetNames(doc)
             /\ WithPreset(r, name) = WithPreset(doc, name)
  BY SamePreset
<1>2. \A n : Chosen(r, n) = Chosen(doc, n)
  BY DEF Chosen
<1>3. KeepsRest(doc, r, cmd, advanced)
  BY <1>1, <1>2, KeepsRestFrom
<1> QED BY <1>1, <1>3

LEMMA ReloadOutcome ==
  ASSUME NEW doc \in Documents, Parses(doc), NEW cmd, cmd.kind \in {"reload", "language"},
         cmd.kind = "language" => cmd.value \in Texts
  PROVE  LET r == WindowEdit(doc, cmd) IN
         /\ r \in Documents /\ Parses(r) /\ KeepsRest(doc, r, cmd, advanced)
         /\ r.canonical = doc.canonical /\ r.defaults = doc.defaults /\ r.machine = doc.machine
         /\ DefaultPreset(r) = DefaultPreset(doc)
         /\ \A name : /\ name \in PresetNames(r) <=> name \in PresetNames(doc)
                      /\ WithPreset(r, name) = WithPreset(doc, name)
<1> DEFINE v == IF cmd.kind = "reload" THEN First(doc.language, "en") ELSE cmd.value
           r == SetGuiLanguage(doc, v)
<1>1. v \in Texts
  BY FirstTyped, DocumentParts, TextsAssumption
<1>2. WindowEdit(doc, cmd) = r
  BY DEF WindowEdit
<1>3. /\ r \in Documents /\ Parses(r)
      /\ r.canonical = doc.canonical /\ r.defaults = doc.defaults /\ r.presets = doc.presets
      /\ r.default_preset = doc.default_preset
      /\ r.gui_default_preset = doc.gui_default_preset /\ r.machine = doc.machine
      /\ r.recent = doc.recent /\ r.language = v
  BY <1>1, LanguageOutcome
<1>4. First(v, "en") = First(doc.language, "en") \/ cmd.kind = "language"
  BY DEF First, Missing
<1> HIDE DEF r, v
<1>5. DefaultPreset(r) = DefaultPreset(doc)
  BY <1>3, Zenon DEF DefaultPreset
<1>6. cmd.kind \in {"reload", "language", "remember"}
  OBVIOUS
<1>7. /\ KeepsRest(doc, r, cmd, advanced)
      /\ \A name : /\ name \in PresetNames(r) <=> name \in PresetNames(doc)
                   /\ WithPreset(r, name) = WithPreset(doc, name)
  BY <1>3, <1>4, <1>5, <1>6, QuietEdit
<1> QED BY <1>2, <1>3, <1>5, <1>7

LEMMA RememberOutcome ==
  ASSUME NEW doc \in Documents, Parses(doc), NEW cmd, cmd.kind = "remember", cmd.value \in Texts,
         WindowEdit(doc, cmd) # None
  PROVE  LET r == WindowEdit(doc, cmd) IN
         /\ r \in Documents /\ Parses(r) /\ KeepsRest(doc, r, cmd, advanced)
         /\ r.canonical = doc.canonical /\ r.defaults = doc.defaults /\ r.machine = doc.machine
         /\ DefaultPreset(r) = DefaultPreset(doc)
         /\ \A name : /\ name \in PresetNames(r) <=> name \in PresetNames(doc)
                      /\ WithPreset(r, name) = WithPreset(doc, name)
<1> DEFINE prefs == [GuiPreferences(doc) EXCEPT !.recent = cmd.value]
           r == SetGuiPreferences(doc, prefs)
<1>1. WindowEdit(doc, cmd) = r
  BY DEF WindowEdit
<1>2. /\ prefs.default_preset = First(doc.default_preset, doc.gui_default_preset)
      /\ prefs.recent = cmd.value
  BY DEF GuiPreferences
<1> HIDE DEF prefs
<1>3. prefs.default_preset \in Texts /\ prefs.recent \in Texts
  <2>1. doc.default_preset \in Texts /\ doc.gui_default_preset \in Texts
    BY DocumentParts
  <2>2. First(doc.default_preset, doc.gui_default_preset) \in Texts
    BY <2>1, FirstTyped
  <2> QED BY <1>2, <2>2
<1>4. /\ r \in Documents /\ Parses(r)
      /\ r.canonical = doc.canonical /\ r.defaults = doc.defaults /\ r.presets = doc.presets
      /\ r.default_preset = prefs.default_preset /\ r.gui_default_preset = Missing
      /\ r.machine = doc.machine /\ r.recent = prefs.recent /\ r.language = doc.language
  BY <1>1, <1>3, PreferencesOutcome
<1> HIDE DEF r
<1>5. DefaultPreset(r) = DefaultPreset(doc)
  BY <1>2, <1>4 DEF DefaultPreset, First
<1>6. cmd.kind \in {"reload", "language", "remember"}
  OBVIOUS
<1>7. /\ KeepsRest(doc, r, cmd, advanced)
      /\ \A name : /\ name \in PresetNames(r) <=> name \in PresetNames(doc)
                   /\ WithPreset(r, name) = WithPreset(doc, name)
  BY <1>4, <1>5, <1>6, QuietEdit
<1> QED BY <1>1, <1>4, <1>5, <1>7

LEMMA FormPatch ==
  ASSUME form \in [Fields -> Texts \ {Missing}], NEW doc \in Documents
  PROVE  /\ PatchFromForm(doc) \in Settings_
         /\ \A f \in Fields \ {"created_by"} :
              ResolveSettings(OverlaySettings(Defaults(doc), PatchFromForm(doc)))[f] = form[f]
         /\ custom => ResolveSettings(OverlaySettings(Defaults(doc), PatchFromForm(doc))).created_by
                        = form.created_by
<1> DEFINE patch == PatchFromForm(doc)
           given == Defaults(doc)
<1>1. /\ form.format \in Texts \ {Missing} /\ form.trackers \in Texts \ {Missing}
      /\ form.comment \in Texts \ {Missing} /\ form.created_by \in Texts \ {Missing}
  BY DEF Fields
<1>2. given \in Settings_
  BY DocumentSettings
<1>3. /\ patch["format"] = Differing(form.format, First(given.format, "hybrid"))
      /\ patch["trackers"] = Differing(form.trackers, First(given.trackers, "[]"))
      /\ patch["comment"] = IF (IF form.comment = "" THEN Missing ELSE form.comment) = given.comment
                            THEN Missing ELSE form.comment
      /\ patch["created_by"] = IF custom THEN form.created_by ELSE Missing
  BY DEF PatchFromForm
<1>4. patch \in Settings_
  <2>1. /\ Differing(form.format, First(given.format, "hybrid")) \in Texts
        /\ Differing(form.trackers, First(given.trackers, "[]")) \in Texts
        /\ (IF (IF form.comment = "" THEN Missing ELSE form.comment) = given.comment
                            THEN Missing ELSE form.comment) \in Texts
        /\ (IF custom THEN form.created_by ELSE Missing) \in Texts
    BY <1>1, TextsAssumption DEF Differing
  <2> QED BY <2>1, RecordOfFields, Zenon DEF PatchFromForm, Settings_
<1> HIDE DEF patch, given
<1>5. \A f \in Fields : ResolveSettings(OverlaySettings(given, patch))[f]
                          = First(First(patch[f], given[f]), Fallback[f])
  <2>1. ASSUME NEW f \in Fields
        PROVE  ResolveSettings(OverlaySettings(given, patch))[f]
                          = First(First(patch[f], given[f]), Fallback[f])
    <3>1. OverlaySettings(given, patch)[f] = First(patch[f], given[f])
      BY <1>2, <1>4, OverlayTyped
    <3> QED BY <3>1, ResolvedFields
  <2> QED BY <2>1
<1>6. /\ Fallback["format"] = "hybrid" /\ Fallback["trackers"] = "[]"
      /\ Fallback["comment"] = "" /\ Fallback["created_by"] = "TorrentCraft"
      /\ {"format", "trackers", "comment", "created_by"} = Fields
  BY DEF Fallback, Fields
<1>7. ResolveSettings(OverlaySettings(given, patch))["format"] = form["format"]
  <2>1. First(First(patch["format"], given["format"]), "hybrid") = form["format"]
    BY <1>1, <1>3 DEF Differing, First
  <2> QED BY <2>1, <1>5, <1>6
<1>8. ResolveSettings(OverlaySettings(given, patch))["trackers"] = form["trackers"]
  <2>1. First(First(patch["trackers"], given["trackers"]), "[]") = form["trackers"]
    BY <1>1, <1>3 DEF Differing, First
  <2> QED BY <2>1, <1>5, <1>6
<1>9. ResolveSettings(OverlaySettings(given, patch))["comment"] = form["comment"]
  <2>1. First(First(patch["comment"], given["comment"]), "") = form["comment"]
    BY <1>1, <1>3 DEF First
  <2> QED BY <2>1, <1>5, <1>6
<1>10. custom => ResolveSettings(OverlaySettings(given, patch))["created_by"] = form["created_by"]
  <2>1. custom => First(First(patch["created_by"], given["created_by"]), "TorrentCraft")
                     = form["created_by"]
    BY <1>1, <1>3 DEF First
  <2> QED BY <2>1, <1>5, <1>6
<1>11. \A f \in Fields \ {"created_by"} :
              ResolveSettings(OverlaySettings(given, patch))[f] = form[f]
  BY <1>6, <1>7, <1>8, <1>9
<1> QED BY <1>4, <1>10, <1>11 DEF patch, given

\* import, save and delete.
LEMMA WindowPresetOutcome ==
  ASSUME NEW doc \in Documents, NEW cmd, GuiOpTyped(cmd),
         cmd.kind \in {"import", "save", "delete"},
         form \in [Fields -> Texts \ {Missing}], WindowEdit(doc, cmd) # None
  PROVE  LET r == WindowEdit(doc, cmd) IN
         /\ r \in Documents /\ Parses(r) /\ KeepsRest(doc, r, cmd, advanced)
         /\ r.canonical = doc.canonical /\ r.defaults = doc.defaults /\ r.machine = doc.machine
         /\ DefaultPreset(r) = DefaultPreset(doc)
         /\ \A n : n # cmd.name => /\ n \in PresetNames(r) <=> n \in PresetNames(doc)
                                   /\ WithPreset(r, n) = WithPreset(doc, n)
         /\ cmd.kind # "delete" => cmd.name \in PresetNames(r)
         /\ cmd.kind = "save" => \A f \in Fields : Preset(r, cmd.name)[f] = PatchFromForm(doc)[f]
<1> DEFINE patch == IF cmd.kind = "save" THEN PatchFromForm(doc) ELSE cmd.patch
           x == IF cmd.kind = "delete" THEN None ELSE ApplyPatch(EmptyObject, patch)
           r == WindowEdit(doc, cmd)
<1>1. patch \in Settings_ /\ cmd.name \in Names
  BY FormPatch DEF GuiOpTyped
<1>2. /\ r = [doc EXCEPT !.presets[cmd.name] = x] /\ x \in [Members -> Texts] \cup {None}
      /\ Parses(r)
      /\ cmd.kind # "delete" =>
           /\ cmd.name \in PresetNames(r)
           /\ \A f \in Fields : Preset(r, cmd.name)[f] = patch[f]
  <2>1. CASE cmd.kind = "delete"
    <3>1. r = RemovePreset(doc, cmd.name)
      BY <2>1 DEF WindowEdit
    <3> HIDE DEF r
    <3>2. r = [doc EXCEPT !.presets[cmd.name] = None] /\ Parses(r)
      BY <1>1, <3>1, RemoveOutcome DEF r
    <3> QED BY <2>1, <3>2
  <2>2. CASE cmd.kind # "delete"
    <3>1. r = AddPreset(doc, cmd.name, patch, TRUE)
      BY <2>2 DEF WindowEdit
    <3>2. r # None
      OBVIOUS
    <3> HIDE DEF patch, r
    <3>3. AddPreset(doc, cmd.name, patch, TRUE) # None /\ TRUE \in BOOLEAN
      BY <3>1, <3>2
    <3>4. LET q == AddPreset(doc, cmd.name, patch, TRUE) IN
          /\ q = [doc EXCEPT !.presets[cmd.name] = ApplyPatch(EmptyObject, patch)]
          /\ ApplyPatch(EmptyObject, patch) \in [Members -> Texts]
          /\ Parses(q) /\ cmd.name \in PresetNames(q)
          /\ \A f \in Fields : Preset(q, cmd.name)[f] = patch[f]
      <4> DEFINE yes == TRUE
      <4>1. yes \in BOOLEAN /\ AddPreset(doc, cmd.name, patch, yes) # None
        BY <3>3
      <4> HIDE DEF yes
      <4>2. LET q == AddPreset(doc, cmd.name, patch, yes) IN
          /\ q = [doc EXCEPT !.presets[cmd.name] = ApplyPatch(EmptyObject, patch)]
          /\ ApplyPatch(EmptyObject, patch) \in [Members -> Texts]
          /\ Parses(q) /\ cmd.name \in PresetNames(q)
          /\ \A f \in Fields : Preset(q, cmd.name)[f] = patch[f]
        BY <1>1, <4>1, AddOutcome
      <4> QED BY <4>2 DEF yes
    <3> QED BY <2>2, <3>1, <3>4, Zenon
  <2> QED BY <2>1, <2>2
<1>3. ASSUME NEW n
      PROVE  MayChange(cmd, advanced, doc, n) = IF cmd.name = Chosen(doc, n) THEN Fields ELSE {}
  <2>1. cmd.kind \in {"add", "import", "save", "remove", "delete"}
    OBVIOUS
  <2> QED BY <2>1, MayChangePreset, SMT
<1> HIDE DEF x, patch, r
<1>7. \A n \in Names \cup {""} :
        MayChange(cmd, advanced, doc, n) = IF cmd.name = Chosen(doc, n) THEN Fields ELSE {}
  BY <1>3
<1>4. DifferAt(cmd.name, doc, r)
  BY <1>1, <1>2, OnePreset
<1>5. KeepsRest(doc, r, cmd, advanced)
  BY <1>1, <1>4, <1>7, PresetEdit
<1>6. cmd.kind = "save" => patch = PatchFromForm(doc)
  BY DEF patch
<1> QED BY <1>2, <1>4, <1>5, <1>6 DEF r, DifferAt

\* A preset saved from the form shows as the form does.
LEMMA SavedShows ==
  ASSUME NEW doc \in Documents, NEW cmd, GuiOpTyped(cmd), cmd.kind = "save",
         form \in [Fields -> Texts \ {Missing}], custom \in BOOLEAN, WindowEdit(doc, cmd) # None
  PROVE  FormShows(WindowEdit(doc, cmd), cmd.name, NoSettings)
<1> DEFINE r == WindowEdit(doc, cmd)
           patch == PatchFromForm(doc)
           w == WithPreset(r, cmd.name)
<1>1. /\ r \in Documents /\ r.canonical = doc.canonical /\ r.defaults = doc.defaults
      /\ cmd.name \in PresetNames(r)
      /\ \A f \in Fields : Preset(r, cmd.name)[f] = patch[f]
  BY WindowPresetOutcome
<1>2. /\ patch \in Settings_
      /\ \A f \in Fields \ {"created_by"} :
              ResolveSettings(OverlaySettings(Defaults(doc), patch))[f] = form[f]
      /\ custom => ResolveSettings(OverlaySettings(Defaults(doc), patch)).created_by
                        = form.created_by
  BY FormPatch
<1> HIDE DEF r, patch
<1>3. Defaults(r) = Defaults(doc) /\ Defaults(doc) \in Settings_ /\ w \in Settings_
  BY <1>1, DocumentSettings DEF Defaults
<1>4. w = OverlaySettings(Defaults(doc), patch)
  <2>1. Preset(r, cmd.name) \in Settings_
    BY <1>1, DocumentSettings
  <2>2. Preset(r, cmd.name) = patch
    BY <1>1, <1>2, <2>1 DEF Settings_
  <2> QED BY <1>1, <1>3, <2>2 DEF WithPreset
<1>5. OverlaySettings(w, NoSettings) = w
  BY <1>3, OverlayNothing
<1>6. NoSettings.created_by = Missing
  BY DEF NoSettings, Fields
<1> QED BY <1>1, <1>2, <1>4, <1>5, <1>6 DEF FormShows, Shows, r

\* apply_advanced_configuration: the defaults and the machine.
PageTyped(page) ==
    /\ page.fields \in [Fields -> Texts \ {Missing, "bad"}]
    /\ page.machine \in Texts \ {Missing, "bad"} /\ page.default_preset \in Texts

LEMMA ShownTyped ==
  ASSUME NEW cmd, GuiOpTyped(cmd), PageTyped(advanced)
  PROVE  /\ PageTyped(Shown(cmd)) /\ Shown(cmd).filled = advanced.filled
         /\ \A f \in Fields : Shown(cmd).fields[f] = First(cmd.patch[f], advanced.fields[f])
         /\ Shown(cmd).machine = First(cmd.machine, advanced.machine)
         /\ Shown(cmd).default_preset = First(cmd.default_preset, advanced.default_preset)
<1>1. /\ Shown(cmd).filled = advanced.filled
      /\ Shown(cmd).fields = OverlaySettings(advanced.fields, cmd.patch)
      /\ Shown(cmd).machine = First(cmd.machine, advanced.machine)
      /\ Shown(cmd).default_preset = First(cmd.default_preset, advanced.default_preset)
  BY DEF Shown
<1>2. \A f \in Fields : OverlaySettings(advanced.fields, cmd.patch)[f]
                          = First(cmd.patch[f], advanced.fields[f])
  BY DEF OverlaySettings
<1>3. OverlaySettings(advanced.fields, cmd.patch) \in [Fields -> Texts \ {Missing, "bad"}]
  BY DEF OverlaySettings, First, PageTyped, GuiOpTyped
<1>4. /\ First(cmd.machine, advanced.machine) \in Texts \ {Missing, "bad"}
      /\ First(cmd.default_preset, advanced.default_preset) \in Texts
  BY DEF First, PageTyped, GuiOpTyped
<1> QED BY <1>1, <1>2, <1>3, <1>4 DEF PageTyped

LEMMA AppliedDefaultsOutcome ==
  ASSUME NEW doc \in Documents, Parses(doc), doc.canonical, NEW cmd, GuiOpTyped(cmd),
         PageTyped(advanced)
  PROVE  LET h == AppliedDefaults(doc, cmd) IN
         /\ h \in Documents /\ Parses(h) /\ h.canonical /\ h.presets = doc.presets
         /\ h.default_preset = doc.default_preset
         /\ h.gui_default_preset = doc.gui_default_preset
         /\ h.machine = Shown(cmd).machine /\ h.language = doc.language /\ h.recent = doc.recent
         /\ \A f \in Fields : Defaults(h)[f] =
              IF f = "comment" /\ Shown(cmd).fields[f] = "" THEN Defaults(doc)[f]
                                                           ELSE Shown(cmd).fields[f]
<1> DEFINE fields == Shown(cmd).fields
           machine == Shown(cmd).machine
           patch == [fields EXCEPT !.comment = IF @ = "" THEN Missing ELSE @]
           o == ApplyPatch(doc.defaults, patch)
           d == [doc EXCEPT !.defaults = o]
           h == [d EXCEPT !.machine = machine]
<1>1. fields \in [Fields -> Texts \ {Missing, "bad"}] /\ machine \in Texts \ {Missing, "bad"}
  BY ShownTyped DEF PageTyped
<1>2. AppliedDefaults(doc, cmd) = SetKey(SetDefaults(doc, patch), [scope |-> "machine"], machine)
  BY DEF AppliedDefaults
<1> HIDE DEF fields, machine
<1>3. /\ \A f \in Fields : patch[f] = IF f = "comment" /\ fields[f] = "" THEN Missing ELSE fields[f]
      /\ patch \in [Fields -> Texts \ {"bad"}]
  BY <1>1, TextsAssumption DEF Fields, Missing
<1>4. patch \in Settings_
  BY <1>3 DEF Settings_
<1> HIDE DEF patch
<1>5. doc.defaults \in [Members -> Texts] /\ o \in [Members -> Texts]
  BY <1>4, DocumentParts, PatchTyped
<1>6. \A m \in Members : o[m] # "bad"
  <2>1. \A m \in Members : doc.defaults[m] # "bad"
    BY DEF Parses, Sound
  <2>2. /\ patch["format"] # "bad" /\ patch["trackers"] # "bad" /\ patch["comment"] # "bad"
        /\ patch["created_by"] # "bad"
    BY <1>3 DEF Fields
  <2>3. ASSUME NEW m \in Members PROVE o[m] # "bad"
    <3>1. o[m] = CASE m = "tracker_tiers" -> First(patch["trackers"], doc.defaults[m])
                   [] m = "tracker_list" ->
                        IF patch["trackers"] = Missing THEN doc.defaults[m] ELSE Missing
                   [] OTHER -> First(patch[m], doc.defaults[m])
      BY DEF ApplyPatch
    <3>2. m \in {"format", "tracker_list", "tracker_tiers", "comment", "created_by"}
      BY DEF Members
    <3> HIDE DEF o
    <3>3. CASE m = "tracker_tiers"
      BY <2>1, <2>2, <3>1, <3>3 DEF First
    <3>4. CASE m = "tracker_list"
      BY <2>1, <2>2, <3>1, <3>4 DEF Missing
    <3>5. CASE m \in {"format", "comment", "created_by"}
      BY <2>1, <2>2, <3>1, <3>5 DEF First
    <3> QED BY <3>2, <3>3, <3>4, <3>5
  <2> QED BY <2>3
<1>7. /\ d \in Documents /\ d.canonical /\ d.presets = doc.presets /\ d.defaults = o
      /\ d.default_preset = doc.default_preset /\ d.machine = doc.machine
      /\ d.gui_default_preset = doc.gui_default_preset
      /\ d.language = doc.language /\ d.recent = doc.recent
  BY <1>5, DocumentParts DEF Documents
<1>8. SetDefaults(doc, patch) = Checked(d)
  BY DEF SetDefaults
<1> HIDE DEF o, d
<1>9. Parses(d)
  BY <1>6, <1>7 DEF Parses, Sound
<1>10. SetDefaults(doc, patch) = d
  BY <1>7, <1>8, <1>9, CheckedOutcome
<1>11. SetKey(d, [scope |-> "machine"], machine) = Checked(h)
  BY <1>7 DEF SetKey
<1>12. /\ h \in Documents /\ h.canonical /\ h.presets = d.presets /\ h.defaults = d.defaults
       /\ h.default_preset = d.default_preset /\ h.machine = machine
       /\ h.gui_default_preset = d.gui_default_preset
       /\ h.language = d.language /\ h.recent = d.recent
  BY <1>1, <1>7, DocumentParts DEF Documents
<1> HIDE DEF h
<1>13. Parses(h)
  BY <1>1, <1>9, <1>12, <1>7 DEF Parses
<1>14. AppliedDefaults(doc, cmd) = h
  BY <1>2, <1>10, <1>11, <1>12, <1>13, CheckedOutcome
<1>15. ASSUME NEW f \in Fields
       PROVE  Defaults(h)[f] =
                IF f = "comment" /\ fields[f] = "" THEN Defaults(doc)[f] ELSE fields[f]
  <2>1. /\ Defaults(h) = ParseSettings(o, TRUE)
        /\ Defaults(doc) = ParseSettings(doc.defaults, TRUE)
    BY <1>7, <1>12 DEF Defaults, Documents
  <2>2. ParseSettings(o, TRUE)[f] = First(patch[f], ParseSettings(doc.defaults, TRUE)[f])
    BY <1>4, <1>5, PatchedSettings DEF o
  <2> QED BY <1>1, <1>3, <2>1, <2>2 DEF First
<1> QED BY <1>7, <1>12, <1>13, <1>14, <1>15 DEF fields, machine

\* What an apply makes of the defaults, of the document or of the half of it that a refusal
\* leaves behind.
Applies(cmd, doc, r) ==
    /\ r \in Documents /\ Parses(r) /\ doc.canonical /\ r.canonical /\ r.presets = doc.presets
    /\ r.machine = Shown(cmd).machine /\ r.language = doc.language /\ r.recent = doc.recent
    /\ \A f \in Fields : Defaults(r)[f] =
         IF f = "comment" /\ Shown(cmd).fields[f] = "" THEN Defaults(doc)[f]
                                                      ELSE Shown(cmd).fields[f]

LEMMA AppliesShows ==
  ASSUME NEW doc, NEW r, NEW cmd, GuiOpTyped(cmd), PageTyped(advanced), Applies(cmd, doc, r)
  PROVE  PageShows(Shown(cmd), r)
<1> DEFINE page == Shown(cmd)
<1>1. PageTyped(page)
  BY ShownTyped
<1>2. r.machine = page.machine
      /\ \A f \in Fields : Defaults(r)[f] =
           IF f = "comment" /\ page.fields[f] = "" THEN Defaults(doc)[f] ELSE page.fields[f]
  BY DEF Applies
<1> HIDE DEF page
<1>3. ASSUME NEW f \in Fields
      PROVE  \/ page.fields[f] = ResolveSettings(Defaults(r))[f]
             \/ f = "comment" /\ page.fields[f] = ""
  <2>1. ResolveSettings(Defaults(r))[f] = First(Defaults(r)[f], Fallback[f])
    BY ResolvedFields
  <2>2. page.fields[f] # Missing
    BY <1>1 DEF PageTyped
  <2> QED BY <1>2, <2>1, <2>2 DEF First
<1>4. page.machine = First(r.machine, "builtin")
  BY <1>1, <1>2 DEF PageTyped, First
<1> QED BY <1>3, <1>4 DEF PageShows, page

\* The fields that nobody touched on a page that shows the document keep their meaning.
LEMMA AppliesKeeps ==
  ASSUME NEW doc \in Documents, NEW r, NEW cmd, GuiOpTyped(cmd), PageTyped(advanced),
         Applies(cmd, doc, r), PageShows(advanced, doc),
         NEW f \in Fields, cmd.patch[f] = Missing
  PROVE  ResolveSettings(Defaults(r))[f] = ResolveSettings(Defaults(doc))[f]
<1>1. Shown(cmd).fields[f] = First(cmd.patch[f], advanced.fields[f])
  BY ShownTyped
<1>2. Shown(cmd).fields[f] = advanced.fields[f] /\ advanced.fields[f] # Missing
  BY <1>1 DEF First, PageTyped
<1>3. /\ ResolveSettings(Defaults(r))[f] = First(Defaults(r)[f], Fallback[f])
      /\ ResolveSettings(Defaults(doc))[f] = First(Defaults(doc)[f], Fallback[f])
  BY ResolvedFields
<1>4. \/ advanced.fields[f] = ResolveSettings(Defaults(doc))[f]
      \/ f = "comment" /\ advanced.fields[f] = ""
  BY DEF PageShows
<1>5. Defaults(r)[f] = IF f = "comment" /\ Shown(cmd).fields[f] = "" THEN Defaults(doc)[f]
                                                                    ELSE Shown(cmd).fields[f]
  BY DEF Applies
<1> QED BY <1>2, <1>3, <1>4, <1>5 DEF First

LEMMA MayChangeApply ==
  ASSUME NEW cmd, cmd.kind = "apply", NEW doc, NEW n
  PROVE  MayChange(cmd, advanced, doc, n) =
           IF n = "" /\ (cmd.default_preset # Missing \/ advanced.default_preset # Offered(doc))
           THEN Fields ELSE {f \in Fields : cmd.patch[f] # Missing}
BY DEF MayChange

LEMMA HalfApplied ==
  ASSUME NEW doc \in Documents, Parses(doc), doc.canonical, NEW cmd, GuiOpTyped(cmd),
         PageTyped(advanced)
  PROVE  Applies(cmd, doc, AppliedDefaults(doc, cmd))
BY AppliedDefaultsOutcome DEF Applies

LEMMA ApplyOutcome ==
  ASSUME NEW doc \in Documents, Parses(doc), NEW cmd, GuiOpTyped(cmd), cmd.kind = "apply",
         PageTyped(advanced), WindowEdit(doc, cmd) # None
  PROVE  LET r == WindowEdit(doc, cmd) IN
         Applies(cmd, doc, r) /\ (PageShows(advanced, doc) => KeepsRest(doc, r, cmd, advanced))
<1> DEFINE r == WindowEdit(doc, cmd)
           h == AppliedDefaults(doc, cmd)
           chosen == Shown(cmd).default_preset
           prefs == [default_preset |-> IF chosen = "" THEN Missing ELSE chosen,
                     recent |-> doc.recent, specified |-> cmd.pathless]
<1>1. doc.canonical /\ r = SetGuiPreferences(h, prefs)
  BY DEF WindowEdit, Applied
<1>2. Applies(cmd, doc, h)
  BY <1>1, HalfApplied
<1>3. chosen \in Texts /\ chosen = First(cmd.default_preset, advanced.default_preset)
  BY ShownTyped DEF PageTyped
<1>4. /\ prefs.default_preset = IF chosen = "" THEN Missing ELSE chosen
      /\ prefs.recent = doc.recent
      /\ prefs.default_preset \in Texts /\ prefs.recent \in Texts
  BY <1>3, DocumentParts, TextsAssumption
<1>10. r # None
  OBVIOUS
<1> HIDE DEF prefs, h, chosen, r
<1>9. h \in Documents /\ SetGuiPreferences(h, prefs) # None
  BY <1>1, <1>2, <1>10 DEF Applies
<1>5. /\ r \in Documents /\ Parses(r)
      /\ r.canonical = h.canonical /\ r.defaults = h.defaults /\ r.presets = h.presets
      /\ r.default_preset = prefs.default_preset /\ r.gui_default_preset = Missing
      /\ r.machine = h.machine /\ r.recent = prefs.recent /\ r.language = h.language
  BY <1>1, <1>4, <1>9, PreferencesOutcome
<1>6. Defaults(r) = Defaults(h)
  BY <1>5, Zenon DEF Defaults
<1>7. Applies(cmd, doc, r)
  BY <1>2, <1>4, <1>5, <1>6 DEF Applies
<1>8. ASSUME PageShows(advanced, doc)
      PROVE  KeepsRest(doc, r, cmd, advanced)
  <2>1. ASSUME NEW n \in Names \cup {""}, MayChange(cmd, advanced, doc, n) # Fields
        PROVE  /\ n \in PresetNames(doc) <=> n \in PresetNames(r)
               /\ \A f \in Fields \ MayChange(cmd, advanced, doc, n) :
                    ResolveSettings(WithPreset(r, Chosen(r, n)))[f]
                      = ResolveSettings(WithPreset(doc, Chosen(doc, n)))[f]
    <3>1. r.canonical = doc.canonical /\ r.presets = doc.presets
      BY <1>7, DocumentParts DEF Applies, Documents
    <3>2. PresetNames(r) = PresetNames(doc)
      BY <3>1, Zenon DEF PresetNames
    <3>3. ASSUME NEW f \in Fields \ MayChange(cmd, advanced, doc, n)
          PROVE  ResolveSettings(WithPreset(r, Chosen(r, n)))[f]
                      = ResolveSettings(WithPreset(doc, Chosen(doc, n)))[f]
      <4>1. /\ cmd.patch[f] = Missing
            /\ n = "" => cmd.default_preset = Missing /\ advanced.default_preset = Offered(doc)
        <5>1. MayChange(cmd, advanced, doc, n) =
           IF n = "" /\ (cmd.default_preset # Missing \/ advanced.default_preset # Offered(doc))
           THEN Fields ELSE {g \in Fields : cmd.patch[g] # Missing}
          BY MayChangeApply
        <5> QED BY <2>1, <5>1
      <4>2. ResolveSettings(Defaults(r))[f] = ResolveSettings(Defaults(doc))[f]
        BY <4>1, <1>7, <1>8, AppliesKeeps
      <4>3. \A name : ResolveSettings(WithPreset(r, name))[f]
                        = ResolveSettings(WithPreset(doc, name))[f]
        BY <1>5, <3>1, <4>2, SameField
      <4>4. CASE n # "" \/ DefaultPreset(doc) \in PresetNames(doc)
        <5>1. Chosen(r, n) = Chosen(doc, n)
          <6>1. CASE n # ""
            BY <6>1 DEF Chosen
          <6>2. CASE n = ""
            <7>1. chosen = DefaultPreset(doc) /\ chosen # "" /\ chosen # Missing
              BY <1>3, <4>1, <4>4, <6>2, DocumentSettings DEF Offered, First
            <7>2. DefaultPreset(r) = chosen
              BY <1>4, <1>5, <1>7, <7>1 DEF DefaultPreset, First, Applies
            <7> QED BY <6>2, <7>1, <7>2 DEF Chosen
          <6> QED BY <6>1, <6>2
        <5> QED BY <4>3, <5>1
      <4>5. CASE n = "" /\ DefaultPreset(doc) \notin PresetNames(doc)
        <5>1. chosen = ""
          BY <1>3, <4>1, <4>5 DEF Offered, First
        <5>2. DefaultPreset(r) = Missing
          BY <1>4, <1>5, <5>1 DEF DefaultPreset, First
        <5>3. /\ WithPreset(r, Chosen(r, n)) = Defaults(r)
              /\ WithPreset(doc, Chosen(doc, n)) = Defaults(doc)
          BY <3>2, <4>5, <5>2, DocumentSettings DEF Chosen, WithPreset
        <5> QED BY <4>2, <5>3
      <4> QED BY <4>4, <4>5
    <3> QED BY <3>2, <3>3
  <2>2. First(r.machine, "builtin") = First(doc.machine, "builtin") \/ cmd.machine # Missing
    <3>1. r.machine = First(cmd.machine, advanced.machine)
      BY <1>7, ShownTyped DEF Applies
    <3> QED BY <1>8, <3>1 DEF PageShows, PageTyped, First
  <2>3. r.language = doc.language /\ r.recent = doc.recent
    BY <1>7 DEF Applies
  <2> QED BY <1>5, <2>1, <2>2, <2>3, KeepsRestFrom
<1> QED BY <1>7, <1>8 DEF r

-----------------------------------------------------------------------------
(* What a step leaves alone *)

\* What has an actor changed by others? Nothing, unless the file is stale for it afterwards.
Untouched(b) ==
    /\ \A q \in Paths : fs[q] # None => fs'[q] # None
    /\ \A q \in Paths :
         /\ <<b, q>> \notin stale'
         /\ proc[b].home = q \/ (At(b, "placing") /\ proc[b].path = q)
         => <<b, q>> \notin stale /\ fs'[q] = fs[q]

LEMMA QuietStep ==
  ASSUME NEW b, UNCHANGED fs, \A q : <<b, q>> \in stale => <<b, q>> \in stale'
  PROVE  Untouched(b)
BY DEF Untouched

LEMMA FileStep ==
  ASSUME TypeOK, NEW a \in Actors, NEW b \in Actors \ {a}, NEW p \in Paths, NEW x \in Documents,
         fs' = [fs EXCEPT ![p] = x], stale' = (stale \cup Others(a, p)) \ {<<a, p>>}
  PROVE  Untouched(b)
<1>1. x # None
  BY NoneAssumption
<1>2. \A q \in Paths : fs'[q] = IF q = p THEN x ELSE fs[q]
  BY DEF TypeOK
<1>3. \A q : <<b, q>> \in stale => <<b, q>> \in stale'
  OBVIOUS
<1>4. proc[b].home = p \/ (At(b, "placing") /\ proc[b].path = p) => <<b, p>> \in stale'
  BY DEF Others
<1> QED BY <1>1, <1>2, <1>3, <1>4 DEF Untouched

\* No operation but an apply depends on the Advanced page.
LEMMA KeepsRestStable ==
  ASSUME NEW before, NEW after, NEW cmd, NEW page, NEW page2,
         cmd.kind = "apply" => page2.default_preset = First(cmd.default_preset, page.default_preset)
  PROVE  KeepsRest(before, after, cmd, page) => KeepsRest(before, after, cmd, page2)
<1>1. ASSUME NEW n
      PROVE  MayChange(cmd, page2, before, n) = MayChange(cmd, page, before, n)
  <2>1. CASE cmd.kind = "apply"
    <3> DEFINE touched == {f \in Fields : cmd.patch[f] # Missing}
               All(p) == /\ n = ""
                         /\ cmd.default_preset # Missing \/ p.default_preset # Offered(before)
    <3>1. /\ MayChange(cmd, page, before, n) = IF All(page) THEN Fields ELSE touched
          /\ MayChange(cmd, page2, before, n) = IF All(page2) THEN Fields ELSE touched
      BY <2>1 DEF MayChange
    <3>2. cmd.default_preset # Missing \/ page2.default_preset = page.default_preset
      BY <2>1 DEF First
    <3>3. All(page) <=> All(page2)
      BY <3>2
    <3> HIDE DEF touched, All
    <3> QED BY <3>1, <3>3
  <2>2. CASE cmd.kind # "apply"
    BY <2>2 DEF MayChange
  <2> QED BY <2>1, <2>2
<1> QED BY <1>1 DEF KeepsRest

LEMMA OperationKinds ==
  ASSUME NEW cmd \in CommandOps
  PROVE  cmd.kind # "apply"
BY DEF CommandOps, CommandKinds

\* A command line to which nothing happens.
LEMMA CommandBystander ==
  ASSUME IInv, NEW c \in Clis, proc'[c] = proc[c], Untouched(c)
  PROVE  DocumentKept(c)' /\ CommandStages(c)' /\ CommandExact(c)'
<1>1. CommandStages(c) /\ CommandExact(c) /\ DocumentKept(c)
  BY DEF IInv, Actors
<1>2. CommandStages(c)'
  BY <1>1 DEF CommandStages, At, Op, Mem
<1>3. DocumentKept(c)'
  <2>1. (Mem(c) # None => Parses(Mem(c)) /\ proc[c].home \in Paths /\ fs[proc[c].home] # None)'
    BY <1>1 DEF DocumentKept, Mem, Untouched
  <2>2. (At(c, "reading") => OnDisk(c) # None)'
    BY <1>1 DEF DocumentKept, At, OnDisk, Untouched, CommandStages, Resting
  <2>3. (At(c, "placing") /\ <<c, proc[c].path>> \notin stale =>
         OnDisk(c) = None \/ (c # Gui /\ Op(c).force))'
    BY <1>1 DEF DocumentKept, At, OnDisk, Untouched, CommandStages, Resting, Op
  <2> QED BY <2>1, <2>2, <2>3 DEF DocumentKept
<1>4. CommandExact(c)'
  <2> SUFFICES ASSUME ~Stale(c)'
               PROVE  (/\ At(c, "editing") => Mem(c) = fs[proc[c].home]
                       /\ proc[c].pc \in {"backing", "saving"} =>
                            KeepsRest(fs[proc[c].home], Mem(c), Op(c), advanced)
                       /\ At(c, "saving") /\ Op(c).backup => proc[c].backup = fs[proc[c].home])'
    BY DEF CommandExact
  <2>1. CASE Mem(c) = None
    BY <1>1, <2>1 DEF CommandStages, At, Mem
  <2>2. CASE Mem(c) # None
    <3>1. ~Stale(c) /\ fs'[proc[c].home] = fs[proc[c].home]
      BY <1>1, <2>2 DEF DocumentKept, Untouched, Stale
    <3>2. proc[c].pc \in {"backing", "saving"} =>
            KeepsRest(fs[proc[c].home], Mem(c), Op(c), advanced')
      <4>1. ASSUME proc[c].pc \in {"backing", "saving"}
            PROVE  KeepsRest(fs[proc[c].home], Mem(c), Op(c), advanced')
        <5>1. Op(c).kind # "apply"
          BY <1>1, <4>1, OperationKinds DEF CommandStages, Resting
        <5>2. KeepsRest(fs[proc[c].home], Mem(c), Op(c), advanced)
          BY <1>1, <3>1, <4>1 DEF CommandExact
        <5> QED BY <5>1, <5>2, KeepsRestStable
      <4> QED BY <4>1
    <3> QED BY <1>1, <3>1, <3>2 DEF CommandExact, At, Mem, Op
  <2> QED BY <2>1, <2>2
<1> QED BY <1>2, <1>3, <1>4

\* The window when a command line takes a step.
LEMMA WindowBystander ==
  ASSUME IInv, proc'[Gui] = proc[Gui], Untouched(Gui), UNCHANGED window
  PROVE  DocumentKept(Gui)' /\ WindowStages' /\ WindowExact' /\ FormTrue' /\ PageTrue'
<1>1. WindowStages /\ WindowExact /\ DocumentKept(Gui) /\ FormTrue /\ PageTrue
  BY DEF IInv, Actors
<1>2. WindowStages'
  BY <1>1 DEF WindowStages, At, Op, Mem
<1>3. DocumentKept(Gui)'
  <2>1. (Mem(Gui) # None =>
           Parses(Mem(Gui)) /\ proc[Gui].home \in Paths /\ fs[proc[Gui].home] # None)'
    BY <1>1 DEF DocumentKept, Mem, Untouched
  <2>2. (At(Gui, "reading") => OnDisk(Gui) # None)'
    BY <1>1 DEF DocumentKept, At, OnDisk, Untouched, WindowStages, Resting
  <2>3. (At(Gui, "placing") /\ <<Gui, proc[Gui].path>> \notin stale =>
         OnDisk(Gui) = None \/ (Gui # Gui /\ Op(Gui).force))'
    BY <1>1 DEF DocumentKept, At, OnDisk, Untouched, WindowStages, Resting
  <2> QED BY <2>1, <2>2, <2>3 DEF DocumentKept
<1>4. WindowExact'
  <2>1. CASE Mem(Gui) = None
    BY <2>1 DEF WindowExact, Mem
  <2>2. CASE Mem(Gui) # None
    <3>1. ~Stale(Gui)' => ~Stale(Gui) /\ fs'[proc[Gui].home] = fs[proc[Gui].home]
      BY <1>1, <2>2 DEF DocumentKept, Untouched, Stale
    <3>2. advanced' = advanced /\ unsaved' = unsaved
      BY DEF window
    <3> QED BY <1>1, <2>2, <3>1, <3>2 DEF WindowExact, At, Mem, Op
  <2> QED BY <2>1, <2>2
<1>5. FormTrue' /\ PageTrue'
  BY <1>1 DEF FormTrue, FormShows, PageTrue, ToBeShown, At, Mem, Op, window
<1> QED BY <1>2, <1>3, <1>4, <1>5

\* What is left to show of a step of a command line, and of one of the window.
LEMMA CommandStepKeeps ==
  ASSUME IInv, NEW c \in Clis, UNCHANGED window,
         \A b \in Actors \ {c} : proc'[b] = proc[b] /\ Untouched(b),
         TypeOK', FilesLoad', DocumentKept(c)', CommandStages(c)', CommandExact(c)'
  PROVE  IInv'
<1>1. c # Gui /\ Gui \in Actors \ {c} /\ Clis \subseteq Actors
  BY ConfigAssumption DEF Actors
<1>2. DocumentKept(Gui)' /\ WindowStages' /\ WindowExact' /\ FormTrue' /\ PageTrue'
  BY <1>1, WindowBystander
<1>3. ASSUME NEW b \in Clis
      PROVE  DocumentKept(b)' /\ CommandStages(b)' /\ CommandExact(b)'
  <2>1. CASE b = c
    BY <2>1
  <2>2. CASE b # c
    BY <1>1, <2>2, CommandBystander
  <2> QED BY <2>1, <2>2
<1> QED BY <1>2, <1>3 DEF IInv, Actors

LEMMA WindowStepKeeps ==
  ASSUME IInv, \A b \in Clis : proc'[b] = proc[b] /\ Untouched(b),
         TypeOK', FilesLoad', DocumentKept(Gui)', WindowStages', WindowExact', FormTrue', PageTrue'
  PROVE  IInv'
<1>1. ASSUME NEW b \in Clis
      PROVE  DocumentKept(b)' /\ CommandStages(b)' /\ CommandExact(b)'
  BY CommandBystander
<1> QED BY <1>1 DEF IInv, Actors

-----------------------------------------------------------------------------
(* Finding the file *)

\* A set of numbers has a least one.
LEMMA LeastNat ==
  ASSUME NEW T, T \subseteq Nat, T # {}
  PROVE  \E x \in T : \A y \in T : x <= y
<1> DEFINE U == {0..(n - 1) : n \in T}
<1>1. U \subseteq FiniteSubsetsOf(Nat) /\ U # {}
  <2>1. ASSUME NEW n \in T PROVE 0..(n - 1) \in FiniteSubsetsOf(Nat)
    BY FS_Interval DEF FiniteSubsetsOf
  <2> QED BY <2>1
<1>2. PICK u \in U : \A v \in U : ~(<<v, u>> \in StrictSubsetOrdering(Nat))
  BY <1>1, FS_StrictSubsetOrderingWellFounded, WFMin, Zenon
<1>3. PICK x \in T : u = 0..(x - 1)
  BY <1>2
<1>4. ASSUME NEW y \in T, y < x PROVE FALSE
  <2>1. y \in 0..(x - 1) /\ y \notin 0..(y - 1)
    BY <1>4
  <2>2. 0..(y - 1) \subseteq 0..(x - 1) /\ 0..(x - 1) \subseteq Nat
    BY <1>4
  <2>3. <<0..(y - 1), u>> \in StrictSubsetOrdering(Nat)
    BY <2>1, <2>2, <1>3 DEF StrictSubsetOrdering
  <2> QED BY <2>3, <1>2
<1> QED BY <1>4


\* A path, or none.
LEMMA SearchFinds ==
  ASSUME NEW explicit \in Paths \cup {None}
  PROVE  /\ DiscoverConfig(explicit) \in Paths \cup {None}
         /\ InitTarget(explicit) \in Paths \cup {None}
<1>1. ASSUME NEW S
      PROVE  FirstIn(S) \in Paths \cup {None}
  <2> DEFINE T == {i \in DOMAIN SearchPath : SearchPath[i] \in S}
  <2>1. CASE T = {}
    BY <2>1 DEF FirstIn
  <2>2. CASE T # {}
    <3>1. DOMAIN SearchPath = 1 .. Len(SearchPath) /\ Len(SearchPath) \in Nat
      BY ConfigAssumption
    <3>2. T \subseteq Nat
      BY <3>1
    <3>3. PICK i \in T : \A j \in T : i <= j
      BY <2>2, <3>2, LeastNat
    <3>4. /\ i \in DOMAIN SearchPath /\ SearchPath[i] \in S
          /\ \A j \in 1 .. i - 1 : SearchPath[j] \notin S
      BY <3>1, <3>2, <3>3
    <3> DEFINE k == CHOOSE x \in DOMAIN SearchPath :
                      SearchPath[x] \in S /\ \A j \in 1 .. x - 1 : SearchPath[j] \notin S
    <3>5. k \in DOMAIN SearchPath
      BY <3>4
    <3>6. FirstIn(S) = SearchPath[k]
      BY <3>4 DEF FirstIn
    <3> QED BY <3>5, <3>6 DEF Paths
  <2> QED BY <2>1, <2>2
<1>2. SearchPath[1] \in Paths
  <2>1. PICK i \in DOMAIN SearchPath : TRUE
    BY ConfigAssumption DEF Paths
  <2>2. 1 \in DOMAIN SearchPath
    BY <2>1, ConfigAssumption
  <2> QED BY <2>2 DEF Paths
<1> QED BY <1>1, <1>2 DEF DiscoverConfig, InitTarget

-----------------------------------------------------------------------------
(* The steps of a command line *)

\* The parts of an actor, and an actor that differs in some of them.
LEMMA ProcessParts ==
  ASSUME TypeOK, NEW a \in Actors
  PROVE  /\ proc[a] \in Processes
         /\ proc[a].pc \in Stages /\ proc[a].op \in CommandOps \cup GuiOps \cup {Idle, Start}
         /\ proc[a].path \in Paths \cup {None} /\ proc[a].seen \in Documents \cup {None}
         /\ proc[a].mem \in Documents \cup {None} /\ proc[a].home \in Paths \cup {None}
         /\ proc[a].backup \in Documents \cup {None}
BY DEF TypeOK, Processes

LEMMA CommandParts ==
  ASSUME NEW cmd \in CommandOps
  PROVE  /\ cmd.kind \in CommandKinds /\ cmd.path \in Paths \cup {None} /\ cmd.key \in Keys
         /\ cmd.value \in Texts /\ cmd.name \in Names /\ cmd.patch \in Settings_
         /\ cmd.backup \in BOOLEAN
         /\ [cmd EXCEPT !.created = TRUE] \in CommandOps
         /\ [cmd EXCEPT !.created = TRUE].kind = cmd.kind
BY DEF CommandOps, Settings_

\* A process that has exited promises nothing.
LEMMA EndCommand ==
  ASSUME TypeOK, NEW c \in Clis, End(c)
  PROVE  /\ proc' \in [Actors -> Processes] /\ proc'[c] = Blank("done")
         /\ \A b \in Actors \ {c} : proc'[b] = proc[b]
         /\ DocumentKept(c)' /\ CommandStages(c)' /\ CommandExact(c)'
<1>1. c # Gui /\ c \in Actors
  BY ConfigAssumption DEF Actors
<1>2. Blank("done") \in Processes
  BY DEF Blank, Processes, Stages
<1>3. proc' = [proc EXCEPT ![c] = Blank("done")]
  BY <1>1 DEF End
<1>4. /\ proc' \in [Actors -> Processes] /\ proc'[c] = Blank("done")
      /\ \A b \in Actors \ {c} : proc'[b] = proc[b]
  BY <1>1, <1>2, <1>3 DEF TypeOK
<1>5. proc'[c].pc = "done" /\ proc'[c].mem = None
  BY <1>4 DEF Blank
<1>6. DocumentKept(c)' /\ CommandStages(c)' /\ CommandExact(c)'
  BY <1>5 DEF DocumentKept, CommandStages, CommandExact, At, Mem, Resting
<1> QED BY <1>4, <1>6

\* A step that reads: the files are as they were.
LEMMA ReadingStep ==
  ASSUME IInv, NEW c \in Clis, UNCHANGED <<fs, window, steps>>, stale' \subseteq stale,
         \A b \in Actors \ {c} : \A q : <<b, q>> \in stale => <<b, q>> \in stale',
         proc' \in [Actors -> Processes], \A b \in Actors \ {c} : proc'[b] = proc[b],
         DocumentKept(c)', CommandStages(c)', CommandExact(c)'
  PROVE  IInv'
<1>1. TypeOK /\ FilesLoad
  BY DEF IInv
<1>2. TypeOK' /\ FilesLoad'
  BY <1>1 DEF TypeOK, FilesLoad, window
<1>3. \A b \in Actors \ {c} : proc'[b] = proc[b] /\ Untouched(b)
  BY QuietStep
<1> QED BY <1>2, <1>3, CommandStepKeeps

LEMMA EndReading ==
  ASSUME IInv, NEW c \in Clis, End(c), UNCHANGED <<fs, stale, window, steps>>
  PROVE  IInv'
<1>1. TypeOK
  BY DEF IInv
<1> QED BY <1>1, EndCommand, ReadingStep

LEMMA StartCommandKeeps ==
  ASSUME IInv, NEW c \in Clis, StartCommand(c)
  PROVE  IInv'
<1>1. TypeOK /\ CommandStages(c) /\ DocumentKept(c) /\ c \in Actors
  BY DEF IInv, Actors
<1>2. UNCHANGED <<fs, stale, window, steps>> /\ At(c, "idle")
  BY DEF StartCommand
<1>3. PICK cmd \in Commands :
        LET p == IF cmd.kind = "init" THEN InitTarget(cmd.path) ELSE DiscoverConfig(cmd.path) IN
        IF p = None THEN End(c)
        ELSE proc' = [proc EXCEPT ![c].op = cmd, ![c].path = p,
                                  ![c].pc = IF cmd.kind = "init" THEN "creating" ELSE "sizing"]
  BY DEF StartCommand
<1> DEFINE p == IF cmd.kind = "init" THEN InitTarget(cmd.path) ELSE DiscoverConfig(cmd.path)
           label == IF cmd.kind = "init" THEN "creating" ELSE "sizing"
           new == [proc[c] EXCEPT !.op = cmd, !.path = p, !.pc = label]
<1>4. cmd \in CommandOps
  BY CommandsAssumption
<1>5. p \in Paths \cup {None}
  BY <1>4, CommandParts, SearchFinds
<1>6. CASE p = None
  BY <1>2, <1>3, <1>6, EndReading
<1>7. CASE p # None
  <2>1. proc' = [proc EXCEPT ![c] = new]
    BY <1>1, <1>3, <1>7 DEF TypeOK
  <2>2. label \in Stages \ Resting /\ label \in {"creating", "sizing"}
        /\ (label = "creating" => cmd.kind = "init")
    BY DEF Stages, Resting
  <2> HIDE DEF p, label
  <2>3. /\ new \in Processes /\ new.op = cmd /\ new.path = p /\ new.pc = label
        /\ new.mem = proc[c].mem /\ new.home = proc[c].home
    BY <1>1, <1>4, <1>5, <2>2, ProcessParts DEF Processes
  <2> HIDE DEF new
  <2>4. /\ proc' \in [Actors -> Processes] /\ proc'[c] = new
        /\ \A b \in Actors \ {c} : proc'[b] = proc[b]
    BY <1>1, <2>1, <2>3 DEF TypeOK
  <2>5. proc[c].mem = None
    BY <1>1, <1>2 DEF CommandStages, At, Mem
  <2>6. CommandStages(c)'
    BY <1>4, <1>5, <1>7, <2>2, <2>3, <2>4, <2>5 DEF CommandStages, At, Mem, Op, Resting
  <2>7. DocumentKept(c)' /\ CommandExact(c)'
    BY <2>2, <2>3, <2>4, <2>5 DEF DocumentKept, CommandExact, At, Mem
  <2> QED BY <1>2, <2>4, <2>6, <2>7, ReadingStep
<1> QED BY <1>6, <1>7

LEMMA EditCommandKeeps ==
  ASSUME IInv, NEW c \in Clis, EditCommand(c)
  PROVE  IInv'
<1> DEFINE doc == CommandEdit(Op(c), Mem(c))
           label == IF Op(c).backup THEN "backing" ELSE "saving"
           new == [proc[c] EXCEPT !.mem = doc, !.pc = label]
<1>1. TypeOK /\ CommandStages(c) /\ DocumentKept(c) /\ CommandExact(c) /\ c \in Actors
  BY DEF IInv, Actors
<1>2. UNCHANGED <<fs, stale, window, steps>> /\ At(c, "editing")
  BY DEF EditCommand
<1>3. CASE End(c)
  BY <1>2, <1>3, EndReading
<1>4. CASE ~End(c)
  <2>1. /\ Op(c).kind # "init" /\ doc # None
        /\ proc' = [proc EXCEPT ![c].mem = doc, ![c].pc = label]
    BY <1>4 DEF EditCommand
  <2>2. proc' = [proc EXCEPT ![c] = new]
    BY <1>1, <2>1 DEF TypeOK
  <2>3. Op(c) \in CommandOps /\ proc[c].path \in Paths /\ Mem(c) \in Documents
    BY <1>1, <1>2, ProcessParts DEF CommandStages, At, Resting, Mem
  <2>4. doc \in Documents /\ Parses(doc) /\ KeepsRest(Mem(c), doc, Op(c), advanced)
    BY <2>1, <2>3, CommandOutcome
  <2>5. Mem(c) # None
    BY <2>3, NoneAssumption
  <2>6. label \in Stages /\ label \in {"backing", "saving"}
        /\ (label = "saving" => ~Op(c).backup)
    BY DEF Stages
  <2> HIDE DEF doc, label
  <2>7. /\ new \in Processes /\ new.op = Op(c) /\ new.path = proc[c].path /\ new.pc = label
        /\ new.mem = doc /\ new.home = proc[c].home
    BY <1>1, <2>4, <2>6, ProcessParts DEF Processes, Op
  <2> HIDE DEF new
  <2>8. /\ proc' \in [Actors -> Processes] /\ proc'[c] = new
        /\ \A b \in Actors \ {c} : proc'[b] = proc[b]
    BY <1>1, <2>2, <2>7 DEF TypeOK
  <2>9. CommandStages(c)'
    BY <2>1, <2>3, <2>6, <2>7, <2>8 DEF CommandStages, At, Mem, Op, Resting
  <2>10. DocumentKept(c)'
    BY <1>1, <1>2, <2>4, <2>5, <2>6, <2>7, <2>8 DEF DocumentKept, At, Mem
  <2>11. CommandExact(c)'
    <3>1. ~Stale(c)' => Mem(c) = fs[proc[c].home]
      BY <1>1, <1>2, <2>7, <2>8 DEF CommandExact, Stale
    <3>2. ~Stale(c)' => KeepsRest(fs'[proc'[c].home], proc'[c].mem, proc'[c].op, advanced')
      BY <1>2, <2>4, <2>7, <2>8, <3>1 DEF window
    <3> QED BY <2>6, <2>7, <2>8, <3>2 DEF CommandExact, At, Mem, Op
  <2> QED BY <1>2, <2>8, <2>9, <2>10, <2>11, ReadingStep
<1> QED BY <1>3, <1>4

LEMMA MakeBackupKeeps ==
  ASSUME IInv, NEW c \in Clis, MakeBackup(c)
  PROVE  IInv'
<1> DEFINE old == fs[proc[c].home]
           new == [proc[c] EXCEPT !.backup = old, !.pc = "saving"]
<1>1. TypeOK /\ CommandStages(c) /\ DocumentKept(c) /\ CommandExact(c) /\ c \in Actors
  BY DEF IInv, Actors
<1>2. UNCHANGED <<fs, stale, window, steps>> /\ At(c, "backing")
  BY DEF MakeBackup
<1>3. proc' = [proc EXCEPT ![c] = new]
  BY <1>1 DEF TypeOK, MakeBackup
<1>4. /\ Op(c) \in CommandOps /\ proc[c].path \in Paths /\ Mem(c) # None /\ Op(c).kind # "init"
      /\ Parses(Mem(c)) /\ proc[c].home \in Paths /\ fs[proc[c].home] # None
  BY <1>1, <1>2 DEF CommandStages, DocumentKept, At, Resting
<1>5. old \in Documents \cup {None} /\ "saving" \in Stages
  BY <1>1, <1>4 DEF TypeOK, Stages
<1> HIDE DEF old
<1>6. /\ new \in Processes /\ new.op = Op(c) /\ new.path = proc[c].path /\ new.pc = "saving"
      /\ new.mem = Mem(c) /\ new.home = proc[c].home /\ new.backup = old
  BY <1>1, <1>5, ProcessParts DEF Processes, Op, Mem
<1> HIDE DEF new
<1>7. /\ proc' \in [Actors -> Processes] /\ proc'[c] = new
      /\ \A b \in Actors \ {c} : proc'[b] = proc[b]
  BY <1>1, <1>3, <1>6 DEF TypeOK
<1>8. CommandStages(c)'
  BY <1>4, <1>6, <1>7 DEF CommandStages, At, Mem, Op, Resting
<1>9. DocumentKept(c)'
  BY <1>2, <1>4, <1>6, <1>7 DEF DocumentKept, At, Mem
<1>10. CommandExact(c)'
  <2>1. ~Stale(c)' => KeepsRest(fs[proc[c].home], Mem(c), Op(c), advanced)
    BY <1>1, <1>2, <1>6, <1>7 DEF CommandExact, Stale, At
  <2>2. ~Stale(c)' => KeepsRest(fs'[proc'[c].home], proc'[c].mem, proc'[c].op, advanced')
    BY <1>2, <1>6, <1>7, <2>1 DEF window
  <2> QED BY <1>2, <1>6, <1>7, <2>2 DEF CommandExact, At, Mem, Op, old
<1> QED BY <1>2, <1>7, <1>8, <1>9, <1>10, ReadingStep

\* A document that loads comes to be on disk.
LEMMA Replaced ==
  ASSUME IInv, NEW a \in Actors, Replace(a), Mem(a) # None
  PROVE  /\ fs' \in [Paths -> Documents \cup {None}] /\ stale' \subseteq Actors \X Paths
         /\ FilesLoad' /\ (\A b \in Actors \ {a} : Untouched(b))
         /\ fs'[proc[a].home] = Mem(a) /\ proc[a].home \in Paths
<1>1. TypeOK /\ DocumentKept(a) /\ FilesLoad
  BY DEF IInv
<1>2. Mem(a) \in Documents /\ proc[a].home \in Paths /\ Parses(Mem(a))
  BY <1>1, ProcessParts DEF Mem, DocumentKept
<1>3. /\ fs' = [fs EXCEPT ![proc[a].home] = Mem(a)]
      /\ stale' = (stale \cup Others(a, proc[a].home)) \ {<<a, proc[a].home>>}
  BY DEF Replace
<1>4. fs' \in [Paths -> Documents \cup {None}]
  BY <1>1, <1>2, <1>3 DEF TypeOK
<1>5. stale' \subseteq Actors \X Paths
  <2>1. Others(a, proc[a].home) \subseteq Actors \X Paths
    BY <1>2 DEF Others
  <2>2. stale \subseteq Actors \X Paths
    BY <1>1 DEF TypeOK
  <2> QED BY <1>3, <2>1, <2>2
<1>6. FilesLoad'
  BY <1>1, <1>2, <1>3 DEF FilesLoad, TypeOK
<1>7. \A b \in Actors \ {a} : Untouched(b)
  BY <1>1, <1>2, <1>3, FileStep
<1>8. fs'[proc[a].home] = Mem(a)
  BY <1>1, <1>2, <1>3 DEF TypeOK
<1> QED BY <1>2, <1>4, <1>5, <1>6, <1>7, <1>8

LEMMA SaveCommandKeeps ==
  ASSUME IInv, NEW c \in Clis, SaveCommand(c)
  PROVE  IInv'
<1>1. TypeOK /\ CommandStages(c) /\ c \in Actors
  BY DEF IInv, Actors
<1>2. At(c, "saving") /\ Replace(c) /\ End(c) /\ UNCHANGED <<window, steps>>
  BY DEF SaveCommand
<1>3. Mem(c) # None
  BY <1>1, <1>2 DEF CommandStages, At
<1>4. /\ proc' \in [Actors -> Processes] /\ \A b \in Actors \ {c} : proc'[b] = proc[b]
      /\ DocumentKept(c)' /\ CommandStages(c)' /\ CommandExact(c)'
  BY <1>1, <1>2, EndCommand
<1>5. /\ fs' \in [Paths -> Documents \cup {None}] /\ stale' \subseteq Actors \X Paths
      /\ FilesLoad' /\ (\A b \in Actors \ {c} : Untouched(b))
  BY <1>1, <1>2, <1>3, Replaced
<1>6. TypeOK'
  BY <1>1, <1>2, <1>4, <1>5 DEF TypeOK, window
<1> QED BY <1>2, <1>4, <1>5, <1>6, CommandStepKeeps DEF window

LEMMA StopKeeps ==
  ASSUME IInv, NEW c \in Clis, Stop(c)
  PROVE  IInv'
BY EndReading DEF Stop

-----------------------------------------------------------------------------
(* Loading *)

LEMMA CreatedParts ==
  ASSUME NEW cmd \in GuiOps
  PROVE  /\ [cmd EXCEPT !.created = TRUE] \in GuiOps
         /\ [cmd EXCEPT !.created = TRUE].kind = cmd.kind
         /\ [cmd EXCEPT !.created = TRUE].created
BY DEF GuiOps

\* The window goes on with what it has.
LEMMA WindowGoesOn ==
  ASSUME IInv, UNCHANGED window,
         proc'[Gui].mem = Mem(Gui), proc'[Gui].home = proc[Gui].home,
         proc[Gui].pc \in Loading \cup {"idle"}, proc'[Gui].pc \in Loading \cup {"idle", "editing"},
         Mem(Gui) # None =>
           /\ fs'[proc[Gui].home] = fs[proc[Gui].home]
           /\ Stale(Gui)' <=> Stale(Gui)
           /\ proc'[Gui].pc = "placing" => proc'[Gui].path # proc[Gui].home
  PROVE  /\ WindowExact' /\ FormTrue' /\ PageTrue'
         /\ Mem(Gui)' # None =>
              Parses(Mem(Gui)') /\ proc'[Gui].home \in Paths /\ fs'[proc'[Gui].home] # None
<1>1. WindowExact /\ FormTrue /\ PageTrue /\ DocumentKept(Gui)
  BY DEF IInv, Actors
<1>2. /\ proc[Gui].pc \notin {"editing", "saving"} /\ proc'[Gui].pc # "saving"
  BY DEF Loading
<1>3. ~ToBeShown
  BY <1>2 DEF ToBeShown
<1>4. WindowExact'
  BY <1>1, <1>2 DEF WindowExact, At, Mem, window
<1>5. FormTrue'
  BY <1>1, <1>2, <1>3 DEF FormTrue, FormShows, At, Mem, window
<1>6. PageTrue'
  BY <1>1, <1>3 DEF PageTrue, Mem, window
<1>7. Mem(Gui)' # None =>
              Parses(Mem(Gui)') /\ proc'[Gui].home \in Paths /\ fs'[proc'[Gui].home] # None
  BY <1>1 DEF DocumentKept, Mem
<1> QED BY <1>4, <1>5, <1>6, <1>7

LEMMA EndWindow ==
  ASSUME TypeOK, End(Gui)
  PROVE  /\ proc' \in [Actors -> Processes] /\ \A b \in Clis : proc'[b] = proc[b]
         /\ proc'[Gui].pc = "idle" /\ proc'[Gui].mem = Mem(Gui)
         /\ proc'[Gui].home = proc[Gui].home /\ proc'[Gui].path = proc[Gui].path
<1> DEFINE new == [proc[Gui] EXCEPT !.pc = "idle", !.op = Idle, !.seen = None]
<1>1. proc' = [proc EXCEPT ![Gui] = new]
  BY DEF End
<1>2. Gui \in Actors /\ Gui \notin Clis /\ Clis \subseteq Actors
  BY ConfigAssumption DEF Actors
<1>3. /\ new \in Processes /\ new.pc = "idle" /\ new.mem = Mem(Gui) /\ new.home = proc[Gui].home
      /\ new.path = proc[Gui].path
  BY <1>2, ProcessParts DEF Processes, Stages, Mem
<1> HIDE DEF new
<1> QED BY <1>1, <1>2, <1>3 DEF TypeOK

\* An idle window promises nothing of its operation.
LEMMA IdleWindow ==
  ASSUME proc'[Gui].pc = "idle", proc'[Gui].path \in Paths
  PROVE  WindowStages' /\ ~At(Gui, "reading")' /\ ~At(Gui, "placing")'
BY DEF WindowStages, At, Resting, Loading

\* A step of the window that reads.
LEMMA WindowReads ==
  ASSUME IInv, UNCHANGED fs, stale' \subseteq stale,
         \A b \in Clis : \A q : <<b, q>> \in stale => <<b, q>> \in stale',
         proc' \in [Actors -> Processes], \A b \in Clis : proc'[b] = proc[b],
         /\ form' \in [Fields -> Texts \ {Missing}] /\ edits' \in [Fields -> Texts]
         /\ custom' \in BOOLEAN /\ fresh' \in BOOLEAN /\ unsaved' \in BOOLEAN
         /\ active' \in Names \cup {""} /\ advanced' \in Pages /\ steps' \in Nat,
         DocumentKept(Gui)', WindowStages', WindowExact', FormTrue', PageTrue'
  PROVE  IInv'
<1>1. TypeOK /\ FilesLoad
  BY DEF IInv
<1>2. TypeOK'
  BY <1>1 DEF TypeOK
<1>3. FilesLoad'
  BY <1>1 DEF FilesLoad
<1>4. \A b \in Clis : Untouched(b)
  BY QuietStep
<1> QED BY <1>2, <1>3, <1>4, WindowStepKeeps

LEMMA WindowEnds ==
  ASSUME IInv, End(Gui), UNCHANGED <<fs, stale, window, steps>>,
         proc[Gui].pc \in Loading \cup {"idle"}
  PROVE  IInv'
<1>1. TypeOK
  BY DEF IInv
<1>2. /\ proc' \in [Actors -> Processes] /\ \A b \in Clis : proc'[b] = proc[b]
      /\ proc'[Gui].pc = "idle" /\ proc'[Gui].mem = Mem(Gui)
      /\ proc'[Gui].home = proc[Gui].home /\ proc'[Gui].path \in Paths
  <2>1. proc[Gui].path \in Paths
    BY DEF IInv, WindowStages, At, Loading
  <2> QED BY <1>1, <2>1, EndWindow
<1>3. Stale(Gui)' <=> Stale(Gui)
  BY <1>2 DEF Stale
<1>4. /\ WindowExact' /\ FormTrue' /\ PageTrue'
      /\ Mem(Gui)' # None =>
              Parses(Mem(Gui)') /\ proc'[Gui].home \in Paths /\ fs'[proc'[Gui].home] # None
  BY <1>2, <1>3, WindowGoesOn
<1>5. WindowStages' /\ ~At(Gui, "reading")' /\ ~At(Gui, "placing")'
  BY <1>2, IdleWindow
<1>6. DocumentKept(Gui)'
  BY <1>4, <1>5 DEF DocumentKept
<1> QED BY <1>1, <1>2, <1>4, <1>5, <1>6, WindowReads DEF TypeOK, window

\* Ends from loading.
LEMMA EndLoading ==
  ASSUME IInv, NEW a \in Actors, End(a), UNCHANGED <<fs, stale, window, steps>>,
         proc[a].pc \in Loading
  PROVE  IInv'
BY EndReading, WindowEnds DEF Actors

LEMMA SizeKeeps ==
  ASSUME IInv, NEW a \in Actors, Size(a)
  PROVE  IInv'
<1>1. /\ TypeOK /\ DocumentKept(a) /\ (a \in Clis => CommandStages(a))
      /\ (a = Gui => WindowStages)
  BY DEF IInv
<1>2. UNCHANGED <<fs, stale, window, steps>> /\ proc[a].pc = "sizing"
  BY DEF Size, At
<1>3. a \in Clis \/ a = Gui
  BY DEF Actors
<1>4. CASE End(a)
  BY <1>2, <1>4, EndLoading DEF Loading
<1>5. CASE ~End(a)
  <2> DEFINE seen == IF OnDisk(a) # None THEN OnDisk(a) ELSE proc[a].seen
             label == IF OnDisk(a) # None THEN "reading" ELSE "creating"
             new == [proc[a] EXCEPT !.pc = label, !.seen = seen]
  <2>1. (a \in Clis => Op(a) \in CommandOps) /\ proc[a].path \in Paths
    BY <1>1, <1>2, <1>3 DEF CommandStages, WindowStages, Resting, At
  <2>2. /\ label = "creating" => Op(a).kind = "language" /\ OnDisk(a) = None
        /\ label = "reading" => OnDisk(a) # None
    BY <1>5 DEF Size
  <2>3. proc' = [proc EXCEPT ![a] = new]
    <3>1. CASE OnDisk(a) # None
      BY <1>1, <3>1 DEF Size, TypeOK
    <3>2. CASE OnDisk(a) = None
      <4>1. [proc[a] EXCEPT !.pc = "creating", !.seen = proc[a].seen]
              = [proc[a] EXCEPT !.pc = "creating"]
        BY <1>1, ProcessParts DEF Processes
      <4>2. proc' = [proc EXCEPT ![a].pc = "creating"]
        BY <2>2, <3>2 DEF Size, Goto
      <4>3. proc' = [proc EXCEPT ![a] = [proc[a] EXCEPT !.pc = "creating"]]
        BY <1>1, <4>2 DEF TypeOK
      <4> QED BY <3>2, <4>1, <4>3
    <3> QED BY <3>1, <3>2
  <2>4. OnDisk(a) \in Documents \cup {None} /\ seen \in Documents \cup {None}
    BY <1>1, <2>1, ProcessParts DEF TypeOK, OnDisk
  <2>5. label \in Stages /\ label \in {"reading", "creating"}
    BY DEF Stages
  <2> HIDE DEF seen, label
  <2>6. /\ new \in Processes /\ new.op = Op(a) /\ new.path = proc[a].path /\ new.pc = label
        /\ new.mem = Mem(a) /\ new.home = proc[a].home
    BY <1>1, <2>4, <2>5, ProcessParts DEF Processes, Op, Mem
  <2> HIDE DEF new
  <2>7. /\ proc' \in [Actors -> Processes] /\ proc'[a] = new
        /\ \A b \in Actors \ {a} : proc'[b] = proc[b]
    BY <1>1, <2>3, <2>6 DEF TypeOK
  <2>8. (At(a, "reading") => OnDisk(a) # None)'
    BY <1>2, <2>2, <2>6, <2>7 DEF At, OnDisk
  <2>9. CASE a \in Clis
    <3>1. Mem(a) = None /\ Op(a).kind # "language"
      BY <1>1, <1>2, <2>1, <2>9, CommandParts DEF CommandStages, CommandKinds
    <3>2. label = "reading"
      BY <2>2, <2>5, <3>1
    <3>3. CommandStages(a)'
      BY <2>1, <2>6, <2>7, <2>9, <3>1, <3>2 DEF CommandStages, At, Op, Mem, Resting
    <3>4. DocumentKept(a)' /\ CommandExact(a)'
      BY <2>6, <2>7, <2>8, <3>1, <3>2 DEF DocumentKept, CommandExact, At, Mem
    <3> QED BY <1>2, <2>7, <2>9, <3>3, <3>4, ReadingStep
  <2>10. CASE a = Gui
    <3>1. Stale(Gui)' <=> Stale(Gui)
      BY <1>2, <2>6, <2>7, <2>10 DEF Stale
    <3>2. /\ proc[Gui].pc \in Loading \cup {"idle"}
          /\ proc'[Gui].pc \in Loading \cup {"idle", "editing"} /\ proc'[Gui].pc # "placing"
          /\ proc'[Gui].mem = Mem(Gui) /\ proc'[Gui].home = proc[Gui].home
      BY <1>2, <2>5, <2>6, <2>7, <2>10 DEF Loading
    <3>3. /\ WindowExact' /\ FormTrue' /\ PageTrue'
          /\ Mem(Gui)' # None =>
              Parses(Mem(Gui)') /\ proc'[Gui].home \in Paths /\ fs'[proc'[Gui].home] # None
      BY <1>2, <3>1, <3>2, WindowGoesOn
    <3>4. DocumentKept(Gui)'
      BY <2>8, <2>10, <3>2, <3>3 DEF DocumentKept, At
    <3>5. WindowStages'
      <4>1. /\ Op(Gui) \in GuiOps \cup {Start} /\ proc[Gui].path \in Paths
            /\ Op(Gui).kind = "initialize" => Op(Gui).created
            /\ Op(Gui).kind \notin {"reload", "initialize"} => Mem(Gui) = None
        BY <1>1, <1>2, <2>10 DEF WindowStages, Resting, Loading, At
      <4> QED BY <2>2, <2>5, <2>6, <2>7, <2>10, <4>1 DEF WindowStages, At, Op, Mem, Resting, Loading
    <3>6. \A b \in Clis : proc'[b] = proc[b]
      BY <2>7, <2>10, ConfigAssumption DEF Actors
    <3> QED BY <1>1, <1>2, <2>7, <3>3, <3>4, <3>5, <3>6, WindowReads DEF TypeOK, window
  <2> QED BY <1>3, <2>9, <2>10
<1> QED BY <1>4, <1>5

LEMMA ReadKeeps ==
  ASSUME IInv, NEW a \in Actors, Read(a)
  PROVE  IInv'
<1>1. /\ TypeOK /\ DocumentKept(a) /\ (a \in Clis => CommandStages(a))
      /\ (a = Gui => WindowStages)
  BY DEF IInv
<1>2. UNCHANGED <<fs, form, custom, active, edits, fresh, advanced, steps>>
      /\ proc[a].pc = "reading"
  BY DEF Read, At
<1>3. a \in Clis \/ a = Gui
  BY DEF Actors
<1>4. CASE End(a) /\ UNCHANGED <<stale, unsaved>>
  BY <1>2, <1>4, EndLoading DEF Loading, window
<1>5. CASE /\ Parses(OnDisk(a))
           /\ proc' = [proc EXCEPT ![a].mem = OnDisk(a), ![a].home = proc[a].path,
                                  ![a].seen = None, ![a].pc = "editing"]
           /\ stale' = stale \ {<<a, proc[a].path>>}
           /\ unsaved' = (a # Gui /\ unsaved)
  <2> DEFINE doc == OnDisk(a)
             new == [proc[a] EXCEPT !.mem = doc, !.home = proc[a].path, !.seen = None,
                                    !.pc = "editing"]
  <2>1. /\ proc[a].path \in Paths /\ doc # None
        /\ a \in Clis => Op(a) \in CommandOps
        /\ a = Gui => Op(a) \in GuiOps \cup {Start}
    BY <1>1, <1>2, <1>3 DEF CommandStages, WindowStages, Resting, DocumentKept, At
  <2>2. doc \in Documents
    BY <1>1, <2>1 DEF TypeOK, OnDisk
  <2>3. proc' = [proc EXCEPT ![a] = new]
    BY <1>1, <1>5 DEF TypeOK
  <2>4. doc = fs[proc[a].path]
    BY DEF OnDisk
  <2> HIDE DEF doc
  <2>5. /\ new \in Processes /\ new.op = Op(a) /\ new.path = proc[a].path /\ new.pc = "editing"
        /\ new.mem = doc /\ new.home = proc[a].path
    BY <1>1, <2>1, <2>2, ProcessParts DEF Processes, Stages, Op
  <2> HIDE DEF new
  <2>6. /\ proc' \in [Actors -> Processes] /\ proc'[a] = new
        /\ \A b \in Actors \ {a} : proc'[b] = proc[b]
    BY <1>1, <2>3, <2>5 DEF TypeOK
  <2>7. Parses(doc)
    BY <1>5 DEF doc
  <2>8. DocumentKept(a)'
    BY <1>2, <2>1, <2>4, <2>5, <2>6, <2>7 DEF DocumentKept, At, Mem
  <2>9. CASE a \in Clis
    <3>1. CommandStages(a)'
      BY <2>1, <2>5, <2>6, <2>9 DEF CommandStages, At, Op, Mem, Resting
    <3>2. CommandExact(a)'
      BY <1>2, <2>4, <2>5, <2>6 DEF CommandExact, At, Mem
    <3>3. unsaved' = unsaved
      <4>1. a # Gui
        BY <2>9, ConfigAssumption
      <4>2. unsaved \in BOOLEAN
        BY <1>1 DEF TypeOK
      <4> QED BY <1>5, <4>1, <4>2, Zenon
    <3>4. UNCHANGED <<fs, window, steps>>
      BY <1>2, <3>3 DEF window
    <3> QED BY <1>5, <2>6, <2>8, <2>9, <3>1, <3>2, <3>4, ReadingStep
  <2>10. CASE a = Gui
    <3>1. unsaved' = FALSE
      BY <1>5, <2>10
    <3>2. WindowExact'
      BY <1>2, <2>4, <2>5, <2>6, <2>10 DEF WindowExact, At, Mem
    <3>3. /\ Op(Gui).kind = "initialize" => Op(Gui).created
          /\ Op(Gui).kind \notin {"reload", "initialize"} => Mem(Gui) = None
      BY <1>1, <1>2, <2>10 DEF WindowStages, Resting, Loading, At
    <3>4. WindowStages'
      BY <2>1, <2>5, <2>6, <2>10, <3>3 DEF WindowStages, At, Op, Mem, Resting, Loading
    <3>5. ToBeShown' \/ Mem(Gui) = None
      BY <2>5, <2>6, <2>10, <3>3 DEF ToBeShown, Op
    <3>6. FormTrue /\ PageTrue
      BY DEF IInv
    <3>7. FormTrue'
      BY <1>2, <2>1, <2>5, <2>6, <2>10, <3>5, <3>6 DEF FormTrue, At, Mem
    <3>8. PageTrue'
      BY <1>2, <2>1, <2>5, <2>6, <2>10, <3>5, <3>6 DEF PageTrue, Mem
    <3>9. \A b \in Clis : proc'[b] = proc[b]
      BY <2>6, <2>10, ConfigAssumption DEF Actors
    <3>10. \A b \in Clis : \A q : <<b, q>> \in stale => <<b, q>> \in stale'
      BY <1>5, <2>10, ConfigAssumption
    <3> QED BY <1>1, <1>2, <1>5, <2>6, <2>8, <2>10, <3>1, <3>2, <3>4, <3>7, <3>8, <3>9, <3>10,
               WindowReads DEF TypeOK
  <2> QED BY <1>3, <2>9, <2>10
<1> QED BY <1>4, <1>5 DEF Read

LEMMA CreateKeeps ==
  ASSUME IInv, NEW a \in Actors, Create(a)
  PROVE  IInv'
<1>1. /\ TypeOK /\ DocumentKept(a) /\ (a \in Clis => CommandStages(a))
      /\ (a = Gui => WindowStages)
  BY DEF IInv
<1>2. UNCHANGED <<fs, window, steps>> /\ proc[a].pc = "creating"
  BY DEF Create, At
<1>3. a \in Clis \/ a = Gui
  BY DEF Actors
<1>4. CASE End(a) /\ UNCHANGED stale
  BY <1>2, <1>4, EndLoading DEF Loading
<1>5. CASE /\ OnDisk(a) = None \/ (a # Gui /\ Op(a).force)
           /\ Goto(a, "placing") /\ stale' = stale \ {<<a, proc[a].path>>}
  <2> DEFINE new == [proc[a] EXCEPT !.pc = "placing"]
  <2>1. /\ proc[a].path \in Paths
        /\ a \in Clis => Op(a) \in CommandOps
        /\ a = Gui => Op(a) \in GuiOps \cup {Start}
    BY <1>1, <1>2, <1>3 DEF CommandStages, WindowStages, Resting, At
  <2>2. proc' = [proc EXCEPT ![a] = new]
    BY <1>1, <1>5 DEF TypeOK, Goto
  <2>3. /\ new \in Processes /\ new.op = Op(a) /\ new.path = proc[a].path /\ new.pc = "placing"
        /\ new.mem = Mem(a) /\ new.home = proc[a].home
    BY <1>1, ProcessParts DEF Processes, Stages, Op, Mem
  <2> HIDE DEF new
  <2>4. /\ proc' \in [Actors -> Processes] /\ proc'[a] = new
        /\ \A b \in Actors \ {a} : proc'[b] = proc[b]
    BY <1>1, <2>2, <2>3 DEF TypeOK
  <2>5. (OnDisk(a) = None \/ (a # Gui /\ Op(a).force))'
    BY <1>2, <1>5, <2>3, <2>4 DEF OnDisk, Op
  <2>6. CASE a \in Clis
    <3>1. Mem(a) = None /\ Op(a).kind = "init"
      BY <1>1, <1>2, <2>6 DEF CommandStages
    <3>2. CommandStages(a)'
      BY <2>1, <2>3, <2>4, <2>6, <3>1 DEF CommandStages, At, Op, Mem, Resting
    <3>3. CommandExact(a)'
      BY <2>3, <2>4 DEF CommandExact, At
    <3>4. DocumentKept(a)'
      BY <2>3, <2>4, <2>5, <3>1 DEF DocumentKept, At, Mem
    <3> QED BY <1>2, <1>5, <2>4, <2>6, <3>2, <3>3, <3>4, ReadingStep
  <2>7. CASE a = Gui
    <3>1. Mem(Gui) # None => proc[Gui].path # proc[Gui].home
      BY <1>1, <1>5, <2>7 DEF DocumentKept, OnDisk
    <3>2. Mem(Gui) # None => (Stale(Gui)' <=> Stale(Gui))
      BY <1>5, <2>3, <2>4, <2>7, <3>1 DEF Stale
    <3>3. /\ proc[Gui].pc \in Loading \cup {"idle"}
          /\ proc'[Gui].pc \in Loading \cup {"idle", "editing"} /\ proc'[Gui].path = proc[Gui].path
          /\ proc'[Gui].mem = Mem(Gui) /\ proc'[Gui].home = proc[Gui].home
      BY <1>2, <2>3, <2>4, <2>7 DEF Loading
    <3>4. /\ WindowExact' /\ FormTrue' /\ PageTrue'
          /\ Mem(Gui)' # None =>
              Parses(Mem(Gui)') /\ proc'[Gui].home \in Paths /\ fs'[proc'[Gui].home] # None
      BY <1>2, <3>1, <3>2, <3>3, WindowGoesOn
    <3>5. DocumentKept(Gui)'
      BY <2>3, <2>4, <2>5, <2>7, <3>4 DEF DocumentKept, At
    <3>6. WindowStages'
      <4>1. /\ Op(Gui).kind # "reload"
            /\ Op(Gui).kind \notin {"reload", "initialize"} => Mem(Gui) = None
        BY <1>1, <1>2, <2>7 DEF WindowStages, Resting, Loading, At
      <4> QED BY <2>1, <2>3, <2>4, <2>7, <4>1 DEF WindowStages, At, Op, Mem, Resting, Loading
    <3>7. \A b \in Clis : proc'[b] = proc[b]
      BY <2>4, <2>7, ConfigAssumption DEF Actors
    <3>8. \A b \in Clis : \A q : <<b, q>> \in stale => <<b, q>> \in stale'
      BY <1>5, <2>7, ConfigAssumption
    <3> QED BY <1>1, <1>2, <1>5, <2>4, <3>4, <3>5, <3>6, <3>7, <3>8, WindowReads DEF TypeOK, window
  <2> QED BY <1>3, <2>6, <2>7
<1> QED BY <1>4, <1>5 DEF Create

LEMMA PlaceKeeps ==
  ASSUME IInv, NEW a \in Actors, Place(a)
  PROVE  IInv'
<1> DEFINE p == proc[a].path
           op == [proc[a].op EXCEPT !.created = TRUE]
           new == [proc[a] EXCEPT !.op = op, !.pc = "sizing"]
<1>1. /\ TypeOK /\ FilesLoad /\ DocumentKept(a) /\ (a \in Clis => CommandStages(a))
      /\ (a = Gui => WindowStages)
  BY DEF IInv
<1>2. UNCHANGED <<window, steps>> /\ proc[a].pc = "placing"
  BY DEF Place, At
<1>3. a \in Clis \/ a = Gui
  BY DEF Actors
<1>4. /\ p \in Paths
      /\ a \in Clis => Op(a) \in CommandOps
      /\ a = Gui => Op(a) \in GuiOps
  BY <1>1, <1>2, <1>3 DEF CommandStages, WindowStages, Resting, Start, At
<1>5. /\ op.kind = Op(a).kind
      /\ a \in Clis => op \in CommandOps
      /\ a = Gui => op \in GuiOps /\ op.created
  BY <1>3, <1>4, CommandParts, CreatedParts DEF Op
<1>6. /\ fs' = [fs EXCEPT ![p] = FreshDocument]
      /\ stale' = (stale \cup Others(a, p)) \ {<<a, p>>}
  BY DEF Place
<1>7. proc' = [proc EXCEPT ![a] = new]
  BY <1>1, ProcessParts DEF Place, TypeOK, Processes
<1> HIDE DEF op
<1>8. /\ new \in Processes /\ new.op = op /\ new.path = p /\ new.pc = "sizing"
      /\ new.mem = Mem(a) /\ new.home = proc[a].home
  BY <1>1, <1>3, <1>5, ProcessParts DEF Processes, Stages, Mem
<1> HIDE DEF new, p
<1>9. /\ proc' \in [Actors -> Processes] /\ proc'[a] = new
      /\ \A b \in Actors \ {a} : proc'[b] = proc[b]
  BY <1>1, <1>7, <1>8 DEF TypeOK
<1>10. FreshDocument \in Documents /\ Parses(FreshDocument) /\ FreshDocument # None
  BY FreshLoads, NoneAssumption
<1>11. \A b \in Actors \ {a} : Untouched(b)
  BY <1>1, <1>4, <1>6, <1>10, FileStep
<1>12. FilesLoad'
  BY <1>1, <1>4, <1>6, <1>10 DEF FilesLoad, TypeOK
<1>13. TypeOK'
  <2>1. fs' \in [Paths -> Documents \cup {None}]
    BY <1>1, <1>4, <1>6, <1>10 DEF TypeOK
  <2>2. stale \subseteq Actors \X Paths /\ Others(a, p) \subseteq Actors \X Paths
    <3>1. stale \subseteq Actors \X Paths
      BY <1>1 DEF TypeOK
    <3>2. Others(a, p) \subseteq Actors \X Paths
      BY <1>4 DEF Others
    <3> QED BY <3>1, <3>2
  <2>3. stale' \subseteq Actors \X Paths
    BY <1>6, <2>2
  <2> QED BY <1>1, <1>2, <1>9, <2>1, <2>3 DEF TypeOK, window
<1>14. CASE a \in Clis
  <2>1. Mem(a) = None /\ Op(a).kind = "init"
    BY <1>1, <1>2, <1>14 DEF CommandStages
  <2>2. CommandStages(a)'
    BY <1>4, <1>5, <1>8, <1>9, <1>14, <2>1 DEF CommandStages, At, Op, Mem, Resting
  <2>3. DocumentKept(a)' /\ CommandExact(a)'
    BY <1>8, <1>9, <2>1 DEF DocumentKept, CommandExact, At, Mem
  <2> QED BY <1>2, <1>9, <1>11, <1>12, <1>13, <1>14, <2>2, <2>3, CommandStepKeeps
<1>15. CASE a = Gui
  <2>1. /\ Op(Gui).kind # "reload"
        /\ Op(Gui).kind \notin {"reload", "initialize"} => Mem(Gui) = None
    BY <1>1, <1>2, <1>15 DEF WindowStages, Resting, Loading, At
  <2>2. WindowStages'
    BY <1>4, <1>5, <1>8, <1>9, <1>15, <2>1 DEF WindowStages, At, Op, Mem, Resting, Loading
  <2>3. Mem(Gui) # None => p # proc[Gui].home /\ proc[Gui].home \in Paths
    <3>1. WindowExact
      BY DEF IInv
    <3> QED BY <1>1, <1>2, <1>15, <3>1 DEF WindowExact, At, DocumentKept, p
  <2>4. Mem(Gui) # None => (Stale(Gui)' <=> Stale(Gui)) /\ fs'[proc[Gui].home] = fs[proc[Gui].home]
    <3>1. \A q : <<Gui, q>> \notin Others(a, p)
      BY <1>15 DEF Others
    <3> QED BY <1>1, <1>6, <1>8, <1>9, <1>15, <2>3, <3>1 DEF Stale, TypeOK
  <2>5. /\ proc[Gui].pc \in Loading \cup {"idle"}
        /\ proc'[Gui].pc \in Loading \cup {"idle", "editing"} /\ proc'[Gui].pc = "sizing"
        /\ proc'[Gui].mem = Mem(Gui) /\ proc'[Gui].home = proc[Gui].home
    BY <1>2, <1>8, <1>9, <1>15 DEF Loading
  <2>6. /\ WindowExact' /\ FormTrue' /\ PageTrue'
        /\ Mem(Gui)' # None =>
              Parses(Mem(Gui)') /\ proc'[Gui].home \in Paths /\ fs'[proc'[Gui].home] # None
    BY <1>2, <2>4, <2>5, WindowGoesOn
  <2>7. DocumentKept(Gui)'
    BY <2>5, <2>6 DEF DocumentKept, At
  <2>8. \A b \in Clis : proc'[b] = proc[b] /\ Untouched(b)
    BY <1>9, <1>11, <1>15, ConfigAssumption DEF Actors
  <2> QED BY <1>12, <1>13, <2>2, <2>6, <2>7, <2>8, WindowStepKeeps
<1> QED BY <1>3, <1>14, <1>15

-----------------------------------------------------------------------------
(* The pages of the window *)

\* What is typed over the settings of a preset.
LEMMA ShownFields ==
  ASSUME NEW doc \in Documents, NEW name, NEW typed \in Settings_, NEW f \in Fields
  PROVE  ResolveSettings(OverlaySettings(WithPreset(doc, name), typed))[f]
           = First(First(typed[f], WithPreset(doc, name)[f]), Fallback[f])
<1>1. WithPreset(doc, name) \in Settings_
  BY DocumentSettings
<1>2. OverlaySettings(WithPreset(doc, name), typed)[f] = First(typed[f], WithPreset(doc, name)[f])
  BY <1>1, OverlayTyped
<1> QED BY <1>2, ResolvedFields

PagesTyped ==
    /\ form' \in [Fields -> Texts \ {Missing}] /\ edits' \in [Fields -> Texts]
    /\ custom' \in BOOLEAN /\ fresh' \in BOOLEAN
    /\ active' \in Names \cup {""} /\ advanced' \in Pages

LEMMA FillOutcome ==
  ASSUME NEW doc \in Documents, NEW name, name \in PresetNames(doc) \cup {DefaultPreset(doc)},
         Fill(doc, name)
  PROVE  /\ form' \in [Fields -> Texts \ {Missing}] /\ edits' \in [Fields -> Texts]
         /\ custom' \in BOOLEAN /\ fresh' = TRUE
         /\ active' \in Names \cup {""}
         /\ Shows(form', custom', doc, active', edits')
<1> DEFINE w == WithPreset(doc, name)
           named == name \in PresetNames(doc)
<1>1. /\ form' = ResolveSettings(w)
      /\ custom' = (named /\ Preset(doc, name).created_by # Missing)
      /\ active' = IF named THEN name ELSE ""
      /\ edits' = NoSettings /\ fresh' = TRUE
  BY DEF Fill
<1>2. /\ w \in Settings_ /\ (named => name \in Names)
      /\ "" \notin PresetNames(doc)
  BY DocumentSettings
<1>3. WithPreset(doc, active') = w
  BY <1>1, <1>2 DEF WithPreset
<1>4. active' \in PresetNames(doc) \/ (active' = "" /\ DefaultPreset(doc) \notin PresetNames(doc))
  BY <1>1
<1>5. /\ NoSettings \in Settings_ /\ OverlaySettings(w, NoSettings) = w
      /\ NoSettings.created_by = Missing
  BY <1>2, OverlayNothing DEF NoSettings, Fields
<1> HIDE DEF w, named
<1>6. form' \in [Fields -> Texts \ {Missing}]
  BY <1>1, <1>2, ResolvedTyped
<1>7. Shows(form', custom', doc, active', edits')
  BY <1>1, <1>3, <1>4, <1>5 DEF Shows
<1>8. custom' \in BOOLEAN
  BY <1>1, Zenon
<1> QED BY <1>1, <1>2, <1>5, <1>6, <1>7, <1>8 DEF Settings_

\* A document that loads has no value of a wrong type that anybody reads.
LEMMA NothingBad ==
  ASSUME NEW doc \in Documents, Parses(doc)
  PROVE  /\ ResolveSettings(Defaults(doc)) \in [Fields -> Texts \ {Missing, "bad"}]
         /\ First(doc.machine, "builtin") \in Texts \ {Missing, "bad"}
<1> DEFINE d == Defaults(doc)
<1>1. d \in Settings_ /\ doc.canonical \in BOOLEAN /\ doc.machine \in Texts
  BY DocumentSettings, DocumentParts
<1>2. \A m \in Members :
        doc.defaults[m] = "bad" => ~doc.canonical /\ m \in {"format", "tracker_tiers"}
  BY DEF Parses, Sound
<1>3. /\ d["format"] = (IF doc.canonical THEN doc.defaults["format"] ELSE Missing)
      /\ d["trackers"] = First(IF doc.canonical THEN doc.defaults["tracker_tiers"] ELSE Missing,
                               doc.defaults["tracker_list"])
      /\ d["comment"] = doc.defaults["comment"] /\ d["created_by"] = doc.defaults["created_by"]
  BY ParsedFields DEF Defaults
<1>4. /\ d["format"] # "bad" /\ d["trackers"] # "bad"
      /\ d["comment"] # "bad" /\ d["created_by"] # "bad"
  BY <1>2, <1>3 DEF Members, Missing, First
<1> HIDE DEF d
<1>5. ResolveSettings(d) \in [Fields -> Texts \ {Missing}]
  BY <1>1, ResolvedTyped
<1>6. ASSUME NEW f \in Fields
      PROVE  ResolveSettings(d)[f] # "bad"
  <2>1. f \in {"format", "trackers", "comment", "created_by"}
    BY DEF Fields
  <2>2. ResolveSettings(d)[f] = First(d[f], Fallback[f])
    BY ResolvedFields
  <2>3. Fallback[f] # "bad"
    <3>1. /\ Fallback["format"] = "hybrid" /\ Fallback["trackers"] = "[]"
          /\ Fallback["comment"] = "" /\ Fallback["created_by"] = "TorrentCraft"
      BY DEF Fallback
    <3> QED BY <2>1, <3>1
  <2> QED BY <1>4, <2>1, <2>2, <2>3 DEF First
<1>7. ResolveSettings(d) \in [Fields -> Texts \ {Missing, "bad"}]
  BY <1>5, <1>6
<1>8. doc.machine # "bad"
  BY DEF Parses, Missing
<1>9. First(doc.machine, "builtin") \in Texts \ {Missing, "bad"}
  BY <1>1, <1>8, TextsAssumption DEF First, Missing
<1> QED BY <1>7, <1>9 DEF d

LEMMA PopulateOutcome ==
  ASSUME NEW doc \in Documents, Parses(doc), Populate(doc)
  PROVE  /\ PagesTyped /\ fresh' = TRUE /\ advanced'.filled
         /\ Shows(form', custom', doc, active', edits') /\ PageShows(advanced', doc)
<1>1. /\ form' \in [Fields -> Texts \ {Missing}] /\ edits' \in [Fields -> Texts]
      /\ custom' \in BOOLEAN /\ fresh' = TRUE
      /\ active' \in Names \cup {""}
      /\ Shows(form', custom', doc, active', edits')
  BY FillOutcome DEF Populate
<1>2. advanced' = [fields |-> ResolveSettings(Defaults(doc)),
                   machine |-> First(doc.machine, "builtin"),
                   default_preset |-> Offered(doc), filled |-> TRUE]
  BY DEF Populate
<1>3. Offered(doc) \in Texts
  BY DocumentSettings, TextsAssumption DEF Offered
<1>4. advanced' \in Pages
  BY <1>2, <1>3, NothingBad DEF Pages
<1>5. PageShows(advanced', doc) /\ advanced'.filled
  BY <1>2 DEF PageShows
<1> QED BY <1>1, <1>4, <1>5 DEF PagesTyped

LEMMA PageParts ==
  ASSUME TypeOK
  PROVE  PageTyped(advanced) /\ advanced.filled \in BOOLEAN
BY DEF TypeOK, Pages, PageTyped

LEMMA ShownPage ==
  ASSUME TypeOK, NEW cmd, GuiOpTyped(cmd)
  PROVE  Shown(cmd) \in Pages
<1>1. PageTyped(Shown(cmd)) /\ Shown(cmd).filled \in BOOLEAN
  BY PageParts, ShownTyped
<1> QED BY <1>1 DEF PageTyped, Pages, Shown

-----------------------------------------------------------------------------
(* The steps of the window *)

\* The user does something on a page.
LEMMA PageStep ==
  ASSUME IInv, Tick, UNCHANGED <<fs, proc, stale, unsaved>>, PagesTyped, FormTrue', PageTrue'
  PROVE  IInv'
<1>1. /\ TypeOK /\ WindowStages /\ WindowExact /\ DocumentKept(Gui) /\ At(Gui, "idle")
      /\ Gui \in Actors
  BY DEF IInv, Tick, Actors
<1>2. steps' \in Nat
  <2>1. steps \in Nat
    BY <1>1 DEF TypeOK
  <2>2. steps' = steps + 1
    BY DEF Tick
  <2> QED BY <2>1, <2>2
<1>3. WindowStages'
  BY <1>1 DEF WindowStages, At, Op, Mem
<1>4. DocumentKept(Gui)'
  BY <1>1 DEF DocumentKept, At, Mem
<1>5. WindowExact'
  BY <1>1 DEF WindowExact, At, Mem, Stale
<1> QED BY <1>1, <1>2, <1>3, <1>4, <1>5, WindowReads DEF TypeOK, PagesTyped

LEMMA IdlePages ==
  ASSUME IInv, Tick
  PROVE  /\ TypeOK /\ FormTrue /\ PageTrue /\ ~ToBeShown
         /\ proc[Gui].pc = "idle"
         /\ fresh => Mem(Gui) # None /\ Shows(form, custom, Mem(Gui), active, edits)
         /\ Mem(Gui) # None => Mem(Gui) \in Documents /\ Parses(Mem(Gui))
<1>1. TypeOK /\ FormTrue /\ PageTrue /\ DocumentKept(Gui) /\ proc[Gui].pc = "idle"
      /\ Gui \in Actors
  BY DEF IInv, Tick, At, Actors
<1>2. ~ToBeShown
  BY <1>1 DEF ToBeShown
<1>3. Mem(Gui) \in Documents \cup {None}
  BY <1>1, ProcessParts DEF Mem
<1> QED BY <1>1, <1>2, <1>3 DEF FormTrue, FormShows, DocumentKept, At

LEMMA LoadPresetKeeps ==
  ASSUME IInv, LoadPreset
  PROVE  IInv'
<1>1. Tick /\ Mem(Gui) # None /\ UNCHANGED <<fs, proc, stale, advanced, unsaved>>
  BY DEF LoadPreset
<1>2. PICK name \in PresetNames(Mem(Gui)) : Fill(Mem(Gui), name)
  BY DEF LoadPreset
<1>3. /\ TypeOK /\ PageTrue /\ ~ToBeShown /\ proc[Gui].pc = "idle"
      /\ Mem(Gui) \in Documents /\ Parses(Mem(Gui))
  BY <1>1, IdlePages
<1>4. /\ form' \in [Fields -> Texts \ {Missing}] /\ edits' \in [Fields -> Texts]
      /\ custom' \in BOOLEAN /\ fresh' = TRUE
      /\ active' \in Names \cup {""}
      /\ Shows(form', custom', Mem(Gui), active', edits')
  BY <1>2, <1>3, FillOutcome
<1>5. PagesTyped
  BY <1>1, <1>3, <1>4 DEF PagesTyped, TypeOK
<1>6. FormTrue'
  BY <1>1, <1>3, <1>4 DEF FormTrue, FormShows, At, Mem
<1>7. PageTrue'
  BY <1>1, <1>3 DEF PageTrue, ToBeShown, Mem, Op
<1> QED BY <1>1, <1>5, <1>6, <1>7, PageStep

LEMMA ResetAdvancedKeeps ==
  ASSUME IInv, ResetAdvanced
  PROVE  IInv'
<1>1. Tick /\ Mem(Gui) # None /\ Populate(Mem(Gui)) /\ UNCHANGED <<fs, proc, stale, unsaved>>
  BY DEF ResetAdvanced
<1>2. proc[Gui].pc = "idle" /\ Mem(Gui) \in Documents /\ Parses(Mem(Gui))
  BY <1>1, IdlePages
<1>3. /\ PagesTyped /\ fresh' = TRUE /\ advanced'.filled
      /\ Shows(form', custom', Mem(Gui), active', edits') /\ PageShows(advanced', Mem(Gui))
  BY <1>1, <1>2, PopulateOutcome
<1>4. FormTrue'
  BY <1>1, <1>2, <1>3 DEF FormTrue, FormShows, At, Mem
<1>5. PageTrue'
  BY <1>1, <1>3 DEF PageTrue, Mem
<1> QED BY <1>1, <1>3, <1>4, <1>5, PageStep

LEMMA ClearFormKeeps ==
  ASSUME IInv, ClearForm
  PROVE  IInv'
<1>1. /\ Tick /\ UNCHANGED <<fs, proc, stale, advanced, unsaved>>
      /\ form' = [BlankForm EXCEPT !.format = form.format]
      /\ custom' = FALSE /\ active' = "" /\ fresh' = FALSE /\ edits' = NoSettings
  BY DEF ClearForm
<1>2. TypeOK /\ PageTrue /\ ~ToBeShown /\ proc[Gui].pc = "idle"
  BY <1>1, IdlePages
<1>3. form.format \in Texts \ {Missing}
  BY <1>2 DEF TypeOK, Fields
<1>4. BlankForm \in [Fields -> Texts \ {Missing}]
  <2>1. {"[]", "hybrid", "", "TorrentCraft"} \subseteq Texts \ {Missing}
    BY TextsAssumption DEF Missing
  <2> QED BY <2>1, RecordOfFields, Zenon DEF BlankForm
<1>5. form' \in [Fields -> Texts \ {Missing}]
  BY <1>1, <1>3, <1>4
<1>6. NoSettings \in [Fields -> Texts]
  BY TextsAssumption DEF NoSettings
<1>7. PagesTyped
  BY <1>1, <1>2, <1>5, <1>6 DEF PagesTyped, TypeOK
<1>8. FormTrue'
  BY <1>1, <1>2 DEF FormTrue, At
<1>9. PageTrue'
  BY <1>1, <1>2 DEF PageTrue, ToBeShown, Mem, Op
<1> QED BY <1>1, <1>7, <1>8, <1>9, PageStep

LEMMA TypeFieldKeeps ==
  ASSUME IInv, TypeField
  PROVE  IInv'
<1>1. Tick /\ UNCHANGED <<fs, proc, stale, custom, active, fresh, advanced, unsaved>>
  BY DEF TypeField
<1>2. PICK t \in Typed : /\ t.field = "created_by" => custom
                         /\ form' = [form EXCEPT ![t.field] = t.value]
                         /\ edits' = [edits EXCEPT ![t.field] = t.value]
  BY DEF TypeField
<1>3. /\ TypeOK /\ FormTrue /\ PageTrue /\ ~ToBeShown /\ proc[Gui].pc = "idle"
      /\ fresh => Mem(Gui) # None /\ Shows(form, custom, Mem(Gui), active, edits)
      /\ Mem(Gui) # None => Mem(Gui) \in Documents /\ Parses(Mem(Gui))
  BY <1>1, IdlePages
<1>4. t.field \in Fields /\ t.value \in Texts \ {Missing}
  BY TypedAssumption
<1>5. form \in [Fields -> Texts \ {Missing}] /\ edits \in Settings_
  BY <1>3 DEF TypeOK, Settings_
<1>6. form' \in [Fields -> Texts \ {Missing}] /\ edits' \in Settings_
  BY <1>2, <1>4, <1>5 DEF Settings_
<1>7. PagesTyped
  BY <1>1, <1>3, <1>6 DEF PagesTyped, TypeOK, Settings_
<1>8. ASSUME fresh
      PROVE  Shows(form', custom', Mem(Gui), active', edits')
  <2> DEFINE doc == Mem(Gui)
             old == ResolveSettings(OverlaySettings(WithPreset(doc, active), edits))
             new == ResolveSettings(OverlaySettings(WithPreset(doc, active), edits'))
  <2>1. doc \in Documents /\ Shows(form, custom, doc, active, edits)
    BY <1>3, <1>8
  <2>2. \A f \in Fields : new[f] = IF f = t.field THEN t.value ELSE old[f]
    <3>1. ASSUME NEW f \in Fields
          PROVE  new[f] = IF f = t.field THEN t.value ELSE old[f]
      <4>1. /\ old[f] = First(First(edits[f], WithPreset(doc, active)[f]), Fallback[f])
            /\ new[f] = First(First(edits'[f], WithPreset(doc, active)[f]), Fallback[f])
        BY <1>5, <1>6, <2>1, ShownFields
      <4>2. edits'[f] = IF f = t.field THEN t.value ELSE edits[f]
        BY <1>2, <1>5 DEF Settings_
      <4> HIDE DEF old, new, doc
      <4> QED BY <1>4, <4>1, <4>2 DEF First
    <3> QED BY <3>1
  <2>3. \A f \in Fields : form'[f] = IF f = t.field THEN t.value ELSE form[f]
    BY <1>2, <1>5
  <2>4. "created_by" \in Fields
    BY DEF Fields
  <2>5. edits'["created_by"] = IF "created_by" = t.field THEN t.value ELSE edits["created_by"]
    BY <1>2, <1>5, <2>4 DEF Settings_
  <2>6. /\ \/ active \in PresetNames(doc)
           \/ active = "" /\ DefaultPreset(doc) \notin PresetNames(doc)
        /\ \A f \in Fields \ {"created_by"} : form[f] = old[f]
        /\ IF custom THEN form.created_by = old.created_by ELSE edits.created_by = Missing
    BY <2>1 DEF Shows
  <2> HIDE DEF old, doc
  <2>7. /\ \A f \in Fields \ {"created_by"} : form'[f] = new[f]
        /\ IF custom THEN form'.created_by = new.created_by ELSE edits'.created_by = Missing
    <3> HIDE DEF new
    <3> QED BY <1>2, <2>2, <2>3, <2>4, <2>5, <2>6
  <2> QED BY <1>1, <2>6, <2>7 DEF Shows, doc
<1>9. FormTrue'
  BY <1>1, <1>3, <1>8 DEF FormTrue, FormShows, At, Mem
<1>10. PageTrue'
  BY <1>1, <1>3 DEF PageTrue, ToBeShown, Mem, Op
<1> QED BY <1>1, <1>7, <1>9, <1>10, PageStep

LEMMA ToggleCreatorKeeps ==
  ASSUME IInv, ToggleCreator
  PROVE  IInv'
<1> DEFINE doc == Mem(Gui)
           given == IF doc = None THEN Missing ELSE Defaults(doc).created_by
           preset == IF doc # None /\ custom' /\ active \in PresetNames(doc)
                     THEN Preset(doc, active).created_by ELSE Missing
           creator == First(First(preset, given), "TorrentCraft")
<1>1. /\ Tick /\ UNCHANGED <<fs, proc, stale, active, fresh, advanced, unsaved>>
      /\ custom' = ~custom
      /\ form' = [form EXCEPT !.created_by = creator]
      /\ edits' = [edits EXCEPT !.created_by = Missing]
  BY DEF ToggleCreator
<1>2. /\ TypeOK /\ FormTrue /\ PageTrue /\ ~ToBeShown /\ proc[Gui].pc = "idle"
      /\ fresh => doc # None /\ Shows(form, custom, doc, active, edits)
      /\ doc # None => doc \in Documents
  BY <1>1, IdlePages
<1>3. form \in [Fields -> Texts \ {Missing}] /\ edits \in Settings_ /\ "created_by" \in Fields
  BY <1>2 DEF TypeOK, Settings_, Fields
<1>4. doc # None => /\ Defaults(doc) \in Settings_
                    /\ active \in PresetNames(doc) => Preset(doc, active) \in Settings_
  BY <1>2, DocumentSettings
<1>5. given \in Texts /\ preset \in Texts
  BY <1>3, <1>4, TextsAssumption DEF Settings_
<1>6. doc # None => WithPreset(doc, active)["created_by"] =
        IF active \in PresetNames(doc)
        THEN First(Preset(doc, active)["created_by"], Defaults(doc)["created_by"])
        ELSE Defaults(doc)["created_by"]
  BY <1>2, <1>3, DocumentSettings
<1>7. doc # None /\ custom' => First(preset, given) = WithPreset(doc, active)["created_by"]
  BY <1>6 DEF First
<1> HIDE DEF given, preset, doc
<1>8. creator \in Texts \ {Missing}
  <2>1. First(preset, given) \in Texts
    BY <1>5, FirstTyped
  <2>2. "TorrentCraft" \in Texts /\ "TorrentCraft" # Missing
    BY TextsAssumption DEF Missing
  <2> QED BY <2>1, <2>2, FirstTyped
<1>9. form' \in [Fields -> Texts \ {Missing}] /\ edits' \in Settings_
  BY <1>1, <1>3, <1>8, TextsAssumption DEF Settings_
<1>10. /\ \A f \in Fields \ {"created_by"} : form'[f] = form[f] /\ edits'[f] = edits[f]
       /\ form'["created_by"] = creator /\ edits'["created_by"] = Missing
  BY <1>1, <1>3 DEF Settings_
<1> HIDE DEF creator
<1>11. custom' \in BOOLEAN
  BY <1>1, Zenon
<1>12. PagesTyped
  BY <1>1, <1>2, <1>9, <1>11 DEF PagesTyped, TypeOK, Settings_
<1>13. ASSUME fresh
       PROVE  Shows(form', custom', doc, active', edits')
  <2> DEFINE old == ResolveSettings(OverlaySettings(WithPreset(doc, active), edits))
             new == ResolveSettings(OverlaySettings(WithPreset(doc, active), edits'))
  <2>1. doc # None /\ doc \in Documents /\ Shows(form, custom, doc, active, edits)
    BY <1>2, <1>13
  <2>2. /\ \/ active \in PresetNames(doc)
           \/ active = "" /\ DefaultPreset(doc) \notin PresetNames(doc)
        /\ \A f \in Fields \ {"created_by"} : form[f] = old[f]
    BY <2>1 DEF Shows
  <2>3. ASSUME NEW f \in Fields \ {"created_by"}
        PROVE  form'[f] = new[f]
    <3>1. /\ old[f] = First(First(edits[f], WithPreset(doc, active)[f]), Fallback[f])
          /\ new[f] = First(First(edits'[f], WithPreset(doc, active)[f]), Fallback[f])
      BY <1>3, <1>9, <2>1, ShownFields
    <3> HIDE DEF old, new
    <3> QED BY <1>10, <2>2, <3>1
  <2>4. custom' => form'["created_by"] = new["created_by"]
    <3>1. new["created_by"] =
            First(First(edits'["created_by"], WithPreset(doc, active)["created_by"]),
                  Fallback["created_by"])
      BY <1>3, <1>9, <2>1, ShownFields
    <3>2. Fallback["created_by"] = "TorrentCraft"
      BY DEF Fallback
    <3> HIDE DEF new
    <3> QED BY <1>7, <1>10, <2>1, <3>1, <3>2 DEF creator, First
  <2> HIDE DEF old
  <2>5. /\ \A f \in Fields \ {"created_by"} : form'[f] = new[f]
        /\ IF custom' THEN form'.created_by = new.created_by ELSE edits'.created_by = Missing
    <3> HIDE DEF new
    <3> QED BY <1>10, <2>3, <2>4
  <2> QED BY <1>1, <2>2, <2>5 DEF Shows
<1>14. FormTrue'
  <2>1. doc' = doc
    BY <1>1 DEF doc, Mem
  <2> QED BY <1>1, <1>2, <1>13, <2>1 DEF FormTrue, FormShows, At, Mem, doc
<1>15. PageTrue'
  BY <1>1, <1>2 DEF PageTrue, ToBeShown, Mem, Op
<1> QED BY <1>1, <1>12, <1>14, <1>15, PageStep

LEMMA StartUpKeeps ==
  ASSUME IInv, StartUp
  PROVE  IInv'
<1> DEFINE p == DiscoverConfig(None)
           path == IF p = None THEN UserPath ELSE p
           label == IF p = None THEN "idle" ELSE "sizing"
           new == [proc[Gui] EXCEPT !.path = path, !.op = Start, !.pc = label]
<1>1. TypeOK /\ WindowStages /\ FormTrue /\ PageTrue /\ DocumentKept(Gui) /\ Gui \in Actors
  BY DEF IInv, Actors
<1>2. At(Gui, "starting") /\ UNCHANGED <<fs, stale, window, steps>>
  BY DEF StartUp
<1>3. path \in Paths
  BY SearchFinds, ConfigAssumption
<1>4. label \in {"idle", "sizing"} /\ label \in Stages
  BY DEF Stages
<1>5. proc' = [proc EXCEPT ![Gui] = new]
  BY <1>1 DEF StartUp, TypeOK
<1> HIDE DEF path, label
<1>6. /\ new \in Processes /\ new.op = Start /\ new.path = path /\ new.pc = label
      /\ new.mem = Mem(Gui) /\ new.home = proc[Gui].home
  BY <1>1, <1>3, <1>4, ProcessParts DEF Processes, Mem
<1> HIDE DEF new
<1>7. /\ proc' \in [Actors -> Processes] /\ proc'[Gui] = new
      /\ \A b \in Actors \ {Gui} : proc'[b] = proc[b]
  BY <1>1, <1>5, <1>6 DEF TypeOK
<1>8. Mem(Gui) = None
  BY <1>1, <1>2 DEF WindowStages
<1>9. fresh = FALSE /\ active = "" /\ ~advanced.filled
  BY <1>1, <1>8 DEF FormTrue, PageTrue, TypeOK
<1>10. WindowStages'
  BY <1>3, <1>4, <1>6, <1>7, <1>8 DEF WindowStages, At, Op, Mem, Resting, Loading, Start
<1>11. DocumentKept(Gui)' /\ WindowExact' /\ FormTrue' /\ PageTrue'
  BY <1>2, <1>4, <1>6, <1>7, <1>8, <1>9
     DEF DocumentKept, WindowExact, FormTrue, PageTrue, At, Mem, window
<1>12. \A b \in Clis : proc'[b] = proc[b]
  BY <1>7, ConfigAssumption DEF Actors
<1> QED BY <1>1, <1>2, <1>7, <1>10, <1>11, <1>12, WindowReads DEF TypeOK, window

LEMMA UserCommandKeeps ==
  ASSUME IInv, UserCommand
  PROVE  IInv'
<1>1. /\ TypeOK /\ WindowStages /\ FormTrue /\ PageTrue /\ WindowExact
      /\ DocumentKept(Gui) /\ Gui \in Actors
  BY DEF IInv, Actors
<1>2. Tick /\ UNCHANGED <<fs, stale, window>> /\ proc[Gui].pc = "idle"
  BY DEF UserCommand, Tick, At
<1>3. PICK cmd \in GuiCommands :
        /\ cmd.kind = "remember" => Mem(Gui) # None
        /\ cmd.kind = "delete" => Mem(Gui) # None /\ cmd.name \in PresetNames(Mem(Gui))
        /\ proc' = [proc EXCEPT
              ![Gui].op = cmd, ![Gui].pc = FirstStep(cmd.kind),
              ![Gui].path = IF cmd.kind \in {"reload", "initialize"} THEN cmd.path ELSE @]
  BY DEF UserCommand
<1> DEFINE label == FirstStep(cmd.kind)
           path == IF cmd.kind \in {"reload", "initialize"} THEN cmd.path ELSE proc[Gui].path
           new == [proc[Gui] EXCEPT !.op = cmd, !.pc = label, !.path = path]
<1>4. cmd \in GuiOps /\ ~cmd.created /\ GuiOpTyped(cmd)
  BY GuiCommandsAssumption, GuiOpParts
<1>5. path \in Paths
  BY <1>1, <1>2, <1>4 DEF WindowStages, At, GuiOpTyped
<1>6. /\ label \in {"sizing", "creating", "editing"} /\ label \in Stages
      /\ cmd.kind = "reload" => label = "sizing"
      /\ cmd.kind = "initialize" => label = "creating"
      /\ cmd.kind \notin {"reload", "initialize"} =>
           (label = "editing" /\ Mem(Gui) # None) \/ (label # "editing" /\ Mem(Gui) = None)
  BY <1>4 DEF FirstStep, Stages
<1>7. proc' = [proc EXCEPT ![Gui] = new]
  BY <1>1, <1>3, ProcessParts DEF TypeOK, Processes
<1> HIDE DEF label, path
<1>8. /\ new \in Processes /\ new.op = cmd /\ new.path = path /\ new.pc = label
      /\ new.mem = Mem(Gui) /\ new.home = proc[Gui].home
  BY <1>1, <1>4, <1>5, <1>6, ProcessParts DEF Processes, Mem
<1> HIDE DEF new
<1>9. /\ proc' \in [Actors -> Processes] /\ proc'[Gui] = new
      /\ \A b \in Actors \ {Gui} : proc'[b] = proc[b]
  BY <1>1, <1>7, <1>8 DEF TypeOK
<1>10. WindowStages'
  BY <1>4, <1>5, <1>6, <1>8, <1>9 DEF WindowStages, At, Op, Mem, Resting, Loading
<1>11. Stale(Gui)' <=> Stale(Gui)
  BY <1>2, <1>8, <1>9 DEF Stale
<1>12. /\ proc[Gui].pc \in Loading \cup {"idle"}
       /\ proc'[Gui].pc \in Loading \cup {"idle", "editing"}
       /\ proc'[Gui].pc \notin {"placing", "reading"}
       /\ proc'[Gui].mem = Mem(Gui) /\ proc'[Gui].home = proc[Gui].home
  BY <1>2, <1>6, <1>8, <1>9 DEF Loading
<1>13. /\ WindowExact' /\ FormTrue' /\ PageTrue'
       /\ Mem(Gui)' # None =>
              Parses(Mem(Gui)') /\ proc'[Gui].home \in Paths /\ fs'[proc'[Gui].home] # None
  BY <1>2, <1>11, <1>12, WindowGoesOn
<1>14. DocumentKept(Gui)'
  BY <1>12, <1>13 DEF DocumentKept, At
<1>15. \A b \in Clis : proc'[b] = proc[b]
  BY <1>9, ConfigAssumption DEF Actors
<1>16. steps' \in Nat
  <2>1. steps \in Nat
    BY <1>1 DEF TypeOK
  <2>2. steps' = steps + 1
    BY <1>2 DEF Tick
  <2> QED BY <2>1, <2>2
<1> QED BY <1>1, <1>2, <1>9, <1>10, <1>13, <1>14, <1>15, <1>16, WindowReads DEF TypeOK, window

\* What a command goes on with after the new configuration was shown.
LEMMA GoesOnParts ==
  ASSUME NEW cmd \in GuiOps
  PROVE  LET op == IF cmd.kind = "apply"
                   THEN [cmd EXCEPT !.created = FALSE, !.patch = NoSettings, !.machine = Missing,
                                    !.default_preset = Missing, !.pathless = FALSE]
                   ELSE [cmd EXCEPT !.created = FALSE]
         IN op \in GuiOps /\ op.kind = cmd.kind /\ ~op.created
<1>1. NoSettings \in [Fields -> Texts \ {"bad"}] /\ Missing \in Texts \ {"bad"}
  BY TextsAssumption DEF NoSettings, Missing
<1> QED BY <1>1 DEF GuiOps

LEMMA ShowInitializedKeeps ==
  ASSUME IInv, ShowInitialized
  PROVE  IInv'
<1> DEFINE cmd == proc[Gui].op
           op == IF cmd.kind = "apply"
                 THEN [cmd EXCEPT !.created = FALSE, !.patch = NoSettings, !.machine = Missing,
                                  !.default_preset = Missing, !.pathless = FALSE]
                 ELSE [cmd EXCEPT !.created = FALSE]
           new == [proc[Gui] EXCEPT !.op = op]
<1>1. /\ TypeOK /\ WindowStages /\ WindowExact /\ DocumentKept(Gui) /\ Gui \in Actors
  BY DEF IInv, Actors
<1>2. /\ proc[Gui].pc = "editing" /\ cmd.created /\ Populate(Mem(Gui))
      /\ UNCHANGED <<fs, stale, unsaved, steps>>
  BY DEF ShowInitialized, At, Op
<1>3. /\ Mem(Gui) # None /\ cmd \in GuiOps \cup {Start} /\ proc[Gui].path \in Paths
      /\ Parses(Mem(Gui)) /\ proc[Gui].home \in Paths /\ fs[proc[Gui].home] # None
      /\ ~Stale(Gui) /\ ~unsaved => Mem(Gui) = fs[proc[Gui].home]
  BY <1>1, <1>2 DEF WindowStages, WindowExact, DocumentKept, At, Resting, Op
<1>4. cmd \in GuiOps /\ Mem(Gui) \in Documents
  BY <1>1, <1>2, <1>3, ProcessParts DEF Start, Mem
<1>5. /\ PagesTyped /\ fresh' = TRUE /\ advanced'.filled
      /\ Shows(form', custom', Mem(Gui), active', edits') /\ PageShows(advanced', Mem(Gui))
  BY <1>2, <1>3, <1>4, PopulateOutcome
<1>6. /\ proc' \in [Actors -> Processes] /\ \A b \in Clis : proc'[b] = proc[b]
      /\ proc'[Gui].mem = Mem(Gui) /\ proc'[Gui].home = proc[Gui].home
      /\ proc'[Gui].pc \in {"idle", "editing"}
      /\ WindowStages'
  <2>1. CASE cmd.kind = "initialize"
    <3>1. End(Gui)
      BY <2>1 DEF ShowInitialized, Op
    <3>2. /\ proc' \in [Actors -> Processes] /\ \A b \in Clis : proc'[b] = proc[b]
          /\ proc'[Gui].pc = "idle" /\ proc'[Gui].mem = Mem(Gui)
          /\ proc'[Gui].home = proc[Gui].home /\ proc'[Gui].path = proc[Gui].path
      BY <1>1, <3>1, EndWindow
    <3> QED BY <1>3, <3>2, IdleWindow
  <2>2. CASE cmd.kind # "initialize"
    <3>1. op \in GuiOps /\ op.kind = cmd.kind /\ ~op.created
      BY <1>4, GoesOnParts
    <3>2. proc' = [proc EXCEPT ![Gui] = new]
      BY <1>1, <2>2, ProcessParts DEF ShowInitialized, Op, TypeOK, Processes
    <3> HIDE DEF op, cmd
    <3>3. /\ new \in Processes /\ new.op = op /\ new.path = proc[Gui].path /\ new.pc = "editing"
          /\ new.mem = Mem(Gui) /\ new.home = proc[Gui].home
      BY <1>1, <1>2, <3>1, ProcessParts DEF Processes, Mem
    <3> HIDE DEF new
    <3>4. /\ proc' \in [Actors -> Processes] /\ proc'[Gui] = new
          /\ \A b \in Actors \ {Gui} : proc'[b] = proc[b]
      BY <1>1, <3>2, <3>3 DEF TypeOK
    <3>5. WindowStages'
      BY <1>3, <2>2, <3>1, <3>3, <3>4 DEF WindowStages, At, Op, Mem, Resting, Loading
    <3>6. \A b \in Clis : proc'[b] = proc[b]
      BY <3>4, ConfigAssumption DEF Actors
    <3> QED BY <3>3, <3>4, <3>5, <3>6
  <2> QED BY <2>1, <2>2
<1>7. DocumentKept(Gui)'
  BY <1>2, <1>3, <1>6 DEF DocumentKept, At, Mem
<1>8. WindowExact'
  BY <1>2, <1>3, <1>6 DEF WindowExact, At, Mem, Stale
<1>9. FormTrue'
  BY <1>3, <1>5, <1>6 DEF FormTrue, FormShows, At, Mem
<1>10. PageTrue'
  BY <1>3, <1>5, <1>6 DEF PageTrue, Mem
<1> QED BY <1>1, <1>2, <1>5, <1>6, <1>7, <1>8, <1>9, <1>10, WindowReads DEF TypeOK, PagesTyped

\* What the form shows it goes on showing when the presets it may depend on stay.
LEMMA ShowsStable ==
  ASSUME NEW fields, NEW own, NEW doc \in Documents, NEW r \in Documents, NEW name, NEW typed,
         Shows(fields, own, doc, name, typed),
         name \in PresetNames(r) <=> name \in PresetNames(doc),
         DefaultPreset(doc) \notin PresetNames(doc) => DefaultPreset(r) \notin PresetNames(r),
         WithPreset(r, name) = WithPreset(doc, name)
  PROVE  Shows(fields, own, r, name, typed)
BY DEF Shows

\* An edit of the window that is not refused: the document loads, keeps what it was not
\* asked to change and, but for an apply, shows on the Advanced page as it did.
LEMMA WindowEdited ==
  ASSUME NEW doc \in Documents, Parses(doc), NEW cmd \in GuiOps \cup {Start},
         cmd.kind # "initialize", TypeOK, WindowEdit(doc, cmd) # None
  PROVE  LET r == WindowEdit(doc, cmd) IN
         /\ r \in Documents /\ Parses(r)
         /\ (cmd.kind = "apply" => PageShows(advanced, doc)) => KeepsRest(doc, r, cmd, advanced)
         /\ cmd.kind # "apply" => /\ r.canonical = doc.canonical
                                  /\ PageShows(advanced, doc) => PageShows(advanced, r)
         /\ cmd.kind = "apply" => /\ doc.canonical
                                  /\ PageShows(Shown(cmd), r)
<1> DEFINE r == WindowEdit(doc, cmd)
<1>1. cmd \in GuiOps => GuiOpTyped(cmd)
  BY GuiOpParts
<1>2. cmd.kind # "reload" => cmd \in GuiOps
  BY DEF Start
<1>3. form \in [Fields -> Texts \ {Missing}] /\ PageTyped(advanced)
  BY PageParts DEF TypeOK
<1>4. ASSUME r \in Documents, Parses(r), KeepsRest(doc, r, cmd, advanced), cmd.kind # "apply",
             r.canonical = doc.canonical, r.defaults = doc.defaults, r.machine = doc.machine
      PROVE  /\ r \in Documents /\ Parses(r)
             /\ (cmd.kind = "apply" => PageShows(advanced, doc)) => KeepsRest(doc, r, cmd, advanced)
             /\ cmd.kind # "apply" => /\ r.canonical = doc.canonical
                                      /\ PageShows(advanced, doc) => PageShows(advanced, r)
             /\ cmd.kind = "apply" => /\ doc.canonical
                                      /\ PageShows(Shown(cmd), r)
  <2> HIDE DEF r
  <2>1. Defaults(r) = Defaults(doc)
    BY <1>4, Zenon DEF Defaults
  <2>2. PageShows(advanced, doc) => PageShows(advanced, r)
    BY <1>4, <2>1 DEF PageShows
  <2> QED BY <1>4, <2>2
<1>5. CASE cmd.kind \in {"reload", "language"}
  <2>1. cmd.kind = "language" => cmd.value \in Texts
    BY <1>1, <1>2 DEF GuiOpTyped
  <2>2. /\ r \in Documents /\ Parses(r) /\ KeepsRest(doc, r, cmd, advanced)
        /\ r.canonical = doc.canonical /\ r.defaults = doc.defaults /\ r.machine = doc.machine
    BY <1>5, <2>1, ReloadOutcome
  <2> QED BY <1>4, <1>5, <2>2
<1>6. CASE cmd.kind = "remember"
  <2>1. cmd.value \in Texts
    BY <1>1, <1>2, <1>6 DEF GuiOpTyped
  <2>2. /\ r \in Documents /\ Parses(r) /\ KeepsRest(doc, r, cmd, advanced)
        /\ r.canonical = doc.canonical /\ r.defaults = doc.defaults /\ r.machine = doc.machine
    BY <1>6, <2>1, RememberOutcome
  <2> QED BY <1>4, <1>6, <2>2
<1>7. CASE cmd.kind \in {"import", "save", "delete"}
  <2>1. GuiOpTyped(cmd)
    BY <1>1, <1>2, <1>7
  <2>2. /\ r \in Documents /\ Parses(r) /\ KeepsRest(doc, r, cmd, advanced)
        /\ r.canonical = doc.canonical /\ r.defaults = doc.defaults /\ r.machine = doc.machine
    BY <1>3, <1>7, <2>1, WindowPresetOutcome
  <2> QED BY <1>4, <1>7, <2>2
<1>8. CASE cmd.kind = "apply"
  <2>1. GuiOpTyped(cmd)
    BY <1>1, <1>2, <1>8
  <2>2. Applies(cmd, doc, r) /\ (PageShows(advanced, doc) => KeepsRest(doc, r, cmd, advanced))
    BY <1>3, <1>8, <2>1, ApplyOutcome
  <2>3. PageShows(Shown(cmd), r)
    BY <1>3, <2>1, <2>2, AppliesShows
  <2> QED BY <1>8, <2>2, <2>3 DEF Applies
<1>9. cmd.kind \in {"reload", "language"} \cup {"remember", "import", "save", "delete", "apply"}
  BY <1>1, <1>2 DEF GuiOpTyped, GuiKinds
<1> QED BY <1>5, <1>6, <1>7, <1>8, <1>9

\* What the form is said to show after the save of a document.
SaidToShow(cmd, doc) ==
    CASE cmd.kind = "save" -> FormShows(doc, cmd.name, NoSettings)
      [] cmd.kind = "import" -> cmd.name \in PresetNames(doc)
      [] cmd.kind = "delete" -> fresh /\ active # cmd.name => FormShows(doc, active, edits)
      [] cmd.kind \in {"language", "remember"} -> fresh => FormShows(doc, active, edits)
      [] OTHER -> TRUE

\* The form shows it already before the save.
LEMMA WindowEditShows ==
  ASSUME NEW doc \in Documents, Parses(doc), NEW cmd \in GuiOps \cup {Start},
         cmd.kind # "initialize", TypeOK, WindowEdit(doc, cmd) # None,
         fresh /\ cmd.kind # "reload" => FormShows(doc, active, edits)
  PROVE  SaidToShow(cmd, WindowEdit(doc, cmd))
<1> DEFINE r == WindowEdit(doc, cmd)
<1>1. cmd.kind # "reload" => cmd \in GuiOps /\ GuiOpTyped(cmd)
  BY GuiOpParts DEF Start
<1>2. form \in [Fields -> Texts \ {Missing}] /\ custom \in BOOLEAN
  BY DEF TypeOK
<1>3. CASE cmd.kind = "save"
  BY <1>1, <1>2, <1>3, SavedShows DEF SaidToShow
<1>4. CASE cmd.kind \in {"import", "delete"}
  <2>1. /\ r \in Documents /\ DefaultPreset(r) = DefaultPreset(doc)
        /\ \A n : n # cmd.name => /\ n \in PresetNames(r) <=> n \in PresetNames(doc)
                                  /\ WithPreset(r, n) = WithPreset(doc, n)
        /\ cmd.kind # "delete" => cmd.name \in PresetNames(r)
    BY <1>1, <1>2, <1>4, WindowPresetOutcome
  <2>2. cmd.kind = "delete" => cmd.name \in PresetNames(doc)
    BY DEF WindowEdit, RemovePreset
  <2>3. cmd.kind = "delete" /\ fresh /\ active # cmd.name => FormShows(r, active, edits)
    <3>1. ASSUME cmd.kind = "delete", fresh, active # cmd.name
          PROVE  Shows(form, custom, r, active, edits)
      <4>1. Shows(form, custom, doc, active, edits)
        BY <3>1 DEF FormShows
      <4>2. DefaultPreset(doc) \notin PresetNames(doc) => DefaultPreset(r) \notin PresetNames(r)
        BY <2>1, <2>2, <3>1
      <4> HIDE DEF r
      <4> QED BY <2>1, <3>1, <4>1, <4>2, ShowsStable
    <3> QED BY <3>1 DEF FormShows
  <2> QED BY <1>4, <2>1, <2>3 DEF SaidToShow
<1>5. CASE cmd.kind \in {"language", "remember"}
  <2>1. /\ r \in Documents /\ DefaultPreset(r) = DefaultPreset(doc)
        /\ \A name : /\ name \in PresetNames(r) <=> name \in PresetNames(doc)
                     /\ WithPreset(r, name) = WithPreset(doc, name)
    <3>1. cmd.value \in Texts
      BY <1>1, <1>5 DEF GuiOpTyped
    <3> QED BY <1>5, <3>1, ReloadOutcome, RememberOutcome
  <2>2. fresh => FormShows(r, active, edits)
    <3>1. ASSUME fresh
          PROVE  Shows(form, custom, r, active, edits)
      <4>1. Shows(form, custom, doc, active, edits)
        BY <1>5, <3>1 DEF FormShows
      <4> HIDE DEF r
      <4> QED BY <2>1, <4>1, ShowsStable
    <3> QED BY <3>1 DEF FormShows
  <2> QED BY <1>5, <2>2 DEF SaidToShow
<1>6. CASE cmd.kind \notin {"save", "import", "delete", "language", "remember"}
  BY <1>6 DEF SaidToShow
<1> QED BY <1>3, <1>4, <1>5, <1>6

LEMMA EditWindowKeeps ==
  ASSUME IInv, EditWindow
  PROVE  IInv'
<1> DEFINE mem == proc[Gui].mem
           cmd == proc[Gui].op
           doc == WindowEdit(mem, cmd)
           half == doc = None /\ cmd.kind = "apply" /\ mem.canonical
           mem2 == IF doc # None THEN doc ELSE IF half THEN AppliedDefaults(mem, cmd) ELSE mem
           op2 == IF doc = None THEN Idle ELSE cmd
           label == IF doc = None THEN "idle" ELSE "saving"
           new == [proc[Gui] EXCEPT !.mem = mem2, !.op = op2, !.pc = label]
<1>1. /\ TypeOK /\ WindowStages /\ WindowExact /\ DocumentKept(Gui) /\ FormTrue /\ PageTrue
      /\ Gui \in Actors
  BY DEF IInv, Actors
<1>2. /\ proc[Gui].pc = "editing" /\ ~cmd.created
      /\ proc' = [proc EXCEPT ![Gui] = new]
      /\ unsaved' = (unsaved \/ half) /\ fresh' = (fresh /\ ~half)
      /\ advanced' = IF cmd.kind = "apply" THEN Shown(cmd) ELSE advanced
      /\ UNCHANGED <<fs, stale, form, custom, active, edits, steps>>
  BY <1>1, ProcessParts DEF EditWindow, At, Op, Mem, TypeOK, Processes
<1>3. /\ mem # None /\ cmd \in GuiOps \cup {Start} /\ proc[Gui].path \in Paths
      /\ cmd.kind # "initialize"
      /\ Parses(mem) /\ proc[Gui].home \in Paths /\ fs[proc[Gui].home] # None
      /\ ~Stale(Gui) /\ ~unsaved => mem = fs[proc[Gui].home]
  BY <1>1, <1>2 DEF WindowStages, WindowExact, DocumentKept, At, Resting, Op, Mem
<1>4. mem \in Documents
  BY <1>1, <1>3, ProcessParts
<1>5. /\ cmd.kind # "reload" => ~ToBeShown
      /\ fresh /\ cmd.kind # "reload" => FormShows(mem, active, edits)
      /\ advanced.filled /\ cmd.kind # "reload" /\ mem.canonical => PageShows(advanced, mem)
  BY <1>1, <1>2 DEF ToBeShown, Op, FormTrue, PageTrue, At, Mem
<1>6. cmd.kind = "apply" => GuiOpTyped(cmd)
  BY <1>3, GuiOpParts DEF Start
<1>7. advanced' \in Pages /\ advanced'.filled = advanced.filled
  <2>1. cmd.kind = "apply" => Shown(cmd) \in Pages /\ Shown(cmd).filled = advanced.filled
    BY <1>1, <1>6, ShownPage, ShownTyped, PageParts
  <2>2. advanced \in Pages
    BY <1>1 DEF TypeOK
  <2> QED BY <1>2, <2>1, <2>2
<1>8. doc # None =>
        /\ doc \in Documents /\ Parses(doc)
        /\ (cmd.kind = "apply" => PageShows(advanced, mem)) => KeepsRest(mem, doc, cmd, advanced)
        /\ cmd.kind # "apply" => /\ doc.canonical = mem.canonical
                                 /\ PageShows(advanced, mem) => PageShows(advanced, doc)
        /\ cmd.kind = "apply" => mem.canonical /\ PageShows(Shown(cmd), doc)
  BY <1>1, <1>3, <1>4, WindowEdited
<1>9. doc = None => cmd.kind \notin {"reload", "language"}
  <2>1. ASSUME cmd.kind \in {"reload", "language"}
        PROVE  doc \in Documents
    <3>1. cmd.kind = "language" => cmd.value \in Texts
      BY <1>3, GuiOpParts DEF GuiOpTyped, Start
    <3> QED BY <1>3, <1>4, <2>1, <3>1, ReloadOutcome
  <2> QED BY <2>1, NoneAssumption
<1>10. doc = None /\ half =>
         mem2 \in Documents /\ Parses(mem2) /\ PageShows(Shown(cmd), mem2)
  <2>1. ASSUME half
        PROVE  Applies(cmd, mem, AppliedDefaults(mem, cmd))
               /\ PageShows(Shown(cmd), AppliedDefaults(mem, cmd))
    <3>1. PageTyped(advanced) /\ GuiOpTyped(cmd) /\ mem.canonical
      BY <1>1, <1>6, <2>1, PageParts
    <3>2. Applies(cmd, mem, AppliedDefaults(mem, cmd))
      BY <1>3, <1>4, <3>1, HalfApplied
    <3> QED BY <3>1, <3>2, AppliesShows
  <2> QED BY <2>1 DEF Applies
<1>11. mem2 \in Documents /\ Parses(mem2) /\ mem2 # None
  <2>1. mem2 \in Documents /\ Parses(mem2)
    BY <1>3, <1>4, <1>8, <1>10
  <2> QED BY <2>1, NoneAssumption
<1>12. /\ label \in {"idle", "saving"} /\ label \in Stages
       /\ op2 \in CommandOps \cup GuiOps \cup {Idle, Start}
       /\ (label = "saving" <=> doc # None) /\ (doc # None => op2 = cmd /\ mem2 = doc)
       /\ doc = None /\ ~half => mem2 = mem
  BY <1>3 DEF Stages
<1>15. doc # None => SaidToShow(cmd, doc)
  BY <1>1, <1>3, <1>4, <1>5, WindowEditShows
<1>16. half => doc = None /\ cmd.kind = "apply" /\ mem.canonical
  OBVIOUS
<1>17. cmd.kind = "apply" /\ doc = None /\ ~half => ~mem.canonical
  OBVIOUS
<1> HIDE DEF half, mem2, op2, label, doc
<1>18. /\ new \in Processes /\ new.op = op2 /\ new.path = proc[Gui].path /\ new.pc = label
       /\ new.mem = mem2 /\ new.home = proc[Gui].home
  BY <1>1, <1>11, <1>12, ProcessParts DEF Processes
<1> HIDE DEF new, mem, cmd
<1>19. /\ proc' \in [Actors -> Processes] /\ proc'[Gui] = new
       /\ \A b \in Actors \ {Gui} : proc'[b] = proc[b]
  BY <1>1, <1>2, <1>18 DEF TypeOK
<1>20. \A b \in Clis : proc'[b] = proc[b]
  BY <1>19, ConfigAssumption DEF Actors
<1>21. DocumentKept(Gui)'
  BY <1>2, <1>3, <1>11, <1>12, <1>18, <1>19 DEF DocumentKept, At, Mem
<1>22. WindowStages'
  BY <1>2, <1>3, <1>11, <1>12, <1>18, <1>19 DEF WindowStages, At, Op, Mem, Resting, Loading
<1>23. Stale(Gui)' <=> Stale(Gui)
  BY <1>2, <1>18, <1>19 DEF Stale
<1>24. WindowExact'
  <2>1. CASE doc # None
    <3>1. ~Stale(Gui)' /\ ~unsaved' /\ (cmd.kind = "apply" => advanced'.filled) =>
            KeepsRest(fs[proc[Gui].home], doc, cmd, advanced')
      <4>1. ASSUME ~Stale(Gui)', ~unsaved', cmd.kind = "apply" => advanced'.filled
            PROVE  KeepsRest(fs[proc[Gui].home], doc, cmd, advanced')
        <5>1. mem = fs[proc[Gui].home]
          BY <1>2, <1>3, <1>23, <4>1
        <5>2. cmd.kind = "apply" => PageShows(advanced, mem)
          BY <1>5, <1>7, <1>8, <2>1, <4>1
        <5>3. KeepsRest(mem, doc, cmd, advanced)
          BY <1>8, <2>1, <5>2
        <5>4. cmd.kind = "apply" =>
                advanced'.default_preset = First(cmd.default_preset, advanced.default_preset)
          BY <1>1, <1>2, <1>6, ShownTyped, PageParts
        <5> QED BY <5>1, <5>3, <5>4, KeepsRestStable
      <4> QED BY <4>1
    <3>2. /\ proc'[Gui].pc = "saving" /\ proc'[Gui].mem = doc /\ proc'[Gui].op = cmd
          /\ proc'[Gui].home = proc[Gui].home
      BY <1>12, <1>18, <1>19, <2>1
    <3> QED BY <1>2, <3>1, <3>2 DEF WindowExact, At, Mem, Op
  <2>2. CASE doc = None
    <3>1. proc'[Gui].pc = "idle" /\ proc'[Gui].mem = mem2 /\ proc'[Gui].home = proc[Gui].home
      BY <1>12, <1>18, <1>19, <2>2
    <3>2. ~unsaved' => ~unsaved /\ ~half
      BY <1>2
    <3>3. ~Stale(Gui)' /\ ~unsaved' => mem2 = fs[proc[Gui].home]
      BY <1>3, <1>12, <1>23, <2>2, <3>2
    <3> QED BY <1>2, <3>1, <3>3 DEF WindowExact, At, Mem
  <2> QED BY <2>1, <2>2
<1>25. FormTrue'
  <2>1. CASE doc # None
    <3>1. /\ proc'[Gui].pc = "saving" /\ proc'[Gui].mem = doc /\ proc'[Gui].op = cmd
          /\ fresh' = fresh
      <4>1. ~half
        BY <1>16, <2>1
      <4>2. fresh' = fresh
        BY <1>1, <1>2, <4>1 DEF TypeOK
      <4> QED BY <1>12, <1>18, <1>19, <2>1, <4>2
    <3> QED BY <1>2, <1>15, <2>1, <3>1 DEF FormTrue, FormShows, SaidToShow, At, Mem, Op
  <2>2. CASE doc = None
    <3>1. proc'[Gui].pc = "idle" /\ proc'[Gui].mem = mem2
      BY <1>12, <1>18, <1>19, <2>2
    <3>2. fresh' => fresh /\ ~half
      BY <1>2
    <3>3. fresh' => FormShows(mem2, active, edits)
      BY <1>5, <1>9, <1>12, <2>2, <3>2
    <3> QED BY <1>2, <1>11, <3>1, <3>3 DEF FormTrue, FormShows, At, Mem
  <2> QED BY <2>1, <2>2
<1>26. PageTrue'
  <2>1. proc'[Gui].mem = mem2 /\ mem2 # None
    BY <1>11, <1>18, <1>19
  <2>2. advanced'.filled /\ ~ToBeShown' /\ mem2.canonical => PageShows(advanced', mem2)
    <3>1. CASE cmd.kind = "apply"
      <4>1. CASE doc # None
        BY <1>2, <1>8, <1>12, <3>1, <4>1
      <4>2. CASE doc = None /\ half
        BY <1>2, <1>10, <3>1, <4>2
      <4>3. CASE doc = None /\ ~half
        BY <1>12, <1>17, <3>1, <4>3
      <4> QED BY <4>1, <4>2, <4>3
    <3>2. CASE cmd.kind = "reload"
      <4>1. ToBeShown'
        BY <1>9, <1>12, <1>18, <1>19, <3>2 DEF ToBeShown, Op
      <4> QED BY <4>1
    <3>3. CASE cmd.kind \notin {"apply", "reload"}
      <4>1. ~half
        BY <1>16, <3>3
      <4> QED BY <1>2, <1>5, <1>7, <1>8, <1>12, <3>3, <4>1
    <3> QED BY <3>1, <3>2, <3>3
  <2> QED BY <2>1, <2>2 DEF PageTrue, Mem
<1>27. unsaved' \in BOOLEAN /\ fresh' \in BOOLEAN
  BY <1>2, Zenon
<1> QED BY <1>1, <1>2, <1>7, <1>19, <1>20, <1>21, <1>22, <1>24, <1>25, <1>26, <1>27, WindowReads
    DEF TypeOK

\* What the pages show after a save, whether or not it reached the disk.
SavedPages(doc) ==
    /\ PagesTyped
    /\ active' # "" \/ fresh' => doc # None
    /\ fresh' => Shows(form', custom', doc, active', edits')
    /\ advanced'.filled /\ doc.canonical => PageShows(advanced', doc)

LEMMA PopulatedPages ==
  ASSUME NEW doc \in Documents, Parses(doc), Populate(doc)
  PROVE  SavedPages(doc)
<1>1. doc # None
  BY NoneAssumption
<1> QED BY <1>1, PopulateOutcome DEF SavedPages

LEMMA SavedShowsPages ==
  ASSUME NEW doc \in Documents, Parses(doc), NEW cmd \in GuiOps \cup {Start},
         cmd.kind # "initialize", TypeOK, Saved(cmd, doc),
         advanced.filled /\ cmd.kind # "reload" /\ doc.canonical => PageShows(advanced, doc),
         SaidToShow(cmd, doc)
  PROVE  SavedPages(doc)
<1>1. doc # None
  BY NoneAssumption
<1>2. cmd.kind # "reload" => cmd \in GuiOps /\ GuiOpTyped(cmd)
  BY GuiOpParts DEF Start
<1>3. cmd.kind \in {"reload", "apply", "import", "save", "delete", "language", "remember"}
  BY <1>2 DEF GuiOpTyped, GuiKinds
<1>4. /\ form \in [Fields -> Texts \ {Missing}] /\ edits \in [Fields -> Texts]
      /\ custom \in BOOLEAN /\ fresh \in BOOLEAN /\ advanced \in Pages
      /\ active \in Names \cup {""}
  BY DEF TypeOK
<1>5. CASE cmd.kind \in {"reload", "apply"}
  BY <1>5, PopulatedPages DEF Saved
<1>6. CASE cmd.kind = "import"
  <2>1. Fill(doc, cmd.name) /\ UNCHANGED advanced /\ cmd.name \in PresetNames(doc)
    BY <1>6 DEF Saved, SaidToShow
  <2>2. /\ form' \in [Fields -> Texts \ {Missing}] /\ edits' \in [Fields -> Texts]
        /\ custom' \in BOOLEAN /\ fresh' = TRUE
        /\ active' \in Names \cup {""}
        /\ Shows(form', custom', doc, active', edits')
    BY <2>1, FillOutcome
  <2> QED BY <1>1, <1>4, <1>6, <2>1, <2>2 DEF SavedPages, PagesTyped
<1>7. CASE cmd.kind = "save"
  <2>1. /\ active' = cmd.name /\ edits' = NoSettings /\ fresh' = TRUE
        /\ UNCHANGED <<form, custom, advanced>>
        /\ Shows(form, custom, doc, cmd.name, NoSettings)
    BY <1>7 DEF Saved, FormShows, SaidToShow
  <2>2. NoSettings \in [Fields -> Texts] /\ cmd.name \in Names
    BY <1>2, <1>7, TextsAssumption DEF NoSettings, GuiOpTyped
  <2> QED BY <1>1, <1>4, <1>7, <2>1, <2>2 DEF SavedPages, PagesTyped
<1>8. CASE cmd.kind = "delete"
  <2>1. /\ active' = IF active = cmd.name THEN "" ELSE active
        /\ fresh' = (fresh /\ active # cmd.name)
        /\ UNCHANGED <<form, custom, edits, advanced>>
        /\ fresh /\ active # cmd.name => Shows(form, custom, doc, active, edits)
    BY <1>8 DEF Saved, FormShows, SaidToShow
  <2>2. fresh' \in BOOLEAN
    BY <2>1, Zenon
  <2>3. fresh' => Shows(form', custom', doc, active', edits')
    BY <2>1
  <2> QED BY <1>1, <1>4, <1>8, <2>1, <2>2, <2>3 DEF SavedPages, PagesTyped
<1>9. CASE cmd.kind \in {"language", "remember"}
  <2>1. /\ UNCHANGED <<form, custom, active, edits, fresh, advanced>>
        /\ fresh => Shows(form, custom, doc, active, edits)
    BY <1>9 DEF Saved, FormShows, SaidToShow
  <2> QED BY <1>1, <1>4, <1>9, <2>1 DEF SavedPages, PagesTyped
<1> QED BY <1>3, <1>5, <1>6, <1>7, <1>8, <1>9

LEMMA SaveWindowKeeps ==
  ASSUME IInv, SaveWindow
  PROVE  IInv'
<1> DEFINE doc == Mem(Gui)
           cmd == Op(Gui)
<1>1. /\ TypeOK /\ WindowStages /\ DocumentKept(Gui) /\ FormTrue /\ PageTrue /\ FilesLoad
      /\ Gui \in Actors
  BY DEF IInv, Actors
<1>2. At(Gui, "saving") /\ End(Gui) /\ UNCHANGED steps
  BY DEF SaveWindow
<1>3. /\ doc # None /\ cmd \in GuiOps \cup {Start} /\ proc[Gui].path \in Paths
      /\ cmd.kind # "initialize" /\ ~cmd.created
      /\ Parses(doc) /\ proc[Gui].home \in Paths /\ fs[proc[Gui].home] # None
  BY <1>1, <1>2 DEF WindowStages, DocumentKept, At, Resting
<1>4. doc \in Documents
  BY <1>1, <1>3, ProcessParts DEF Mem
<1>5. cmd.kind # "reload" => ~ToBeShown
  BY <1>3 DEF ToBeShown
<1>6. advanced.filled /\ cmd.kind # "reload" /\ doc.canonical => PageShows(advanced, doc)
  BY <1>1, <1>5 DEF PageTrue
<1>7. SaidToShow(cmd, doc)
  BY <1>1, <1>2 DEF FormTrue, SaidToShow
<1>8. /\ proc' \in [Actors -> Processes] /\ \A b \in Clis : proc'[b] = proc[b]
      /\ proc'[Gui].pc = "idle" /\ proc'[Gui].mem = doc
      /\ proc'[Gui].home = proc[Gui].home /\ proc'[Gui].path = proc[Gui].path
  BY <1>1, <1>2, EndWindow
<1>9. WindowStages' /\ ~At(Gui, "reading")' /\ ~At(Gui, "placing")'
  BY <1>3, <1>8, IdleWindow
<1> HIDE DEF doc, cmd
<1>10. ASSUME SavedPages(doc), fs'[proc[Gui].home] # None,
              ~unsaved' => doc = fs'[proc[Gui].home]
       PROVE  DocumentKept(Gui)' /\ WindowExact' /\ FormTrue' /\ PageTrue' /\ PagesTyped
  <2>1. DocumentKept(Gui)'
    BY <1>3, <1>8, <1>9, <1>10 DEF DocumentKept, Mem
  <2>2. WindowExact'
    BY <1>8, <1>10 DEF WindowExact, At, Mem
  <2>3. FormTrue'
    BY <1>8, <1>10 DEF FormTrue, FormShows, SavedPages, At, Mem
  <2>4. PageTrue'
    BY <1>3, <1>8, <1>10 DEF PageTrue, SavedPages, Mem
  <2> QED BY <1>10, <2>1, <2>2, <2>3, <2>4 DEF SavedPages
<1>11. CASE Replace(Gui) /\ Saved(cmd, doc) /\ unsaved' = FALSE
  <2>1. SavedPages(doc)
    BY <1>1, <1>3, <1>4, <1>6, <1>7, <1>11, SavedShowsPages
  <2>2. /\ fs' \in [Paths -> Documents \cup {None}] /\ stale' \subseteq Actors \X Paths
        /\ FilesLoad' /\ (\A b \in Actors \ {Gui} : Untouched(b))
        /\ fs'[proc[Gui].home] = doc
    BY <1>1, <1>3, <1>11, Replaced DEF doc
  <2>3. DocumentKept(Gui)' /\ WindowExact' /\ FormTrue' /\ PageTrue' /\ PagesTyped
    BY <1>3, <1>10, <2>1, <2>2
  <2>4. TypeOK'
    BY <1>1, <1>2, <1>8, <1>11, <2>2, <2>3 DEF TypeOK, PagesTyped
  <2>5. \A b \in Clis : proc'[b] = proc[b] /\ Untouched(b)
    BY <1>8, <2>2, ConfigAssumption DEF Actors
  <2> QED BY <1>9, <2>2, <2>3, <2>4, <2>5, WindowStepKeeps
<1>12. CASE /\ IF cmd.kind = "reload" THEN Populate(doc)
               ELSE fresh' = FALSE /\ UNCHANGED <<form, custom, active, edits, advanced>>
            /\ unsaved' = TRUE
            /\ UNCHANGED <<fs, stale>>
  <2>1. SavedPages(doc)
    <3>1. CASE cmd.kind = "reload"
      BY <1>3, <1>4, <1>12, <3>1, PopulatedPages
    <3>2. CASE cmd.kind # "reload"
      <4>1. fresh' = FALSE /\ UNCHANGED <<form, custom, active, edits, advanced>>
        BY <1>12, <3>2
      <4>2. PagesTyped
        BY <1>1, <4>1 DEF TypeOK, PagesTyped
      <4> QED BY <1>3, <1>6, <3>2, <4>1, <4>2 DEF SavedPages
    <3> QED BY <3>1, <3>2
  <2>2. DocumentKept(Gui)' /\ WindowExact' /\ FormTrue' /\ PageTrue' /\ PagesTyped
    BY <1>3, <1>10, <1>12, <2>1
  <2> QED BY <1>1, <1>2, <1>8, <1>9, <1>12, <2>2, WindowReads DEF TypeOK, PagesTyped
<1> QED BY <1>11, <1>12 DEF SaveWindow, doc, cmd

-----------------------------------------------------------------------------
(* The theorems *)

LEMMA InitIInv ==
  ASSUME Init
  PROVE  IInv
<1> DEFINE label(a) == IF a = Gui THEN "starting" ELSE "idle"
<1>1. /\ fs \in [Paths -> Documents \cup {None}] /\ fs \in Starts
      /\ proc = [a \in Actors |-> Blank(label(a))]
      /\ stale = {}
      /\ form = BlankForm /\ custom = FALSE /\ active = "" /\ edits = NoSettings /\ fresh = FALSE
      /\ advanced = BlankAdvanced /\ unsaved = FALSE
      /\ steps = 0
  BY StartsAssumption DEF Init
<1>2. \A a : label(a) \in Stages /\ (a = Gui => label(a) = "starting")
             /\ (a # Gui => label(a) = "idle")
  BY DEF Stages
<1> HIDE DEF label
<1>3. \A a \in Actors : /\ proc[a] \in Processes /\ proc[a].pc = label(a)
                        /\ proc[a].mem = None
  BY <1>1, <1>2 DEF Blank, Processes
<1>4. BlankForm \in [Fields -> Texts \ {Missing, "bad"}]
  <2>1. {"[]", "hybrid", "", "TorrentCraft"} \subseteq Texts \ {Missing, "bad"}
    BY TextsAssumption DEF Missing
  <2> QED BY <2>1, RecordOfFields, Zenon DEF BlankForm
<1>5. form \in [Fields -> Texts \ {Missing}]
  BY <1>1, <1>4
<1>6. advanced \in Pages /\ ~advanced.filled
  BY <1>1, <1>4, TextsAssumption DEF BlankAdvanced, Pages, Missing
<1>7. edits \in [Fields -> Texts]
  BY <1>1, TextsAssumption DEF NoSettings
<1>8. TypeOK
  <2>1. proc \in [Actors -> Processes]
    BY <1>1, <1>3
  <2>2. custom \in BOOLEAN /\ fresh \in BOOLEAN /\ unsaved \in BOOLEAN
    BY <1>1
  <2> QED BY <1>1, <1>5, <1>6, <1>7, <2>1, <2>2 DEF TypeOK
<1>9. FilesLoad
  BY <1>1 DEF FilesLoad
<1>10. Gui \in Actors /\ \A c \in Clis : c \in Actors /\ c # Gui
  BY ConfigAssumption DEF Actors
<1>11. \A a \in Actors : DocumentKept(a)
  BY <1>2, <1>3 DEF DocumentKept, At, Mem
<1>12. \A c \in Clis : CommandStages(c) /\ CommandExact(c)
  BY <1>2, <1>3, <1>10 DEF CommandStages, CommandExact, At, Mem, Resting
<1>13. WindowStages /\ WindowExact /\ FormTrue /\ PageTrue
  BY <1>1, <1>2, <1>3, <1>6, <1>10
     DEF WindowStages, WindowExact, FormTrue, PageTrue, At, Mem, Resting
<1> QED BY <1>8, <1>9, <1>11, <1>12, <1>13 DEF IInv

LEMMA NextIInv ==
  ASSUME IInv, [Next]_vars
  PROVE  IInv'
<1>1. ASSUME NEW a \in Actors, Step(a)
      PROVE  IInv'
  BY <1>1, SizeKeeps, ReadKeeps, CreateKeeps, PlaceKeeps DEF Step
<1>2. ASSUME NEW c \in Clis, CommandStep(c)
      PROVE  IInv'
  BY <1>2, StartCommandKeeps, EditCommandKeeps, MakeBackupKeeps, SaveCommandKeeps, StopKeeps
     DEF CommandStep
<1>3. ASSUME WindowStep
      PROVE  IInv'
  BY <1>3, StartUpKeeps, UserCommandKeeps, ShowInitializedKeeps, EditWindowKeeps, SaveWindowKeeps,
     LoadPresetKeeps, TypeFieldKeeps, ToggleCreatorKeeps, ClearFormKeeps, ResetAdvancedKeeps
     DEF WindowStep
<1>4. CASE UNCHANGED vars
  <2>1. UNCHANGED <<fs, proc, stale, window, steps>>
    BY <1>4 DEF vars
  <2>2. \A b \in Clis : proc'[b] = proc[b] /\ Untouched(b)
    BY <2>1, QuietStep
  <2>3. Untouched(Gui)
    BY <2>1, QuietStep
  <2>4. TypeOK' /\ FilesLoad'
    BY <2>1 DEF IInv, TypeOK, FilesLoad, window
  <2>5. DocumentKept(Gui)' /\ WindowStages' /\ WindowExact' /\ FormTrue' /\ PageTrue'
    BY <2>1, <2>3, WindowBystander
  <2> QED BY <2>2, <2>4, <2>5, WindowStepKeeps
<1> QED BY <1>1, <1>2, <1>3, <1>4 DEF Next

\* The files, the documents loaded from them and the pages filled from those belong together,
\* whatever processes and the window do: a document in memory loads and its file is there, a
\* command line and the window hold what is on disk unless it was replaced behind their back,
\* and the form and the Advanced page show the document they were filled from.
THEOREM SpecIInv == Spec => []IInv
<1>1. Init => IInv
  BY InitIInv
<1>2. IInv /\ [Next]_vars => IInv'
  BY NextIInv
<1> QED BY <1>1, <1>2, PTL DEF Spec

\* The types hold, and a configuration on disk that could be loaded can be loaded still:
\* no edit of any actor saves a document that does not parse.
THEOREM SpecFilesLoad == Spec => [](TypeOK /\ FilesLoad)
<1>1. IInv => TypeOK /\ FilesLoad
  BY DEF IInv
<1> QED BY <1>1, SpecIInv, PTL

\* What a create takes on the command line, given options.
LEMMA CommandTakes ==
  ASSUME NEW doc \in Documents, NEW preset \in PresetNames(doc) \cup {""}, NEW typed
  PROVE  ResolveCreateSettings(doc, preset, NoSettings, typed)
           = ResolveSettings(OverlaySettings(WithPreset(doc, Chosen(doc, preset)), typed))
<1> DEFINE named == WithPreset(doc, Chosen(doc, preset))
<1>1. named = (IF preset # "" THEN WithPreset(doc, preset)
               ELSE IF NoSettings # NoSettings THEN Defaults(doc)
               ELSE WithPreset(doc, DefaultPreset(doc)))
  BY DEF Chosen
<1>2. named \in Settings_
  BY DocumentSettings
<1>3. ResolveCreateSettings(doc, preset, NoSettings, typed)
        = ResolveSettings(OverlaySettings(OverlaySettings(named, NoSettings), typed))
  BY <1>1, Zenon DEF ResolveCreateSettings
<1> QED BY <1>2, <1>3, OverlayNothing

LEMMA PagesAgree ==
  ASSUME NEW doc \in Documents, form \in [Fields -> Texts \ {Missing}], edits \in Settings_,
         Shows(form, custom, doc, active, edits), proc[Gui].mem = doc
  PROVE  LET cli == ResolveCreateSettings(doc, active, NoSettings, edits)
             skipped == ~custom /\ active # "" /\ Preset(doc, active).created_by # Missing
         IN /\ cli # None
            /\ \A f \in Fields : CreateFromForm[f] = cli[f] \/ (f = "created_by" /\ skipped)
            /\ active = DefaultPreset(doc) =>
                 ResolveCreateSettings(doc, "", NoSettings, edits) = cli
<1> DEFINE w == WithPreset(doc, active)
           shown == ResolveSettings(OverlaySettings(w, edits))
           skipped == ~custom /\ active # "" /\ Preset(doc, active).created_by # Missing
<1>1. /\ active \in PresetNames(doc) \/ (active = "" /\ DefaultPreset(doc) \notin PresetNames(doc))
      /\ \A f \in Fields \ {"created_by"} : form[f] = shown[f]
      /\ IF custom THEN form["created_by"] = shown["created_by"] ELSE edits["created_by"] = Missing
  BY DEF Shows
<1>2. /\ w \in Settings_ /\ Defaults(doc) \in Settings_ /\ "" \notin PresetNames(doc)
      /\ "created_by" \in Fields /\ doc # None
  BY DocumentSettings, NoneAssumption DEF Fields
<1>3. WithPreset(doc, Chosen(doc, active)) = w
  BY <1>1, <1>2 DEF WithPreset, Chosen
<1>4. ResolveCreateSettings(doc, active, NoSettings, edits) = shown
  <2>1. active \in PresetNames(doc) \cup {""}
    BY <1>1
  <2>2. ResolveCreateSettings(doc, active, NoSettings, edits)
          = ResolveSettings(OverlaySettings(WithPreset(doc, Chosen(doc, active)), edits))
    BY <2>1, CommandTakes
  <2> QED BY <1>3, <2>2
<1>5. shown \in [Fields -> Texts \ {Missing}]
  BY <1>2, OverlayTyped, ResolvedTyped
<1>6. shown # None
  <2>1. shown \in Settings_
    BY <1>5 DEF Settings_
  <2> QED BY <2>1, NoneAssumption DEF Settings_
<1>7. active = DefaultPreset(doc) => ResolveCreateSettings(doc, "", NoSettings, edits) = shown
  <2>1. ResolveCreateSettings(doc, "", NoSettings, edits)
          = ResolveSettings(OverlaySettings(WithPreset(doc, DefaultPreset(doc)), edits))
    BY CommandTakes DEF Chosen
  <2> QED BY <2>1
<1>8. /\ \A f \in Fields \ {"created_by"} : CreateFromForm[f] = form[f]
      /\ CreateFromForm["created_by"] =
           IF custom THEN form["created_by"] ELSE First(Defaults(doc)["created_by"], "TorrentCraft")
  BY <1>2 DEF CreateFromForm
<1>9. CreateFromForm["created_by"] = shown["created_by"] \/ skipped
  <2>1. CASE custom
    BY <1>1, <1>8, <2>1
  <2>2. CASE ~custom
    <3>1. shown["created_by"] =
            First(First(edits["created_by"], w["created_by"]), Fallback["created_by"])
      <4>1. \A f \in Fields : ResolveSettings(OverlaySettings(WithPreset(doc, active), edits))[f]
                 = First(First(edits[f], WithPreset(doc, active)[f]), Fallback[f])
        <5> HIDE DEF skipped, shown, w
        <5> QED BY ShownFields
      <4> QED BY <1>2, <4>1
    <3>2. Fallback["created_by"] = "TorrentCraft"
      BY DEF Fallback
    <3>3. w["created_by"] = IF active \in PresetNames(doc)
                            THEN First(Preset(doc, active)["created_by"],
                                       Defaults(doc)["created_by"])
                            ELSE Defaults(doc)["created_by"]
      <4>1. \A f \in Fields : WithPreset(doc, active)[f] =
               IF active \in PresetNames(doc) THEN First(Preset(doc, active)[f], Defaults(doc)[f])
                                              ELSE Defaults(doc)[f]
        <5> HIDE DEF skipped, shown, w
        <5> QED BY DocumentSettings
      <4> HIDE DEF skipped, shown
      <4> QED BY <1>2, <4>1
    <3>4. active \in PresetNames(doc) /\ ~skipped => Preset(doc, active)["created_by"] = Missing
      BY <1>2, <2>2
    <3> HIDE DEF shown, w, skipped
    <3> QED BY <1>1, <1>8, <2>2, <3>1, <3>2, <3>3, <3>4 DEF First, Missing
  <2> QED BY <2>1, <2>2
<1> HIDE DEF shown, skipped
<1>10. \A f \in Fields : CreateFromForm[f] = shown[f] \/ (f = "created_by" /\ skipped)
  BY <1>1, <1>8, <1>9
<1> QED BY <1>4, <1>6, <1>7, <1>10 DEF skipped

\* A create from the window's form takes what a create on the command line takes with the
\* active preset and what was typed as options, whenever the form was filled from the
\* configuration on disk: apply_creation_settings and resolve_create_settings agree.
THEOREM SpecFrontendsAgree == Spec => []FrontendsAgree
<1>1. IInv => FrontendsAgree
  <2> SUFFICES ASSUME IInv, At(Gui, "idle"), Mem(Gui) # None, fresh, ~Stale(Gui), ~unsaved
               PROVE  LET doc == fs[proc[Gui].home]
                          cli == ResolveCreateSettings(doc, active, NoSettings, edits)
                          skipped == /\ ~custom /\ active # ""
                                     /\ Preset(doc, active).created_by # Missing
                      IN /\ cli # None
                         /\ \A f \in Fields :
                              CreateFromForm[f] = cli[f] \/ (f = "created_by" /\ skipped)
                         /\ active = DefaultPreset(doc) =>
                              ResolveCreateSettings(doc, "", NoSettings, edits) = cli
    BY DEF FrontendsAgree, Stale
  <2>1. TypeOK /\ FormTrue /\ WindowExact /\ Gui \in Actors
    BY DEF IInv, Actors
  <2>2. ~ToBeShown
    BY DEF ToBeShown, At
  <2>3. proc[Gui].mem = fs[proc[Gui].home] /\ Shows(form, custom, proc[Gui].mem, active, edits)
    BY <2>1, <2>2 DEF FormTrue, WindowExact, FormShows, At, Mem
  <2>4. fs[proc[Gui].home] \in Documents
    BY <2>1, <2>3, ProcessParts DEF Mem
  <2>5. form \in [Fields -> Texts \ {Missing}] /\ edits \in Settings_
    BY <2>1 DEF TypeOK, Settings_
  <2> QED BY <2>3, <2>4, <2>5, PagesAgree
<1> QED BY <1>1, SpecIInv, PTL

\* What replaces a file is the document of the actor that saves.
LEMMA SavesItsDocument ==
  ASSUME IInv, Next, NEW a \in Actors, At(a, "saving"), proc'[a].pc # "saving", fs' # fs
  PROVE  fs'[proc[a].home] = Mem(a)
<1>1. TypeOK /\ proc[a].pc = "saving" /\ proc'[a] # proc[a]
  BY DEF IInv, At
<1>2. a = Gui => Mem(a) # None
  BY <1>1 DEF IInv, WindowStages
<1>3. a \in Clis => Mem(a) # None
  BY <1>1 DEF IInv, CommandStages
<1>4. Mem(a) # None
  BY <1>2, <1>3 DEF Actors
<1>5. ASSUME NEW b \in Actors, Step(b)
      PROVE  FALSE
  <2>1. b # a
    BY <1>1, <1>5 DEF Step, Size, Read, Create, Place, At
  <2>2. proc'[a] = proc[a]
    BY <1>1, <1>5, <2>1 DEF Step, Size, Read, Create, Place, Goto, End, TypeOK
  <2> QED BY <1>1, <2>2
<1>6. ASSUME NEW c \in Clis, CommandStep(c)
      PROVE  fs'[proc[a].home] = Mem(a)
  <2>1. SaveCommand(c)
    BY <1>6 DEF CommandStep, StartCommand, EditCommand, MakeBackup, Stop
  <2>2. c = a
    BY <1>1, <2>1 DEF SaveCommand, End, TypeOK
  <2> QED BY <1>4, <2>1, <2>2, Replaced DEF SaveCommand
<1>7. ASSUME WindowStep
      PROVE  fs'[proc[a].home] = Mem(a)
  <2>1. SaveWindow
    BY <1>7 DEF WindowStep, StartUp, UserCommand, ShowInitialized, EditWindow, LoadPreset,
                TypeField, ToggleCreator, ClearForm, ResetAdvanced
  <2>2. a = Gui
    BY <1>1, <2>1 DEF SaveWindow, End, TypeOK
  <2>3. Replace(Gui)
    BY <2>1 DEF SaveWindow
  <2> QED BY <1>4, <2>2, <2>3, Replaced
<1> QED BY <1>5, <1>6, <1>7 DEF Next

\* A write changes what its operation was asked to change, in every preset, and nothing else;
\* a new configuration replaces none.  Lost updates are what the history variables except:
\* ConfigFile::save replaces the whole file.
THEOREM SpecWritesWhatWasAsked == Spec => WritesWhatWasAsked
<1>1. ASSUME IInv, [Next]_vars
      PROVE  [WriteAsked]_vars
  <2> SUFFICES ASSUME Next
               PROVE  WriteAsked
    BY <1>1
  <2>1. ASSUME NEW a \in Actors, At(a, "placing"), <<a, proc[a].path>> \notin stale
        PROVE  fs[proc[a].path] = None \/ (a # Gui /\ Op(a).force)
    BY <1>1, <2>1 DEF IInv, DocumentKept, OnDisk
  <2>2. ASSUME NEW a \in Actors, At(a, "saving"), proc'[a].pc # "saving", fs' # fs,
               <<a, proc[a].home>> \notin stale,
               ~(a = Gui /\ (unsaved \/ (Op(a).kind = "apply" /\ ~advanced.filled)))
        PROVE  KeepsRest(fs[proc[a].home], fs'[proc[a].home], Op(a), advanced)
    <3>1. fs'[proc[a].home] = Mem(a)
      BY <1>1, <2>2, SavesItsDocument
    <3>2. ~Stale(a)
      BY <2>2 DEF Stale
    <3>3. CASE a \in Clis
      <4>1. KeepsRest(fs[proc[a].home], Mem(a), Op(a), advanced)
        BY <1>1, <2>2, <3>2, <3>3 DEF IInv, CommandExact, At
      <4> QED BY <3>1, <4>1
    <3>4. CASE a = Gui
      <4>1. WindowExact /\ Mem(Gui) # None
        BY <1>1, <2>2, <3>4 DEF IInv, WindowStages, At
      <4>2. KeepsRest(fs[proc[Gui].home], Mem(Gui), Op(Gui), advanced)
        BY <2>2, <3>2, <3>4, <4>1 DEF WindowExact
      <4> QED BY <3>1, <3>4, <4>2
    <3> QED BY <3>3, <3>4 DEF Actors
  <2> QED BY <2>1, <2>2 DEF WriteAsked
<1>2. IInv /\ [Next]_vars => [WriteAsked]_vars
  BY <1>1
<1> QED BY <1>2, SpecIInv, PTL DEF Spec, WritesWhatWasAsked
=============================================================================
