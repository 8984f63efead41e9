----------------------------- MODULE MetadataEngine -----------------------------
(***************************************************************************)
(* The torrent file as a document: reading it, patching it and writing it  *)
(* back (src/metadata_engine.cpp, TorrentService::edit in                  *)
(* src/application.cpp).                                                   *)
(*                                                                         *)
(* A torrent is a record of what its dictionaries hold, None for a key     *)
(* that is missing.  The piece and file keys, which no edit touches, are   *)
(* left out, and so are the keys of collections and DHT nodes: they are    *)
(* read and patched like the web seeds.  BadText is any byte string that   *)
(* is no UTF-8, Garbage any file that is no torrent.                       *)
(***************************************************************************)
EXTENDS TrackerEngine

CONSTANTS None, BadText, Garbage,
          Texts,        \* the texts that are UTF-8
          Dates,
          Strings,      \* what may stand in the file where a URL should
          SeedUrls      \* the strings that parse as web seed URLs

Modes == {"strict", "lenient"}

\* source is the one of the top level; unknown says that an unknown key is present.
Keys == Texts \cup {None, BadText}
StringLists == Seq(Strings) \cup {None}
Torrents ==
    [announce : Strings \cup {None}, announce_list : Seq(Seq(Strings)) \cup {None},
     comment : Keys, creator : Keys, date : Dates \cup {None},
     url_list : StringLists, httpseeds : StringLists, source : Keys, unknown : BOOLEAN,
     info : [name : Keys, private : Int \cup {None}, source : Keys, sorted : BOOLEAN]]
Files == Torrents \cup {None, Garbage}

\* What is read from them.
OptionalTexts == Texts \cup {None}
Infos == [name : OptionalTexts, private : BOOLEAN]
Metadata == [comment : OptionalTexts, creator : OptionalTexts, source : OptionalTexts, date : Dates \cup {None},
             web_seeds : Seq(SeedUrls)]
Documents == [info : Infos, metadata : Metadata, trackers : Lists, retained : Torrents, mode : Modes]

\* What one edit may ask for.
Actions ==
    [kind : {"comment", "creator"}, value : OptionalTexts] \cup
    [kind : {"date"}, value : Dates \cup {None}] \cup
    [kind : {"web_seeds"}, value : Seq(SeedUrls)] \cup
    [kind : {"name", "source"}, value : Keys] \cup
    [kind : {"private"}, value : {0, 1}] \cup
    [kind : {"trackers"}, value : Lists] \cup
    [kind : {"add_to_tier"}, value : Int \X Trackers] \cup
    [kind : {"add_tier"}, value : Tiers] \cup
    [kind : {"remove", "move_tier"}, value : Int \X Int] \cup
    [kind : {"move", "move_within"}, value : Int \X Int \X Int]

ASSUME MetadataAssumption ==
    /\ Trackers \cup SeedUrls \subseteq Strings /\ None \notin Trackers
    /\ None # BadText /\ {None, BadText} \cap Texts = {}
    /\ None \notin Seq(Strings) \cup Seq(Seq(Strings))
    /\ {None, Garbage, Refused} \cap Torrents = {} /\ Refused \notin Documents

-----------------------------------------------------------------------------
(* Reading *)

\* Text that is no UTF-8 is kept in the file and not shown.
read_optional_text(value) == IF value = BadText THEN None ELSE value

Listed(value) == IF value = None THEN <<>> ELSE value

\* announce counts only when announce-list names no valid tracker.
read_trackers(torrent) ==
    LET tiers == Listed(torrent.announce_list)
        listed == MakeList([t \in DOMAIN tiers |->
                              Pick(tiers[t], {i \in DOMAIN tiers[t] : Valid(tiers[t][i])})])
    IN IF listed # <<>> THEN listed
       ELSE IF Valid(torrent.announce) THEN << <<torrent.announce>> >> ELSE <<>>

\* The two keys of web seeds are read as one list.
read_web_seed_field(torrent) ==
    LET urls == Listed(torrent.url_list) \o Listed(torrent.httpseeds)
    IN Pick(urls, {i \in DOMAIN urls : urls[i] \in SeedUrls})

\* source of the info dictionary, valid or not, hides the one of the top level.
read_source(torrent) ==
    read_optional_text(IF torrent.info.source # None THEN torrent.info.source ELSE torrent.source)

read_metadata(torrent) ==
    [comment |-> read_optional_text(torrent.comment),
     creator |-> read_optional_text(torrent.creator),
     source |-> read_source(torrent),
     date |-> torrent.date,
     web_seeds |-> read_web_seed_field(torrent)]

read_info(torrent) ==
    [name |-> read_optional_text(torrent.info.name), private |-> torrent.info.private = 1]

\* What a strict read refuses: unknown keys, bad text, bad URLs among those it looks at.
ReadsStrictly(torrent) ==
    LET lists == Listed(torrent.announce_list)
        seeds == Listed(torrent.url_list) \o Listed(torrent.httpseeds)
        source == IF torrent.info.source # None THEN torrent.info.source ELSE torrent.source
    IN /\ ~torrent.unknown
       /\ BadText \notin {torrent.comment, torrent.creator, source, torrent.info.name}
       /\ \A t \in DOMAIN lists : \A i \in DOMAIN lists[t] : Valid(lists[t][i])
       /\ (\A t \in DOMAIN lists : lists[t] = <<>>) =>
            torrent.announce = None \/ Valid(torrent.announce)
       /\ \A i \in DOMAIN seeds : seeds[i] \in SeedUrls

Loads(torrent, mode) ==
    /\ torrent \notin {None, Garbage}
    /\ torrent.info.private \in {None, 0, 1} /\ torrent.info.name \notin {None, ""}
    /\ mode = "strict" => ReadsStrictly(torrent)

\* A document keeps the torrent it was read from.
decode_torrent(torrent, mode) ==
    [info |-> read_info(torrent), metadata |-> read_metadata(torrent),
     trackers |-> read_trackers(torrent), retained |-> torrent, mode |-> mode]

-----------------------------------------------------------------------------
(* Patching the info dictionary *)

\* A key goes or gets a value; private is inserted even to say no.
splice_info_identity(torrent, patch) ==
    LET old == torrent.info[patch.field]
    IN IF ~torrent.info.sorted THEN Refused
       ELSE IF patch.field = "private" /\ patch.value = old THEN torrent
       ELSE IF patch.value = BadText THEN Refused
       ELSE IF patch.field = "name" /\ patch.value \in {None, ""} THEN Refused
       ELSE [torrent EXCEPT !.info[patch.field] = patch.value]

\* The patched torrent is read again, as strictly as the document was.
patch_info_identity(document, patch) ==
    LET torrent == splice_info_identity(document.retained, patch)
    IN IF torrent = Refused THEN Refused
       ELSE IF torrent = document.retained THEN document
       ELSE IF Loads(torrent, document.mode) THEN decode_torrent(torrent, document.mode)
       ELSE Refused

-----------------------------------------------------------------------------
(* Writing the top level *)

\* A document whose info or source is not its torrent's own cannot be written.
NeedsRebuild(document) ==
    \/ document.info # read_info(document.retained)
    \/ document.metadata.source # read_source(document.retained)

\* The keys of comment, creator and date, rewritten when these changed.
set_texts(torrent, metadata) ==
    [comment |-> IF metadata.comment = read_optional_text(torrent.comment) THEN torrent.comment
                 ELSE metadata.comment,
     creator |-> IF metadata.creator = read_optional_text(torrent.creator) THEN torrent.creator
                 ELSE metadata.creator,
     date |-> metadata.date]

\* Mutant: the httpseeds stay beside the new url-list.
set_web_seeds_KeepsHttpseeds(torrent, seeds) ==
    [url_list |-> IF seeds = read_web_seed_field(torrent) THEN torrent.url_list
                  ELSE IF seeds = <<>> THEN None ELSE seeds,
     httpseeds |-> torrent.httpseeds]

\* The keys of the web seeds: new seeds take the place of both.
set_web_seeds(torrent, seeds) ==
    IF seeds = read_web_seed_field(torrent)
    THEN [url_list |-> torrent.url_list, httpseeds |-> torrent.httpseeds]
    ELSE [url_list |-> IF seeds = <<>> THEN None ELSE seeds, httpseeds |-> None]

EncodedTrackers(list) ==
    IF list = <<>> THEN [announce |-> None, announce_list |-> None]
    ELSE [announce |-> list[1][1], announce_list |-> list]

\* Mutant: the trackers are written whether they changed or not.
set_trackers_Always(torrent, list) == EncodedTrackers(list)

\* The keys of the trackers: new ones take the place of both, bad URLs included.
set_trackers(torrent, list) ==
    IF list = read_trackers(torrent)
    THEN [announce |-> torrent.announce, announce_list |-> torrent.announce_list]
    ELSE EncodedTrackers(list)

\* The keys that say nothing new keep their bytes.
encode_patch(document) ==
    LET old == document.retained
        texts == set_texts(old, document.metadata)
        seeds == set_web_seeds(old, document.metadata.web_seeds)
        trackers == set_trackers(old, document.trackers)
    IN [old EXCEPT !.comment = texts.comment, !.creator = texts.creator, !.date = texts.date,
                   !.url_list = seeds.url_list, !.httpseeds = seeds.httpseeds,
                   !.announce = trackers.announce, !.announce_list = trackers.announce_list]

-----------------------------------------------------------------------------
(* Editing a loaded torrent *)

(* An action is [kind, value], value None where it clears; the actions on trackers have   *)
(* the arguments of their edit as value.                                                  *)

EditTrackers(list, action) ==
    LET arg == action.value
    IN CASE action.kind = "trackers"    -> arg
         [] action.kind = "add_to_tier" -> AddToTier(list, arg[1], arg[2])
         [] action.kind = "add_tier"    -> AddTier(list, arg)
         [] action.kind = "remove"      -> RemoveTracker(list, arg[1], arg[2])
         [] action.kind = "move"        -> MoveTracker(list, arg[1], arg[2], arg[3])
         [] action.kind = "move_within" -> MoveTrackerWithinTier(list, arg[1], arg[2], arg[3])
         [] action.kind = "move_tier"   -> MoveTier(list, arg[1], arg[2])

\* A wrong edit of the trackers leaves them as they are for the next one.
TakeAction(draft, action) ==
    IF action.kind \in {"comment", "creator", "date", "web_seeds"}
    THEN [draft EXCEPT !.metadata[action.kind] = action.value]
    ELSE IF action.kind \in {"name", "private", "source"}
    THEN [draft EXCEPT !.patches = Append(@, [field |-> action.kind, value |-> action.value])]
    ELSE LET list == EditTrackers(draft.trackers, action)
         IN IF list = Refused THEN [draft EXCEPT !.failed = TRUE]
                              ELSE [draft EXCEPT !.trackers = list]

\* The drafts after each action.
Drafts(document, actions) ==
    LET drafts[k \in 0 .. Len(actions)] ==
          IF k = 0 THEN [metadata |-> document.metadata, trackers |-> document.trackers,
                         patches |-> <<>>, failed |-> FALSE]
          ELSE TakeAction(drafts[k - 1], actions[k])
    IN drafts

\* The documents after each patch; the first that fails refuses the edit.
Identities(document, patches) ==
    LET documents[k \in 0 .. Len(patches)] ==
          IF k = 0 THEN document
          ELSE LET last == documents[k - 1]
               IN IF last = Refused THEN Refused ELSE patch_info_identity(last, patches[k])
    IN documents

\* After a patch of its key the source is read again; a cleared one may uncover the top level's.
SourceAfter(metadata, identity, patches) ==
    IF \E k \in DOMAIN patches : patches[k].field = "source" THEN identity.metadata.source
                                                    ELSE metadata.source

\* The metadata and trackers are edited in memory, the identity keys in the retained torrent.
edit(loaded, actions) ==
    LET document == loaded.document
        draft == Drafts(document, actions)[Len(actions)]
        identity == Identities(document, draft.patches)[Len(draft.patches)]
        candidate ==
            [identity EXCEPT
               !.metadata = [draft.metadata EXCEPT !.source = SourceAfter(draft.metadata, identity,
                                                                          draft.patches)],
               !.trackers = draft.trackers]
        Outcome(disposition, result) == [disposition |-> disposition, loaded |-> result]
    IN IF actions = <<>> THEN Outcome("NoChange", loaded)
       ELSE IF draft.failed \/ identity = Refused THEN Refused
       ELSE IF NeedsRebuild(candidate) THEN Outcome("NeedRebuild", loaded)
       ELSE IF encode_patch(candidate) = loaded.original THEN Outcome("NoChange", loaded)
       ELSE Outcome("Applied", [loaded EXCEPT !.document = candidate])
=================================================================================
