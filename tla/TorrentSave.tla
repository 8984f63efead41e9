------------------------------ MODULE TorrentSave ------------------------------
(***************************************************************************)
(* TorrentService::load and ::save over FileTorrentRepository              *)
(* (src/application.cpp): several programs or threads edit .torrent files  *)
(* in the same directory, while another program may change the files, the  *)
(* user may cancel, and any file operation may fail.                       *)
(*                                                                         *)
(* A file's content is one value.  The bytes a saver writes are named by   *)
(* the saver; encoding an unedited document gives back the bytes it was    *)
(* loaded from.  The bounded, cancellable reads and writes are two steps,  *)
(* start and end, so that a file can be found half-written.                *)
(***************************************************************************)
EXTENDS Naturals

CONSTANTS
    Savers,      \* calls of save, each with the snapshot it loaded and its token
    Paths,       \* where torrents may be
    Source,      \* the path all savers load from
    Requests,    \* [mode, destination, overwrite, backup]
    Stamps,      \* millisecond stamps of backup names
    Original,    \* the content of Source in the beginning
    Foreign,     \* what another program writes
    Absent, Symlink, Partial,  \* no file, a symbolic link, half-written bytes
    None,        \* not set
    MaxForeign   \* bound on the changes by other programs

Outcomes == {"Saved", "NoChange", "Cancelled", "UnsupportedFeature", "ValidationFailed",
             "Conflict", "IoFailure"}

ASSUME SaveAssumption ==
    /\ Source \in Paths /\ MaxForeign \in Nat
    /\ Requests \subseteq [mode : {"Original", "NewPath"}, destination : Paths,
                           overwrite : BOOLEAN, backup : BOOLEAN]
    /\ \A r \in Requests : r.mode = "Original" => r.destination = Source
    /\ Absent \notin {Original, Foreign} \cup Savers
    /\ Symlink \notin {Original, Foreign, Absent} \cup Savers
    /\ Partial \notin {Original, Foreign, Absent, Symlink} \cup Savers
    /\ None \notin {Original, Foreign, Absent, Symlink, Partial} \cup Savers
    /\ None \notin (Paths \X Stamps) \cup Outcomes

VARIABLES
    fs,          \* the file at each path
    backups,     \* the backup at each <<path, stamp>>
    temp,        \* each saver's temporary sibling
    pc,          \* where each saver is
    request,     \* its SaveRequest
    baseline,    \* original_bytes of its snapshot
    document,    \* the bytes its snapshot's document encodes to
    source,      \* the snapshot's source path
    followed,    \* the snapshot was loaded through a symbolic link
    targetExists,\* the local of that name in commit
    backup,      \* the backup path its CancellationBackup guards, if any
    cancelled,   \* the savers whose token is cancelled
    result,      \* what its last save returned
    stale,       \* savers whose target somebody changed since they looked (history)
    copied,      \* the bytes its copy, or the read of its source, has read
    kept,        \* the backup path its save used (history)
    replaced,    \* what its rename replaced (history)
    foreign      \* changes by other programs so far

files == <<fs, backups, temp>>
snapshot == <<baseline, document, source, followed>>
call == <<pc, request, targetExists, backup, copied, result>>
history == <<stale, kept, replaced>>
vars == <<files, snapshot, call, cancelled, history, foreign>>

NoRequest == [mode |-> "none"]
Bytes == {Original, Foreign} \cup Savers

Init ==
    /\ fs \in {f \in [Paths -> {Original, Absent, Symlink}] :
               f[Source] # Absent /\ \A p \in Paths \ {Source} : f[p] # Symlink}
    /\ backups = [b \in Paths \X Stamps |-> Absent]
    /\ temp = [s \in Savers |-> Absent]
    /\ pc = [s \in Savers |-> "idle"]
    /\ request = [s \in Savers |-> NoRequest]
    /\ baseline = [s \in Savers |-> Absent] /\ document = [s \in Savers |-> Absent]
    /\ source = [s \in Savers |-> Source] /\ followed = [s \in Savers |-> FALSE]
    /\ targetExists = [s \in Savers |-> FALSE]
    /\ backup = [s \in Savers |-> None]
    /\ cancelled = {}
    /\ result = [s \in Savers |-> None]
    /\ stale = {}
    /\ copied = [s \in Savers |-> None]
    /\ kept = [s \in Savers |-> None] /\ replaced = [s \in Savers |-> None]
    /\ foreign = 0

Target(s) == request[s].destination
SourceBound(s) == request[s].mode = "Original" \/ Target(s) = source[s]

\* The stages in which a backup is complete or not wanted, those in which its guard is
\* armed, those after the looks at the target, and those after the first of them.
Copied == {"opening", "writing", "committing", "replacing"}
Guarded == Copied \cup {"copying"}
Looked == Guarded \cup {"backup"}
Watching == Looked \cup {"reading", "matching"}

\* Savers that have looked at the file at p and not yet replaced it.
Looking(p) == {s \in Savers : pc[s] \in Watching /\ Target(s) = p}

Change(p, content, others) ==
    /\ fs' = [fs EXCEPT ![p] = content]
    /\ stale' = stale \cup (Looking(p) \cap others)

-----------------------------------------------------------------------------
(* The rest of the world *)

ForeignChange(p) ==
    /\ foreign < MaxForeign
    /\ foreign' = foreign + 1
    /\ \E content \in {Original, Foreign, Absent, Symlink} \ {fs[p]} : Change(p, content, Savers)
    /\ UNCHANGED <<backups, temp, snapshot, call, cancelled, kept, replaced>>

Cancel(s) ==
    /\ s \notin cancelled
    /\ cancelled' = cancelled \cup {s}
    /\ UNCHANGED <<files, snapshot, call, history, foreign>>

-----------------------------------------------------------------------------
(* load and save before commit *)

\* load follows a symbolic link, here to a file with the original bytes; the document
\* is then edited, or left as it is.
Load(s) ==
    /\ pc[s] = "idle"
    /\ s \notin cancelled
    /\ fs[Source] # Absent
    /\ LET bytes == IF fs[Source] = Symlink THEN Original ELSE fs[Source] IN
         /\ baseline' = [baseline EXCEPT ![s] = bytes]
         /\ \E encoded \in {s, bytes} : document' = [document EXCEPT ![s] = encoded]
    /\ followed' = [followed EXCEPT ![s] = fs[Source] = Symlink]
    /\ pc' = [pc EXCEPT ![s] = "edited"]
    /\ UNCHANGED <<files, source, request, targetExists, backup, copied, result, cancelled,
                   history, foreign>>

\* Mutant: no guard removes the backup of a cancelled save.
Return_KeepsBackup(s, outcome) ==
    /\ pc' = [pc EXCEPT ![s] = "returned"]
    /\ result' = [result EXCEPT ![s] = outcome]
    /\ temp' = [temp EXCEPT ![s] = Absent]
    /\ backup' = [backup EXCEPT ![s] = None]
    /\ copied' = [copied EXCEPT ![s] = None]
    /\ UNCHANGED <<fs, backups, snapshot, request, targetExists, cancelled, history, foreign>>

\* A failing save runs its destructors: the temporary file goes, and the backup goes
\* when the token is cancelled, whatever made the save fail.
Return(s, outcome) ==
    /\ pc' = [pc EXCEPT ![s] = "returned"]
    /\ result' = [result EXCEPT ![s] = outcome]
    /\ temp' = [temp EXCEPT ![s] = Absent]
    /\ backups' = IF backup[s] # None /\ s \in cancelled
                  THEN [backups EXCEPT ![backup[s]] = Absent] ELSE backups
    /\ backup' = [backup EXCEPT ![s] = None]
    /\ copied' = [copied EXCEPT ![s] = None]
    /\ UNCHANGED <<fs, snapshot, request, targetExists, cancelled, history, foreign>>

Advance(s, next) ==
    /\ pc' = [pc EXCEPT ![s] = next]
    /\ UNCHANGED <<files, snapshot, request, targetExists, backup, copied, result, cancelled,
                   history, foreign>>

Save(s) ==
    /\ pc[s] = "edited"
    /\ \E r \in Requests : request' = [request EXCEPT ![s] = r]
    /\ pc' = [pc EXCEPT ![s] = "checking"]
    /\ UNCHANGED <<files, snapshot, targetExists, backup, copied, result, cancelled, history,
                   foreign>>

\* The snapshot that a successful save returned is saved again where it came from.
Resave(s) ==
    /\ pc[s] = "returned" /\ result[s] = "Saved"
    /\ \E r \in Requests :
         /\ r.mode = "Original"
         /\ request' = [request EXCEPT ![s] = [r EXCEPT !.destination = source[s]]]
    /\ pc' = [pc EXCEPT ![s] = "checking"]
    /\ result' = [result EXCEPT ![s] = None]
    /\ UNCHANGED <<files, snapshot, targetExists, backup, copied, cancelled, history, foreign>>

\* TorrentService::save up to the call of commit.  A destination is compared as it is written,
\* before it is made absolute: one that names the source need not be recognised.
SaveChecks(s) ==
    /\ pc[s] = "checking"
    /\ \/ s \in cancelled /\ Return(s, "Cancelled")
       \/ /\ s \notin cancelled
          /\ request[s].mode = "Original" /\ followed[s]
          /\ Return(s, "ValidationFailed")
       \/ /\ s \notin cancelled
          /\ ~(request[s].mode = "Original" /\ followed[s])
          /\ \/ document[s] = baseline[s] /\ SourceBound(s) /\ Return(s, "NoChange")
             \/ /\ ~(document[s] = baseline[s] /\ request[s].mode = "Original")
                /\ Advance(s, "inspecting")
       \/ /\ s \notin cancelled
          /\ ~(request[s].mode = "Original" /\ followed[s])
          /\ Return(s, "UnsupportedFeature")   \* the document cannot be patched

-----------------------------------------------------------------------------
(* FileTorrentRepository::commit *)

\* Target status; a NewPath target must be absent or an ordinary file.
Inspect(s) ==
    /\ pc[s] = "inspecting"
    /\ LET found == fs[Target(s)]
           exists == request[s].mode = "Original" \/ found # Absent
       IN
       \/ s \in cancelled /\ Return(s, "Cancelled")
       \/ /\ s \notin cancelled
          /\ request[s].mode = "NewPath"
          /\ found = Symlink \/ (exists /\ ~request[s].overwrite)
          /\ Return(s, "Conflict")
       \/ /\ s \notin cancelled
          /\ request[s].mode = "NewPath" =>
               found # Symlink /\ (exists => request[s].overwrite)
          /\ targetExists' = [targetExists EXCEPT ![s] = exists]
          /\ pc' = [pc EXCEPT ![s] = IF SourceBound(s) THEN "comparing" ELSE "backup"]
          /\ UNCHANGED <<files, snapshot, request, backup, copied, result, cancelled, history,
                         foreign>>

\* symlink_status: the source must still be an ordinary file.
CheckSource(s) ==
    /\ pc[s] = "comparing"
    /\ IF fs[source[s]] \in Bytes THEN Advance(s, "reading") ELSE Return(s, "Conflict")

\* read_bounded_file opens the source by its name, and follows what is then a link.  A size
\* that is no longer the file's makes the read fail.
OpenSource(s) ==
    /\ pc[s] = "reading" /\ s \notin cancelled
    /\ fs[source[s]] # Absent
    /\ copied' = [copied EXCEPT ![s] = IF fs[source[s]] = Symlink THEN Original
                                      ELSE fs[source[s]]]
    /\ pc' = [pc EXCEPT ![s] = "matching"]
    /\ UNCHANGED <<files, snapshot, request, targetExists, backup, result, cancelled, history,
                   foreign>>

\* Mutant: the source's bytes are not compared.
Compare_Trusts(s) ==
    /\ pc[s] = "matching" /\ s \notin cancelled
    /\ copied' = [copied EXCEPT ![s] = None]
    /\ pc' = [pc EXCEPT ![s] = "backup"]
    /\ UNCHANGED <<files, snapshot, request, targetExists, backup, result, cancelled, history,
                   foreign>>

\* The bytes read must be the snapshot's.
Compare(s) ==
    /\ pc[s] = "matching" /\ s \notin cancelled
    /\ \/ copied[s] # baseline[s] /\ Return(s, "Conflict")
       \/ /\ copied[s] = baseline[s]
          /\ copied' = [copied EXCEPT ![s] = None]
          /\ pc' = [pc EXCEPT ![s] = "backup"]
          /\ UNCHANGED <<files, snapshot, request, targetExists, backup, result, cancelled,
                         history, foreign>>

\* The backup's name must be free; then its guard is armed and the copy begins.
StartBackup(s) ==
    /\ pc[s] = "backup"
    /\ \/ /\ ~(request[s].backup /\ targetExists[s])
          /\ Advance(s, "opening")
       \/ /\ request[s].backup /\ targetExists[s]
          /\ \E stamp \in Stamps :
               LET name == <<Target(s), stamp>> IN
               \/ backups[name] # Absent /\ Return(s, "Conflict")
               \/ /\ backups[name] = Absent
                  /\ backup' = [backup EXCEPT ![s] = name]
                  /\ kept' = [kept EXCEPT ![s] = name]
                  /\ pc' = [pc EXCEPT ![s] = "copying"]
                  /\ UNCHANGED <<files, snapshot, request, targetExists, copied, result,
                                 cancelled, stale, replaced, foreign>>

\* Mutant: a link is copied as a link.
OpenBackup_Link(s) ==
    /\ pc[s] = "copying" /\ s \notin cancelled
    /\ copied[s] = None /\ fs[Target(s)] # Absent
    /\ copied' = [copied EXCEPT ![s] = fs[Target(s)]]
    /\ backups' = [backups EXCEPT ![backup[s]] = Partial]
    /\ UNCHANGED <<fs, temp, snapshot, pc, request, targetExists, backup, result, cancelled,
                   history, foreign>>

\* copy_bounded_file opens the target, then creates the backup.
OpenBackup(s) ==
    /\ pc[s] = "copying" /\ s \notin cancelled
    /\ copied[s] = None /\ fs[Target(s)] # Absent
    /\ copied' = [copied EXCEPT ![s] = IF fs[Target(s)] = Symlink THEN Original
                                      ELSE fs[Target(s)]]
    /\ backups' = [backups EXCEPT ![backup[s]] = Partial]
    /\ UNCHANGED <<fs, temp, snapshot, pc, request, targetExists, backup, result, cancelled,
                   history, foreign>>

\* Mutant: an error of the copy is not noticed.
FinishBackup_ErrorIgnored(s) ==
    /\ pc[s] = "copying" /\ s \notin cancelled
    /\ copied[s] # None
    /\ copied' = [copied EXCEPT ![s] = None]
    /\ pc' = [pc EXCEPT ![s] = "opening"]
    /\ UNCHANGED <<files, snapshot, request, targetExists, backup, result, cancelled,
                   history, foreign>>

FinishBackup(s) ==
    /\ pc[s] = "copying" /\ s \notin cancelled
    /\ copied[s] # None
    /\ backups' = [backups EXCEPT ![backup[s]] = copied[s]]
    /\ copied' = [copied EXCEPT ![s] = None]
    /\ pc' = [pc EXCEPT ![s] = "opening"]
    /\ UNCHANGED <<fs, temp, snapshot, request, targetExists, backup, result, cancelled,
                   history, foreign>>

\* Mutant: the target itself is opened for writing.
OpenTemp_InPlace(s) ==
    /\ pc[s] = "opening" /\ s \notin cancelled
    /\ fs' = [fs EXCEPT ![Target(s)] = Partial]
    /\ temp' = [temp EXCEPT ![s] = Partial]
    /\ pc' = [pc EXCEPT ![s] = "writing"]
    /\ UNCHANGED <<backups, snapshot, request, targetExists, backup, copied, result,
                   cancelled, history, foreign>>

OpenTemp(s) ==
    /\ pc[s] = "opening" /\ s \notin cancelled
    /\ temp' = [temp EXCEPT ![s] = Partial]
    /\ pc' = [pc EXCEPT ![s] = "writing"]
    /\ UNCHANGED <<fs, backups, snapshot, request, targetExists, backup, copied, result,
                   cancelled, history, foreign>>

WriteTemp(s) ==
    /\ pc[s] = "writing" /\ s \notin cancelled
    /\ temp' = [temp EXCEPT ![s] = document[s]]
    /\ pc' = [pc EXCEPT ![s] = "committing"]
    /\ UNCHANGED <<fs, backups, snapshot, request, targetExists, backup, copied, result,
                   cancelled, history, foreign>>

\* The checks of the token between and inside the reads and writes, and the last one.
CancelledMidway(s) ==
    /\ pc[s] \in {"reading", "matching", "copying", "opening", "writing", "committing"}
    /\ s \in cancelled
    /\ Return(s, "Cancelled")

LastCheck(s) ==
    /\ pc[s] = "committing" /\ s \notin cancelled
    /\ Advance(s, "replacing")

\* Any file operation may fail on its own.
Fail(s) ==
    /\ pc[s] \in {"inspecting", "comparing", "reading", "matching", "backup", "copying",
                  "opening", "writing", "replacing"}
    /\ Return(s, "IoFailure")

\* Mutant: the snapshot keeps its old baseline.
Replace_OldBaseline(s) ==
    /\ pc[s] = "replacing"
    /\ Change(Target(s), temp[s], Savers \ {s})
    /\ replaced' = [replaced EXCEPT ![s] = fs[Target(s)]]
    /\ temp' = [temp EXCEPT ![s] = Absent]
    /\ backup' = [backup EXCEPT ![s] = None]
    /\ source' = [source EXCEPT ![s] = Target(s)]
    /\ followed' = [followed EXCEPT ![s] = FALSE]
    /\ pc' = [pc EXCEPT ![s] = "returned"]
    /\ result' = [result EXCEPT ![s] = "Saved"]
    /\ UNCHANGED <<backups, baseline, document, request, targetExists, copied, cancelled,
                   kept, foreign>>

\* atomic_replace succeeded: both guards are released and the snapshot rebased.
Replace(s) ==
    /\ pc[s] = "replacing"
    /\ Change(Target(s), temp[s], Savers \ {s})
    /\ replaced' = [replaced EXCEPT ![s] = fs[Target(s)]]
    /\ temp' = [temp EXCEPT ![s] = Absent]
    /\ backup' = [backup EXCEPT ![s] = None]
    /\ baseline' = [baseline EXCEPT ![s] = document[s]]
    /\ source' = [source EXCEPT ![s] = Target(s)]
    /\ followed' = [followed EXCEPT ![s] = FALSE]
    /\ pc' = [pc EXCEPT ![s] = "returned"]
    /\ result' = [result EXCEPT ![s] = "Saved"]
    /\ UNCHANGED <<backups, document, request, targetExists, copied, cancelled, kept,
                   foreign>>

-----------------------------------------------------------------------------
Next ==
    \/ \E p \in Paths : ForeignChange(p)
    \/ \E s \in Savers :
         \/ Cancel(s) \/ Load(s) \/ Save(s) \/ Resave(s) \/ SaveChecks(s)
         \/ Inspect(s) \/ CheckSource(s) \/ OpenSource(s) \/ Compare(s)
         \/ StartBackup(s) \/ OpenBackup(s) \/ FinishBackup(s)
         \/ OpenTemp(s) \/ WriteTemp(s) \/ CancelledMidway(s) \/ LastCheck(s)
         \/ Fail(s) \/ Replace(s)

Spec == Init /\ [][Next]_vars

-----------------------------------------------------------------------------
PcValues == Watching \cup {"idle", "edited", "checking", "inspecting", "comparing", "returned"}
SaveRequests == [mode : {"Original", "NewPath"}, destination : Paths,
                 overwrite : BOOLEAN, backup : BOOLEAN]
BackupNames == Paths \X Stamps

\* The types: backups are copies of bytes, never links.
TypeOK ==
    /\ fs \in [Paths -> Bytes \cup {Absent, Symlink, Partial}]
    /\ backups \in [BackupNames -> Bytes \cup {Absent, Partial}]
    /\ temp \in [Savers -> Bytes \cup {Absent, Partial}]
    /\ pc \in [Savers -> PcValues] /\ result \in [Savers -> Outcomes \cup {None}]
    /\ request \in [Savers -> SaveRequests \cup {NoRequest}]
    /\ baseline \in [Savers -> Bytes \cup {Absent}]
    /\ document \in [Savers -> Bytes \cup {Absent}]
    /\ source \in [Savers -> Paths] /\ followed \in [Savers -> BOOLEAN]
    /\ targetExists \in [Savers -> BOOLEAN]
    /\ backup \in [Savers -> BackupNames \cup {None}]
    /\ kept \in [Savers -> BackupNames \cup {None}]
    /\ copied \in [Savers -> Bytes \cup {None}]
    /\ replaced \in [Savers -> Bytes \cup {Absent, Symlink, Partial, None}]
    /\ cancelled \subseteq Savers /\ stale \subseteq Savers
    /\ foreign \in 0..MaxForeign

\* A torrent is never found half-written, whoever looks and whenever: what is renamed
\* onto a path is a temporary file written to its end.
NeverHalfWritten == \A p \in Paths : fs[p] # Partial

\* What a save may put out of existence: nothing, the bytes it was based on when it
\* saves to its source, a file it was told to overwrite - or something that came only
\* after the save had looked at the target.
Licensed(s) ==
    \/ fs[Target(s)] = Absent
    \/ SourceBound(s) /\ fs[Target(s)] = baseline[s]
    \/ ~SourceBound(s) /\ request[s].overwrite /\ fs[Target(s)] \in Bytes
    \/ s \in stale

\* Nor does a save cancelled before its last check come to replace anything.
KeepsTheUnlicensed(s) ==
    /\ Replace(s) => Licensed(s)
    /\ (s \in cancelled /\ pc[s] # "replacing") => pc'[s] # "replacing"

\* No save puts anything else out of existence.
ReplacesOnlyLicensed == [][\A s \in Savers : KeepsTheUnlicensed(s)]_vars

\* The name of a backup has milliseconds: two savers may choose the same one at once.
Shared(name) == \E s, t \in Savers : s # t /\ kept[s] = name /\ kept[t] = name

\* A save that ended as Cancelled left no trace: no temporary file and no backup.
CancelledLeavesNothing ==
    \A s \in Savers :
      (result[s] = "Cancelled" /\ replaced[s] = None) =>
        /\ temp[s] = Absent
        /\ (kept[s] # None /\ ~Shared(kept[s])) => backups[kept[s]] = Absent

\* A truncated backup is only ever seen while it is copied, or after a copy that failed.
TruncatedBackupsExplained ==
    \A name \in DOMAIN backups :
      backups[name] = Partial =>
        \E s \in Savers : kept[s] = name /\ (pc[s] = "copying" \/ result[s] = "IoFailure")

\* A save asked to make a backup of a target it found made one, and it holds exactly
\* the replaced bytes - unless the target changed under the save, or another saver used
\* the same millisecond's name; and no other save leaves a truncated one.
BackupHoldsReplaced ==
    /\ TruncatedBackupsExplained
    /\ \A s \in Savers :
         /\ result[s] = "Saved" /\ request[s].backup
         /\ targetExists[s] /\ s \notin stale /\ ~Shared(kept[s])
         => kept[s] # None /\ backups[kept[s]] = replaced[s]

\* Saving the returned snapshot again where it came from finds nothing to do: it does
\* not touch the file, and does not take the save's own bytes for a conflict.
ResaveFindsNoChange ==
    \A s \in Savers :
      replaced[s] # None =>
        /\ pc[s] \in {"checking", "returned"}
        /\ result[s] \in {None, "Saved", "NoChange", "Cancelled", "UnsupportedFeature"}

-----------------------------------------------------------------------------
(* The inductive invariant *)

\* What each stage of a call has, and that a call to the source names it.
Stages ==
    \A s \in Savers :
      /\ pc[s] # "idle" => baseline[s] \in Bytes /\ document[s] \in Bytes
      /\ pc[s] \in {"idle", "edited"} => source[s] = Source
      /\ pc[s] \notin {"idle", "edited"} =>
           request[s] \in SaveRequests /\ (request[s].mode = "Original" => Target(s) = source[s])
      /\ pc[s] \in {"comparing", "reading", "matching"} => Target(s) = source[s]
      /\ pc[s] \in {"committing", "replacing"} => temp[s] = document[s]
      /\ pc[s] \notin {"writing", "committing", "replacing"} => temp[s] = Absent
      /\ pc[s] # "returned" => result[s] = None

\* What was found at the target stays there, or the saver is stale.
Watched ==
    \A s \in Savers :
      /\ pc[s] \in Looked => Licensed(s)
      /\ pc[s] = "reading" /\ s \notin stale => fs[Target(s)] \in Bytes

\* A call that has replaced a file is over; its snapshot is saved again unchanged.
ReplacesOnce ==
    \A s \in Savers :
      /\ result[s] = "Saved" => replaced[s] # None
      /\ replaced[s] # None =>
           /\ document[s] = baseline[s] /\ ~followed[s]
           /\ pc[s] \in {"checking", "returned"}
           /\ pc[s] = "checking" => request[s].mode = "Original"

\* The guard of the backup is armed with its name until the save is over.
GuardArmed ==
    \A s \in Savers :
      /\ backup[s] = IF pc[s] \in Guarded THEN kept[s] ELSE None
      /\ kept[s] # None => pc[s] \in Guarded \cup {"returned"} \/ replaced[s] # None
      /\ pc[s] = "copying" => kept[s] # None
      /\ copied[s] # None => pc[s] \in {"copying", "matching"}
      /\ copied[s] # None /\ s \notin stale => copied[s] = fs[Target(s)]
      /\ (pc[s] \in Copied \/ result[s] = "Saved") /\ request[s].backup /\ targetExists[s]
           => kept[s] # None

\* The backup of a name that nobody else uses is the target as it still is, or was when it
\* was replaced.
BackupExact ==
    \A s \in Savers :
      s \notin stale /\ kept[s] # None /\ ~Shared(kept[s]) =>
        /\ pc[s] \in Copied => backups[kept[s]] = fs[Target(s)]
        /\ result[s] = "Saved" => backups[kept[s]] = replaced[s]

\* The types, what a save may be in the middle of and what it promises at its end, together
\* as one inductive invariant of commit (application.cpp) with its two guards.
IInv == /\ TypeOK /\ NeverHalfWritten /\ Stages /\ Watched /\ ReplacesOnce /\ GuardArmed
        /\ BackupExact /\ CancelledLeavesNothing /\ TruncatedBackupsExplained
        /\ ResaveFindsNoChange
=============================================================================
