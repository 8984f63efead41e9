------------------------------ MODULE SaveProofs ------------------------------
(***************************************************************************)
(* TorrentSave keeps IInv for any number of savers, paths and stamps: no   *)
(* torrent is half-written, a save replaces only what it may, a cancelled  *)
(* save leaves nothing, and a backup holds what was replaced.              *)
(***************************************************************************)
EXTENDS TorrentSave, TLAPS

\* A save that fails keeps the invariant, whatever made it fail, provided that it reports a
\* cancellation only when there was one and an error that its stage can have.
LEMMA ReturnIInv ==
  ASSUME IInv, NEW s \in Savers, NEW outcome \in Outcomes \ {"Saved"}, Return(s, outcome),
         pc[s] \notin {"idle", "edited", "returned"},
         outcome = "Cancelled" => s \in cancelled,
         pc[s] = "copying" => outcome \in {"Cancelled", "IoFailure"},
         replaced[s] # None => outcome \in {"NoChange", "Cancelled", "UnsupportedFeature"}
  PROVE  IInv'
<1> USE DEF IInv, snapshot, history
<1>1. TypeOK'
  BY SaveAssumption DEF TypeOK, Return, PcValues, Watching, BackupNames, Outcomes
<1>2. NeverHalfWritten'
  BY DEF NeverHalfWritten, Return
<1>3. Stages'
  BY DEF TypeOK, Stages, Return, Target
<1>4. Watched'
  BY DEF TypeOK, Watched, Return, Licensed, Target, SourceBound, Looked, Guarded, Copied
<1>5. ReplacesOnce'
  BY DEF TypeOK, ReplacesOnce, Return
<1>6. GuardArmed'
  BY DEF TypeOK, GuardArmed, Return, Target, Guarded, Copied
<1>7. ASSUME NEW t \in Savers, kept[t] # None, ~Shared(kept[t]), t # s
      PROVE  backups'[kept[t]] = backups[kept[t]]
  BY <1>7 DEF TypeOK, GuardArmed, Return, Shared, Guarded
<1>8. \A name : Shared(name)' <=> Shared(name)
  BY DEF Shared, Return
<1>9. BackupExact'
  BY <1>7, <1>8 DEF TypeOK, BackupExact, Return, Target, Copied
<1>10. CancelledLeavesNothing'
  <2>1. ASSUME NEW t \in Savers, t # s, (result[t] = "Cancelled" /\ replaced[t] = None)'
        PROVE  (/\ temp[t] = Absent
                /\ kept[t] # None /\ ~Shared(kept[t]) => backups[kept[t]] = Absent)'
    BY <2>1, <1>7, <1>8 DEF TypeOK, CancelledLeavesNothing, Return
  <2>2. ASSUME (result[s] = "Cancelled" /\ replaced[s] = None)'
        PROVE  (temp[s] = Absent /\ (kept[s] # None => backups[kept[s]] = Absent))'
    BY <2>2 DEF TypeOK, GuardArmed, Return, Guarded, Copied
  <2> QED BY <2>1, <2>2 DEF CancelledLeavesNothing
<1>11. TruncatedBackupsExplained'
  <2>1. SUFFICES ASSUME NEW name \in (DOMAIN backups)', (backups[name] = Partial)'
                 PROVE  (\E t \in Savers :
                            kept[t] = name /\ (pc[t] = "copying" \/ result[t] = "IoFailure"))'
    BY DEF TruncatedBackupsExplained
  <2>2. name \in DOMAIN backups /\ backups[name] = Partial
    BY <2>1, SaveAssumption DEF TypeOK, Return
  <2>3. PICK t \in Savers : kept[t] = name /\ (pc[t] = "copying" \/ result[t] = "IoFailure")
    BY <2>2 DEF TruncatedBackupsExplained
  <2>4. CASE t # s
    BY <2>3, <2>4 DEF TypeOK, Return
  <2>5. CASE t = s
    <3>1. pc[s] = "copying"
      BY <2>3, <2>5, SaveAssumption DEF Stages, Outcomes
    <3>2. backup[s] = name /\ backup[s] # None
      BY <2>3, <2>5, <3>1 DEF GuardArmed, Guarded
    <3>3. outcome # "Cancelled"
      BY <2>1, <2>2, <3>2, SaveAssumption DEF TypeOK, Return
    <3> QED BY <2>3, <2>5, <3>1, <3>3 DEF TypeOK, Return
  <2> QED BY <2>4, <2>5
<1>12. ResaveFindsNoChange'
  BY DEF TypeOK, ResaveFindsNoChange, Return
<1> QED BY <1>1, <1>2, <1>3, <1>4, <1>5, <1>6, <1>9, <1>10, <1>11, <1>12

\* A step from one stage to the next keeps the invariant when what the next stage knows holds.
LEMMA AdvanceIInv ==
  ASSUME IInv, NEW s \in Savers, NEW next \in PcValues, Advance(s, next),
         \/ pc[s] = "checking" /\ next = "inspecting" /\ replaced[s] = None
         \/ pc[s] = "comparing" /\ next = "reading" /\ fs[Target(s)] \in Bytes
         \/ pc[s] = "backup" /\ next = "opening" /\ ~(request[s].backup /\ targetExists[s])
         \/ pc[s] = "committing" /\ next = "replacing"
  PROVE  IInv'
<1> USE DEF IInv, files, snapshot, history
<1>1. TypeOK'
  BY DEF TypeOK, Advance
<1>2. NeverHalfWritten'
  BY DEF NeverHalfWritten, Advance
<1>3. Stages'
  BY DEF TypeOK, Stages, Advance, Target
<1>4. Watched'
  BY DEF TypeOK, Watched, Advance, Licensed, Target, SourceBound, Looked, Guarded, Copied
<1>5. ReplacesOnce'
  BY DEF TypeOK, ReplacesOnce, Advance
<1>6. GuardArmed'
  BY DEF TypeOK, GuardArmed, ReplacesOnce, Advance, Target, Guarded, Copied
<1>7. \A name : Shared(name)' <=> Shared(name)
  BY DEF Shared, Advance
<1>8. BackupExact'
  BY <1>7 DEF TypeOK, BackupExact, GuardArmed, ReplacesOnce, Advance, Target, Guarded, Copied
<1>9. CancelledLeavesNothing'
  BY <1>7 DEF TypeOK, CancelledLeavesNothing, Advance
<1>10. TruncatedBackupsExplained'
  BY DEF TypeOK, TruncatedBackupsExplained, Advance
<1>11. ResaveFindsNoChange'
  BY DEF TypeOK, ResaveFindsNoChange, ReplacesOnce, Advance
<1> QED BY <1>1, <1>2, <1>3, <1>4, <1>5, <1>6, <1>8, <1>9, <1>10, <1>11

\* Reading the source touches nothing but what was read of it.
LEMMA ReadIInv ==
  ASSUME IInv, NEW s \in Savers, NEW next \in {"matching", "backup"},
         NEW read \in Bytes \cup {None},
         pc[s] \in {"reading", "matching"},
         copied' = [copied EXCEPT ![s] = read], pc' = [pc EXCEPT ![s] = next],
         UNCHANGED <<files, snapshot, request, targetExists, backup, result, cancelled, history,
                     foreign>>,
         \/ next = "matching" /\ read \in Bytes /\ (s \notin stale => read = fs[Target(s)])
         \/ next = "backup" /\ read = None /\ Licensed(s)
  PROVE  IInv'
<1> USE DEF IInv, files, snapshot, history
<1>1. replaced[s] = None /\ kept[s] = None /\ result[s] = None
  BY DEF ReplacesOnce, GuardArmed, Guarded, Copied, Stages
<1>2. TypeOK' /\ NeverHalfWritten'
  BY DEF TypeOK, NeverHalfWritten, PcValues, Watching, Looked
<1>3. Stages'
  BY DEF TypeOK, Stages, Target
<1>4. Watched'
  BY DEF TypeOK, Watched, Licensed, SourceBound, Target, Looked, Guarded, Copied
<1>5. ReplacesOnce'
  BY <1>1 DEF TypeOK, ReplacesOnce
<1>6. \A name : Shared(name)' <=> Shared(name)
  BY DEF Shared
<1>7. GuardArmed'
  BY <1>1, SaveAssumption DEF TypeOK, GuardArmed, Target, Guarded, Copied, Outcomes
<1>8. BackupExact'
  BY <1>1, <1>6 DEF TypeOK, BackupExact, Target, Copied
<1>9. CancelledLeavesNothing' /\ ResaveFindsNoChange'
  BY <1>1, <1>6 DEF TypeOK, CancelledLeavesNothing, ResaveFindsNoChange
<1>10. TruncatedBackupsExplained'
  BY <1>1 DEF TypeOK, TruncatedBackupsExplained
<1> QED BY <1>2, <1>3, <1>4, <1>5, <1>7, <1>8, <1>9, <1>10

\* The steps of the rest of the world and before the first look at a target.
LEMMA OutsideIInv ==
  ASSUME IInv,
         \/ \E p \in Paths : ForeignChange(p)
         \/ \E s \in Savers : Cancel(s) \/ Load(s) \/ Save(s) \/ Resave(s)
  PROVE  IInv'
<1> USE DEF IInv
<1>1. ASSUME NEW p \in Paths, ForeignChange(p) PROVE IInv'
  <2> USE <1>1 DEF ForeignChange, Change, snapshot, call
  <2>1. TypeOK'
    BY SaveAssumption DEF TypeOK, Bytes, Looking
  <2>2. NeverHalfWritten'
    BY SaveAssumption DEF TypeOK, NeverHalfWritten
  <2>3. Stages'
    BY DEF Stages, Target
  <2>4. \A s \in Savers : s \notin stale' /\ pc[s] \in Watching =>
          s \notin stale /\ fs'[Target(s)] = fs[Target(s)]
    BY DEF TypeOK, Stages, Looking, Watching, Looked, Guarded, Copied, SaveRequests, Target
  <2>5. Watched'
    BY <2>4 DEF Watched, Watching, Licensed, SourceBound, Target
  <2>6. ReplacesOnce'
    BY DEF ReplacesOnce
  <2>7. GuardArmed'
    BY <2>4 DEF GuardArmed, Target, Watching, Looked, Guarded
  <2>8. \A name : Shared(name)' <=> Shared(name)
    BY DEF Shared
  <2>9. BackupExact'
    BY <2>4, <2>8 DEF BackupExact, Target, Watching, Looked, Guarded, Copied
  <2>10. CancelledLeavesNothing'
    BY <2>8 DEF CancelledLeavesNothing
  <2>11. TruncatedBackupsExplained' /\ ResaveFindsNoChange'
    BY DEF TruncatedBackupsExplained, ResaveFindsNoChange
  <2> QED BY <2>1, <2>2, <2>3, <2>5, <2>6, <2>7, <2>9, <2>10, <2>11
<1>2. ASSUME NEW s \in Savers, Cancel(s) PROVE IInv'
  <2> USE <1>2 DEF Cancel, files, snapshot, call, history
  <2>1. TypeOK' /\ NeverHalfWritten' /\ Stages'
    BY DEF TypeOK, NeverHalfWritten, Stages, Target
  <2>2. Watched' /\ ReplacesOnce'
    BY DEF Watched, Licensed, SourceBound, Target, ReplacesOnce
  <2>3. \A name : Shared(name)' <=> Shared(name)
    BY DEF Shared
  <2>4. GuardArmed' /\ BackupExact'
    BY <2>3 DEF GuardArmed, BackupExact, Target
  <2>5. CancelledLeavesNothing' /\ TruncatedBackupsExplained' /\ ResaveFindsNoChange'
    BY <2>3 DEF CancelledLeavesNothing, TruncatedBackupsExplained, ResaveFindsNoChange
  <2> QED BY <2>1, <2>2, <2>4, <2>5
<1>3. ASSUME NEW s \in Savers, Load(s) PROVE IInv'
  <2> USE DEF files, history
  <2>1. PICK bytes \in Bytes, encoded \in Bytes :
          /\ baseline' = [baseline EXCEPT ![s] = bytes]
          /\ document' = [document EXCEPT ![s] = encoded]
    <3>1. Source \in Paths /\ fs[Source] \in Bytes \cup {Symlink}
      BY <1>3, SaveAssumption DEF Load, TypeOK, NeverHalfWritten
    <3> QED BY <1>3, <3>1 DEF Load, Bytes
  <2>2. /\ pc[s] = "idle" /\ pc' = [pc EXCEPT ![s] = "edited"]
        /\ followed' = [followed EXCEPT ![s] = fs[Source] = Symlink]
        /\ UNCHANGED <<files, source, request, targetExists, backup, copied, result, cancelled,
                       history, foreign>>
    BY <1>3 DEF Load
  <2>3. TypeOK' /\ NeverHalfWritten'
    BY <2>1, <2>2 DEF TypeOK, NeverHalfWritten, PcValues, Watching
  <2>4. Stages'
    BY <2>1, <2>2 DEF TypeOK, Stages, Target
  <2>5. Watched'
    BY <2>1, <2>2 DEF TypeOK, Watched, Licensed, SourceBound, Target, Looked, Guarded, Copied
  <2>6. ReplacesOnce'
    BY <2>1, <2>2 DEF TypeOK, ReplacesOnce
  <2>7. \A name : Shared(name)' <=> Shared(name)
    BY <2>2 DEF Shared
  <2>8. GuardArmed'
    BY <2>2 DEF TypeOK, GuardArmed, ReplacesOnce, Target, Guarded, Copied
  <2>9. BackupExact'
    BY <2>2, <2>7 DEF TypeOK, BackupExact, Target, Copied
  <2>10. CancelledLeavesNothing' /\ ResaveFindsNoChange'
    BY <2>2, <2>7 DEF TypeOK, CancelledLeavesNothing, ResaveFindsNoChange
  <2>11. TruncatedBackupsExplained'
    BY <2>2 DEF TypeOK, TruncatedBackupsExplained
  <2> QED BY <2>3, <2>4, <2>5, <2>6, <2>8, <2>9, <2>10, <2>11
<1>4. ASSUME NEW s \in Savers, Save(s) \/ Resave(s) PROVE IInv'
  <2> USE DEF files, snapshot, history
  <2>1. /\ pc' = [pc EXCEPT ![s] = "checking"]
        /\ result' = [result EXCEPT ![s] = None]
        /\ UNCHANGED <<files, snapshot, targetExists, backup, copied, cancelled, history, foreign>>
    <3>1. CASE Save(s)
      BY <3>1 DEF Save, TypeOK, Stages
    <3>2. CASE Resave(s)
      BY <3>2 DEF Resave
    <3> QED BY <1>4, <3>1, <3>2
  <2>2. PICK r \in SaveRequests :
          /\ request' = [request EXCEPT ![s] = r]
          /\ r.mode = "Original" => r.destination = source[s]
          /\ \/ pc[s] = "edited"
             \/ pc[s] = "returned" /\ result[s] = "Saved" /\ r.mode = "Original"
    <3>1. CASE Save(s)
      BY <3>1, SaveAssumption DEF Save, TypeOK, Stages, SaveRequests
    <3>2. CASE Resave(s)
      <4>1. PICK q \in Requests :
              /\ q.mode = "Original"
              /\ request' = [request EXCEPT ![s] = [q EXCEPT !.destination = source[s]]]
        BY <3>2 DEF Resave
      <4>2. [q EXCEPT !.destination = source[s]] \in SaveRequests
        BY SaveAssumption DEF TypeOK, SaveRequests
      <4> QED BY <3>2, <4>1, <4>2 DEF Resave, SaveRequests
    <3> QED BY <1>4, <3>1, <3>2
  <2>3. TypeOK' /\ NeverHalfWritten'
    BY <2>1, <2>2 DEF TypeOK, NeverHalfWritten, PcValues, Watching, Outcomes
  <2>4. Stages'
    BY <2>1, <2>2 DEF TypeOK, Stages, Target
  <2>5. Watched'
    BY <2>1, <2>2 DEF TypeOK, Watched, Licensed, SourceBound, Target, Looked, Guarded, Copied
  <2>6. ReplacesOnce'
    BY <2>1, <2>2, SaveAssumption DEF Outcomes, TypeOK, ReplacesOnce, SaveRequests
  <2>7. \A name : Shared(name)' <=> Shared(name)
    BY <2>1 DEF Shared
  <2>8. GuardArmed'
    BY <2>1, <2>2, SaveAssumption DEF Outcomes, TypeOK, GuardArmed, ReplacesOnce, Target, Guarded, Copied
  <2>9. BackupExact'
    BY <2>1, <2>2, <2>7, SaveAssumption DEF Outcomes, TypeOK, BackupExact, Target, Copied
  <2>10. CancelledLeavesNothing'
    BY <2>1, <2>7, SaveAssumption DEF TypeOK, CancelledLeavesNothing, Outcomes
  <2>11. TruncatedBackupsExplained'
    <3>1. pc[s] # "copying" /\ result[s] # "IoFailure"
      BY <2>2, SaveAssumption DEF Stages, Outcomes
    <3>2. \A t \in Savers : pc[t] = "copying" \/ result[t] = "IoFailure" =>
                           pc'[t] = "copying" \/ result'[t] = "IoFailure"
      BY <2>1, <3>1 DEF TypeOK
    <3> QED BY <2>1, <3>2 DEF TruncatedBackupsExplained
  <2>12. ResaveFindsNoChange'
    BY <2>1, <2>2 DEF TypeOK, ResaveFindsNoChange, ReplacesOnce
  <2> QED BY <2>3, <2>4, <2>5, <2>6, <2>8, <2>9, <2>10, <2>11, <2>12
<1> QED BY <1>1, <1>2, <1>3, <1>4
\* The checks before the backup: each fails or goes on.
LEMMA ChecksIInv ==
  ASSUME IInv, NEW s \in Savers,
         \/ SaveChecks(s) \/ Inspect(s) \/ CheckSource(s) \/ OpenSource(s) \/ Compare(s)
         \/ CancelledMidway(s) \/ LastCheck(s) \/ Fail(s)
  PROVE  IInv'
<1> USE DEF IInv
<1>0. pc[s] \notin {"checking", "returned"} => replaced[s] = None
  BY DEF ReplacesOnce
<1>1. CASE SaveChecks(s)
  <2>1. replaced[s] # None =>
          request[s].mode = "Original" /\ ~followed[s] /\ document[s] = baseline[s]
    BY <1>1 DEF ReplacesOnce, SaveChecks
  <2>2. CASE s \in cancelled /\ Return(s, "Cancelled")
    BY <1>1, <2>2, ReturnIInv DEF SaveChecks, Outcomes
  <2>3. CASE request[s].mode = "Original" /\ followed[s] /\ Return(s, "ValidationFailed")
    BY <1>1, <2>1, <2>3, ReturnIInv DEF SaveChecks, Outcomes
  <2>4. CASE Return(s, "NoChange") \/ Return(s, "UnsupportedFeature")
    BY <1>1, <2>4, ReturnIInv DEF SaveChecks, Outcomes
  <2>5. CASE /\ ~(document[s] = baseline[s] /\ request[s].mode = "Original")
             /\ Advance(s, "inspecting")
    BY <1>1, <2>1, <2>5, AdvanceIInv DEF SaveChecks, PcValues, Watching
  <2> QED BY <1>1, <2>2, <2>3, <2>4, <2>5 DEF SaveChecks
<1>2. CASE Inspect(s)
  <2>1. CASE (Return(s, "Cancelled") /\ s \in cancelled) \/ Return(s, "Conflict")
    BY <1>0, <1>2, <2>1, ReturnIInv DEF Inspect, Outcomes
  <2>2. CASE /\ request[s].mode = "NewPath" =>
                   fs[Target(s)] # Symlink /\ (fs[Target(s)] # Absent => request[s].overwrite)
             /\ targetExists' \in [Savers -> BOOLEAN]
             /\ \A t \in Savers \ {s} : targetExists'[t] = targetExists[t]
             /\ pc' = [pc EXCEPT ![s] = IF SourceBound(s) THEN "comparing" ELSE "backup"]
             /\ UNCHANGED <<files, snapshot, request, backup, copied, result, cancelled, history,
                            foreign>>
    <3> USE <2>2 DEF files, snapshot, history
    <3>0. pc[s] = "inspecting" /\ replaced[s] = None /\ kept[s] = None /\ result[s] = None
      BY <1>0, <1>2 DEF Inspect, GuardArmed, Guarded, Copied, Stages
    <3>1. TypeOK' /\ NeverHalfWritten'
      BY DEF TypeOK, NeverHalfWritten, PcValues, Watching, Looked
    <3>2. Stages'
      BY <3>0 DEF TypeOK, Stages, SourceBound, Target
    <3>3. pc'[s] = "backup" => Licensed(s)
      BY <3>0 DEF TypeOK, Stages, SourceBound, SaveRequests, NeverHalfWritten, Licensed, Target
    <3>4. Watched'
      BY <3>0, <3>3 DEF TypeOK, Watched, Licensed, SourceBound, Target, Looked, Guarded, Copied
    <3>5. ReplacesOnce'
      BY <3>0 DEF TypeOK, ReplacesOnce
    <3>6. \A name : Shared(name)' <=> Shared(name)
      BY DEF Shared
    <3>7. GuardArmed'
      BY <3>0, SaveAssumption DEF TypeOK, GuardArmed, Target, Guarded, Copied, Outcomes
    <3>8. BackupExact'
      BY <3>0, <3>6 DEF TypeOK, BackupExact, Target, Copied
    <3>9. CancelledLeavesNothing' /\ ResaveFindsNoChange'
      BY <3>0, <3>6 DEF TypeOK, CancelledLeavesNothing, ResaveFindsNoChange
    <3>10. TruncatedBackupsExplained'
      BY <3>0 DEF TypeOK, TruncatedBackupsExplained
    <3> QED BY <3>1, <3>2, <3>4, <3>5, <3>7, <3>8, <3>9, <3>10
  <2> QED BY <1>2, <2>1, <2>2 DEF Inspect, TypeOK
<1>3. CASE CheckSource(s) \/ OpenSource(s) \/ Compare(s)
  <2>0. Target(s) = source[s] /\ SourceBound(s) /\ Target(s) \in Paths
    BY <1>3 DEF CheckSource, OpenSource, Compare, Stages, SourceBound, SaveRequests, Target
  <2>1. CASE CheckSource(s)
    <3>1. CASE Return(s, "Conflict")
      BY <1>0, <2>1, <3>1, ReturnIInv DEF CheckSource, Outcomes
    <3>2. CASE fs[source[s]] \in Bytes /\ Advance(s, "reading")
      BY <2>0, <2>1, <3>2, AdvanceIInv DEF CheckSource, PcValues, Watching
    <3> QED BY <2>1, <3>1, <3>2 DEF CheckSource
  <2>2. CASE OpenSource(s)
    <3>1. s \notin stale => fs[Target(s)] \in Bytes
      BY <2>2 DEF OpenSource, Watched
    <3>2. PICK read \in Bytes :
            /\ copied' = [copied EXCEPT ![s] = read]
            /\ s \notin stale => read = fs[Target(s)]
      <4>1. fs[source[s]] \in Bytes \cup {Symlink}
        BY <2>0, <2>2 DEF OpenSource, TypeOK, NeverHalfWritten
      <4>2. Symlink \notin Bytes /\ Original \in Bytes
        BY SaveAssumption DEF Bytes
      <4> QED BY <2>0, <2>2, <3>1, <4>1, <4>2 DEF OpenSource
    <3>3. /\ pc[s] = "reading" /\ pc' = [pc EXCEPT ![s] = "matching"]
          /\ UNCHANGED <<files, snapshot, request, targetExists, backup, result, cancelled,
                         history, foreign>>
      BY <2>2 DEF OpenSource
    <3>4. read \in Bytes \cup {None}
      BY <3>2
    <3> QED BY <3>2, <3>3, <3>4, ReadIInv
  <2>3. CASE Compare(s)
    <3>1. CASE Return(s, "Conflict")
      BY <1>0, <2>3, <3>1, ReturnIInv DEF Compare, Outcomes
    <3>2. CASE copied[s] = baseline[s] /\ ~Return(s, "Conflict")
      <4>1. Licensed(s)
        <5>1. copied[s] # None
          BY <2>3, <3>2, SaveAssumption DEF Compare, Stages, Bytes
        <5> QED BY <2>0, <3>2, <5>1 DEF GuardArmed, Licensed
      <4> QED BY <2>3, <3>2, <4>1, ReadIInv DEF Compare
    <3> QED BY <2>3, <3>1, <3>2 DEF Compare
  <2> QED BY <1>3, <2>1, <2>2, <2>3
<1>4. CASE CancelledMidway(s)
  BY <1>0, <1>4, ReturnIInv DEF CancelledMidway, Outcomes
<1>5. CASE LastCheck(s)
  BY <1>5, AdvanceIInv DEF LastCheck, PcValues, Watching, Looked, Guarded, Copied
<1>6. CASE Fail(s)
  BY <1>0, <1>6, ReturnIInv DEF Fail, Outcomes
<1> QED BY <1>1, <1>2, <1>3, <1>4, <1>5, <1>6
\* A step of the backup or of the temporary file touches neither the files nor who is stale,
\* nor a backup of somebody else's name.
LEMMA CopyIInv ==
  ASSUME IInv, NEW s \in Savers,
         StartBackup(s) \/ OpenBackup(s) \/ FinishBackup(s) \/ OpenTemp(s) \/ WriteTemp(s)
  PROVE  IInv'
<1> USE DEF IInv
<1>1. CASE StartBackup(s)
  <2>0. pc[s] = "backup" /\ replaced[s] = None /\ kept[s] = None /\ backup[s] = None
        /\ copied[s] = None /\ result[s] = None /\ Licensed(s)
    BY <1>1 DEF StartBackup, ReplacesOnce, GuardArmed, Guarded, Copied, Stages, Watched, Looked
  <2>1. CASE ~(request[s].backup /\ targetExists[s]) /\ Advance(s, "opening")
    BY <2>0, <2>1, AdvanceIInv DEF PcValues, Watching, Looked, Guarded, Copied
  <2>2. CASE Return(s, "Conflict")
    BY <2>0, <2>2, ReturnIInv DEF Outcomes
  <2>3. ASSUME NEW name \in BackupNames, backups[name] = Absent,
               backup' = [backup EXCEPT ![s] = name], kept' = [kept EXCEPT ![s] = name],
               pc' = [pc EXCEPT ![s] = "copying"],
               UNCHANGED <<files, snapshot, request, targetExists, copied, result, cancelled,
                           stale, replaced, foreign>>
        PROVE  IInv'
    <3> USE <2>0, <2>3 DEF files, snapshot
    <3>0. name # None
      BY SaveAssumption DEF BackupNames
    <3>1. TypeOK' /\ NeverHalfWritten'
      BY DEF TypeOK, NeverHalfWritten, PcValues, Watching, Looked, Guarded
    <3>2. Stages'
      BY DEF TypeOK, Stages, Target
    <3>3. Watched'
      BY DEF TypeOK, Watched, Licensed, SourceBound, Target, Looked, Guarded, Copied
    <3>4. ReplacesOnce'
      BY DEF TypeOK, ReplacesOnce
    <3>5. \A t \in Savers : t # s /\ kept[t] # None /\ ~Shared(kept[t])' => ~Shared(kept[t])
      BY DEF TypeOK, Shared
    <3>6. GuardArmed'
      BY <3>0, SaveAssumption DEF TypeOK, GuardArmed, Target, Guarded, Copied, Outcomes
    <3>7. BackupExact'
      BY <3>5, SaveAssumption DEF TypeOK, BackupExact, Target, Copied, Outcomes
    <3>8. CancelledLeavesNothing'
      BY <3>5, SaveAssumption DEF TypeOK, CancelledLeavesNothing, Outcomes
    <3>9. TruncatedBackupsExplained'
      BY SaveAssumption DEF TypeOK, TruncatedBackupsExplained, Outcomes
    <3>10. ResaveFindsNoChange'
      BY DEF TypeOK, ResaveFindsNoChange
    <3> QED BY <3>1, <3>2, <3>3, <3>4, <3>6, <3>7, <3>8, <3>9, <3>10
  <2>4. Target(s) \in Paths
    BY <2>0 DEF Stages, SaveRequests, Target
  <2> QED BY <1>1, <2>1, <2>2, <2>3, <2>4 DEF StartBackup, BackupNames
<1>2. CASE OpenBackup(s) \/ FinishBackup(s)
  <2> USE DEF history, snapshot
  <2>0. /\ pc[s] = "copying" /\ replaced[s] = None /\ kept[s] \in BackupNames
        /\ backup[s] = kept[s] /\ result[s] = None /\ kept[s] # None
    BY <1>2 DEF OpenBackup, FinishBackup, ReplacesOnce, GuardArmed, Guarded, Stages, TypeOK
  <2>1. PICK content \in Bytes \cup {Partial}, read \in Bytes \cup {None} :
          /\ backups' = [backups EXCEPT ![kept[s]] = content]
          /\ copied' = [copied EXCEPT ![s] = read]
          /\ UNCHANGED <<fs, temp, snapshot, request, targetExists, backup, result, cancelled,
                         history, foreign>>
          /\ \/ /\ UNCHANGED pc /\ content = Partial
                /\ s \notin stale => read = fs[Target(s)]
             \/ /\ pc' = [pc EXCEPT ![s] = "opening"] /\ content \in Bytes /\ read = None
                /\ s \notin stale => content = fs[Target(s)]
    <3>1. CASE OpenBackup(s)
      <4>1. Target(s) \in Paths /\ (s \notin stale => fs[Target(s)] \in Bytes)
        BY <2>0, <3>1 DEF OpenBackup, Stages, SaveRequests, Target, Watched, Licensed, Looked, Guarded
      <4>2. fs[Target(s)] \in Bytes \cup {Symlink}
        BY <3>1, <4>1 DEF OpenBackup, TypeOK, NeverHalfWritten
      <4>3. s \notin stale => fs[Target(s)] # Symlink
        BY <4>1, SaveAssumption DEF Bytes
      <4> QED BY <2>0, <3>1, <4>2, <4>3 DEF OpenBackup, Bytes
    <3>2. CASE FinishBackup(s)
      BY <2>0, <3>2 DEF FinishBackup, TypeOK, GuardArmed
    <3> QED BY <1>2, <3>1, <3>2
  <2>2. TypeOK' /\ NeverHalfWritten'
    BY <2>0, <2>1 DEF TypeOK, NeverHalfWritten, PcValues, Watching, Looked, Guarded, Copied
  <2>3. Stages'
    BY <2>0, <2>1 DEF TypeOK, Stages, Target
  <2>4. Watched'
    BY <2>0, <2>1 DEF TypeOK, Watched, Licensed, SourceBound, Target, Looked, Guarded, Copied
  <2>5. ReplacesOnce'
    BY <2>0, <2>1 DEF TypeOK, ReplacesOnce
  <2>6. \A name : Shared(name)' <=> Shared(name)
    BY <2>1 DEF Shared
  <2>7. GuardArmed'
    BY <2>0, <2>1, SaveAssumption DEF TypeOK, GuardArmed, Target, Guarded, Copied, Outcomes
  <2>8. \A t \in Savers : t # s /\ kept[t] # None /\ ~Shared(kept[t]) =>
                          backups'[kept[t]] = backups[kept[t]]
    BY <2>0, <2>1 DEF TypeOK, Shared
  <2>9. BackupExact'
    BY <2>0, <2>1, <2>6, <2>8, SaveAssumption DEF TypeOK, BackupExact, Target, Copied, Outcomes
  <2>10. CancelledLeavesNothing'
    BY <2>0, <2>1, <2>6, <2>8, SaveAssumption DEF TypeOK, CancelledLeavesNothing, Outcomes
  <2>11. TruncatedBackupsExplained'
    BY <2>0, <2>1, SaveAssumption DEF TypeOK, TruncatedBackupsExplained, Bytes, Outcomes
  <2>12. ResaveFindsNoChange'
    BY <2>0, <2>1 DEF TypeOK, ResaveFindsNoChange
  <2> QED BY <2>2, <2>3, <2>4, <2>5, <2>7, <2>9, <2>10, <2>11, <2>12
<1>3. CASE OpenTemp(s) \/ WriteTemp(s)
  <2> USE DEF history, snapshot
  <2>1. /\ replaced[s] = None /\ result[s] = None
        /\ \/ pc[s] = "opening" /\ pc' = [pc EXCEPT ![s] = "writing"]
             /\ temp' = [temp EXCEPT ![s] = Partial]
           \/ pc[s] = "writing" /\ pc' = [pc EXCEPT ![s] = "committing"]
             /\ temp' = [temp EXCEPT ![s] = document[s]]
        /\ UNCHANGED <<fs, backups, snapshot, request, targetExists, backup, copied, result,
                       cancelled, history, foreign>>
    BY <1>3 DEF OpenTemp, WriteTemp, ReplacesOnce, Stages
  <2>2. TypeOK' /\ NeverHalfWritten'
    BY <2>1 DEF TypeOK, NeverHalfWritten, PcValues, Watching, Looked, Guarded, Copied, Stages
  <2>3. Stages'
    BY <2>1 DEF TypeOK, Stages, Target
  <2>4. Watched'
    BY <2>1 DEF TypeOK, Watched, Licensed, SourceBound, Target, Looked, Guarded, Copied
  <2>5. ReplacesOnce'
    BY <2>1 DEF TypeOK, ReplacesOnce
  <2>6. \A name : Shared(name)' <=> Shared(name)
    BY <2>1 DEF Shared
  <2>7. GuardArmed'
    BY <2>1 DEF TypeOK, GuardArmed, Target, Guarded, Copied
  <2>8. BackupExact'
    BY <2>1, <2>6 DEF TypeOK, BackupExact, Target, Copied
  <2>9. CancelledLeavesNothing'
    BY <2>1, <2>6, SaveAssumption DEF TypeOK, CancelledLeavesNothing, Outcomes
  <2>10. TruncatedBackupsExplained' /\ ResaveFindsNoChange'
    BY <2>1 DEF TypeOK, TruncatedBackupsExplained, ResaveFindsNoChange
  <2> QED BY <2>2, <2>3, <2>4, <2>5, <2>7, <2>8, <2>9, <2>10
<1> QED BY <1>1, <1>2, <1>3
\* The rename makes the savers stale that watch its target, and its own snapshot the file.
LEMMA ReplaceIInv ==
  ASSUME IInv, NEW s \in Savers, Replace(s)
  PROVE  IInv'
<1> USE DEF IInv
<1>0. /\ pc[s] = "replacing" /\ Target(s) \in Paths /\ replaced[s] = None /\ result[s] = None
      /\ temp[s] \in Bytes /\ temp[s] = document[s]
      /\ fs[Target(s)] \in Bytes \cup {Absent, Symlink} /\ fs[Target(s)] # None
  <2>1. pc[s] = "replacing" /\ Target(s) \in Paths
    BY DEF Replace, Stages, SaveRequests, Target
  <2> QED BY <2>1, SaveAssumption
          DEF Stages, ReplacesOnce, TypeOK, NeverHalfWritten, Bytes
<1>1. \A t \in Savers \ {s} : t \notin stale' /\ pc[t] \in Watching =>
        t \notin stale /\ fs'[Target(t)] = fs[Target(t)]
  BY <1>0 DEF Replace, Change, Looking, Stages, SaveRequests, Target, TypeOK, Watching, Looked,
                     Guarded, Copied
<1>2. s \notin stale' => s \notin stale
  BY DEF Replace, Change
<1>3. TypeOK'
  BY <1>0, SaveAssumption DEF TypeOK, Replace, Change, Looking, PcValues, Watching, Outcomes, Bytes
<1>4. NeverHalfWritten'
  BY <1>0, SaveAssumption DEF TypeOK, NeverHalfWritten, Replace, Change, Bytes
<1>5. Stages'
  BY <1>0 DEF TypeOK, Stages, Target, Replace, Change, Bytes
<1>6. Watched'
  BY <1>0, <1>1 DEF TypeOK, Watched, Licensed, SourceBound, Target, Watching, Looked, Guarded,
                    Copied, Replace, Change
<1>7. ReplacesOnce'
  BY <1>0 DEF TypeOK, ReplacesOnce, Replace
<1>8. \A name : Shared(name)' <=> Shared(name)
  BY DEF Shared, Replace
<1>9. GuardArmed'
  BY <1>0, <1>1 DEF TypeOK, GuardArmed, Target, Watching, Looked, Guarded, Copied, Replace
<1>10. BackupExact'
  <2>1. ASSUME NEW t \in Savers \ {s}, t \notin stale', kept[t] # None, ~Shared(kept[t])
        PROVE  /\ pc'[t] \in Copied => backups'[kept[t]] = fs'[Target(t)]
               /\ result'[t] = "Saved" => backups'[kept[t]] = replaced'[t]
    <3>1. pc'[t] = pc[t] /\ result'[t] = result[t] /\ replaced'[t] = replaced[t] /\ backups' = backups
      BY <2>1 DEF Replace, TypeOK
    <3>2. t \notin stale
      BY <2>1 DEF Replace, Change
    <3> QED BY <1>1, <2>1, <3>1, <3>2 DEF BackupExact, Watching, Looked, Guarded
  <2>2. ASSUME s \notin stale', kept[s] # None, ~Shared(kept[s])
        PROVE  backups'[kept[s]] = replaced'[s] /\ pc'[s] = "returned"
    BY <1>0, <1>2, <2>2 DEF BackupExact, Copied, Replace, TypeOK
  <2>3. kept' = kept /\ request' = request
    BY DEF Replace
  <2> QED BY <1>8, <2>1, <2>2, <2>3 DEF BackupExact, Copied, Target
<1>11. CancelledLeavesNothing'
  BY <1>0, <1>8 DEF TypeOK, CancelledLeavesNothing, Replace, Outcomes
<1>12. TruncatedBackupsExplained'
  <2>1. pc[s] # "copying" /\ result[s] # "IoFailure"
    BY <1>0, SaveAssumption DEF Outcomes
  <2>2. \A t \in Savers : pc[t] = "copying" \/ result[t] = "IoFailure" =>
                         pc'[t] = "copying" \/ result'[t] = "IoFailure"
    BY <2>1 DEF TypeOK, Replace
  <2>3. kept' = kept /\ backups' = backups
    BY DEF Replace
  <2> QED BY <2>2, <2>3 DEF TruncatedBackupsExplained
<1>13. ResaveFindsNoChange'
  BY <1>0 DEF TypeOK, ResaveFindsNoChange, Replace
<1> QED BY <1>3, <1>4, <1>5, <1>6, <1>7, <1>9, <1>10, <1>11, <1>12, <1>13

\* The initial states satisfy the invariant.
LEMMA InitIInv == Init => IInv
<1> SUFFICES ASSUME Init PROVE IInv
  OBVIOUS
<1> USE SaveAssumption DEF Init
<1>1. TypeOK
  BY DEF TypeOK, Bytes, PcValues, Watching, BackupNames
<1>2. NeverHalfWritten /\ Stages /\ Watched /\ ReplacesOnce
  BY DEF NeverHalfWritten, Stages, Watched, ReplacesOnce, Looked, Guarded, Copied, Outcomes
<1>3. GuardArmed /\ BackupExact
  BY DEF GuardArmed, BackupExact, Guarded, Copied, Outcomes
<1>4. CancelledLeavesNothing /\ ResaveFindsNoChange
  BY DEF CancelledLeavesNothing, ResaveFindsNoChange
<1>5. TruncatedBackupsExplained
  BY DEF TruncatedBackupsExplained
<1> QED BY <1>1, <1>2, <1>3, <1>4, <1>5 DEF IInv

\* Every step keeps the invariant.
LEMMA NextIInv == IInv /\ [Next]_vars => IInv'
<1> SUFFICES ASSUME IInv, [Next]_vars PROVE IInv'
  OBVIOUS
<1>1. CASE UNCHANGED vars
  <2> USE <1>1 DEF vars, files, snapshot, call, history
  <2>1. TypeOK' /\ NeverHalfWritten' /\ Stages'
    BY DEF IInv, TypeOK, NeverHalfWritten, Stages, Target
  <2>2. Watched' /\ ReplacesOnce' /\ GuardArmed'
    BY DEF IInv, Watched, Licensed, SourceBound, Target, ReplacesOnce, GuardArmed
  <2>3. \A name : Shared(name)' <=> Shared(name)
    BY DEF Shared
  <2>4. BackupExact' /\ CancelledLeavesNothing'
    BY <2>3 DEF IInv, BackupExact, CancelledLeavesNothing, Target
  <2>5. TruncatedBackupsExplained' /\ ResaveFindsNoChange'
    BY DEF IInv, TruncatedBackupsExplained, ResaveFindsNoChange
  <2> QED BY <2>1, <2>2, <2>4, <2>5 DEF IInv
<1>2. CASE \/ \E p \in Paths : ForeignChange(p)
           \/ \E s \in Savers : Cancel(s) \/ Load(s) \/ Save(s) \/ Resave(s)
  BY <1>2, OutsideIInv
<1>3. ASSUME NEW s \in Savers,
             \/ SaveChecks(s) \/ Inspect(s) \/ CheckSource(s) \/ OpenSource(s) \/ Compare(s)
             \/ CancelledMidway(s) \/ LastCheck(s) \/ Fail(s)
      PROVE  IInv'
  BY <1>3, ChecksIInv
<1>4. ASSUME NEW s \in Savers, StartBackup(s) \/ OpenBackup(s) \/ FinishBackup(s)
                               \/ OpenTemp(s) \/ WriteTemp(s)
      PROVE  IInv'
  BY <1>4, CopyIInv
<1>5. ASSUME NEW s \in Savers, Replace(s) PROVE IInv'
  BY <1>5, ReplaceIInv
<1> QED BY <1>1, <1>2, <1>3, <1>4, <1>5 DEF Next

\* IInv holds always, for any number of savers, paths and stamps (application.cpp, save and
\* commit).
THEOREM SpecIInv == Spec => []IInv
<1> QED BY InitIInv, NextIInv, PTL DEF Spec

\* No torrent is ever found half-written: a temporary file is renamed only when it is whole.
THEOREM SpecNeverHalfWritten == Spec => []NeverHalfWritten
<1>1. IInv => NeverHalfWritten
  BY DEF IInv
<1> QED BY <1>1, SpecIInv, PTL

\* A save that was cancelled leaves neither its temporary file nor its backup.
THEOREM SpecCancelledLeavesNothing == Spec => []CancelledLeavesNothing
<1>1. IInv => CancelledLeavesNothing
  BY DEF IInv
<1> QED BY <1>1, SpecIInv, PTL

\* A backup holds the bytes that were replaced, and a truncated one has its reason.
THEOREM SpecBackupHoldsReplaced == Spec => []BackupHoldsReplaced
<1>1. IInv => BackupHoldsReplaced
  <2> SUFFICES ASSUME IInv PROVE BackupHoldsReplaced
    OBVIOUS
  <2> QED BY DEF IInv, BackupHoldsReplaced, BackupExact, GuardArmed
<1> QED BY <1>1, SpecIInv, PTL

\* A snapshot that was saved finds nothing to do when it is saved again.
THEOREM SpecResaveFindsNoChange == Spec => []ResaveFindsNoChange
<1>1. IInv => ResaveFindsNoChange
  BY DEF IInv
<1> QED BY <1>1, SpecIInv, PTL

\* A save replaces nothing, the bytes it was loaded from, or what it was told to overwrite,
\* unless somebody changed the target behind its back; and nothing once it was cancelled.
THEOREM SpecReplacesOnlyLicensed == Spec => ReplacesOnlyLicensed
<1>1. ASSUME IInv, [Next]_vars, NEW s \in Savers
      PROVE  KeepsTheUnlicensed(s)
  <2>1. Replace(s) => Licensed(s)
    BY <1>1 DEF IInv, Watched, Replace, Looked, Guarded, Copied
  <2>2. ASSUME s \in cancelled, pc[s] # "replacing" PROVE pc'[s] # "replacing"
    <3>1. CASE UNCHANGED vars
      BY <2>2, <3>1 DEF vars, call
    <3>2. CASE \/ \E p \in Paths : ForeignChange(p)
               \/ \E t \in Savers : Cancel(t) \/ Load(t) \/ Save(t) \/ Resave(t)
      BY <1>1, <2>2, <3>2
         DEF IInv, TypeOK, ForeignChange, Cancel, Load, Save, Resave, call
    <3>3. ASSUME NEW t \in Savers, \/ SaveChecks(t) \/ Inspect(t) \/ Fail(t)
                                   \/ CheckSource(t) \/ OpenSource(t) \/ Compare(t)
          PROVE  pc'[s] # "replacing"
      BY <1>1, <2>2, <3>3 DEF IInv, TypeOK, SaveChecks, Inspect, CheckSource, OpenSource, Compare,
                              Fail, Return, Advance
    <3>4. ASSUME NEW t \in Savers, StartBackup(t) \/ OpenBackup(t) \/ FinishBackup(t)
                                   \/ OpenTemp(t) \/ WriteTemp(t)
          PROVE  pc'[s] # "replacing"
      BY <1>1, <2>2, <3>4 DEF IInv, TypeOK, StartBackup, OpenBackup, FinishBackup, OpenTemp,
                              WriteTemp, Return, Advance
    <3>5. ASSUME NEW t \in Savers, CancelledMidway(t) \/ LastCheck(t) \/ Replace(t)
          PROVE  pc'[s] # "replacing"
      BY <1>1, <2>2, <3>5 DEF IInv, TypeOK, CancelledMidway, LastCheck, Replace, Return, Advance
    <3> QED BY <1>1, <3>1, <3>2, <3>3, <3>4, <3>5 DEF Next
  <2> QED BY <2>1, <2>2 DEF KeepsTheUnlicensed
<1>2. IInv /\ [Next]_vars => [\A s \in Savers : KeepsTheUnlicensed(s)]_vars
  BY <1>1
<1> QED BY <1>2, SpecIInv, PTL DEF Spec, ReplacesOnlyLicensed
=============================================================================
