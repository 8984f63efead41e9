----------------------------- MODULE CreateProofs -----------------------------
(***************************************************************************)
(* TorrentCreate keeps IInv for any number of calls and processes, so that *)
(* TargetWhole and NoLeftovers hold, and a call without allow_overwrite    *)
(* never replaces the file it would have found.                            *)
(***************************************************************************)
EXTENDS TorrentCreate, TLAPS

\* What a step does that is not the failure of a call, and what a failure does.
LEMMA TypeFail ==
  ASSUME TypeOK, NEW c \in Calls, NEW outcome \in Outcomes, Fail(c, outcome)
  PROVE  TypeOK'
<1> QED BY CreateAssumption DEF Fail, request, TypeOK, Names

\* The types hold after every step, given what each stage of a call knows.
LEMMA TypeNext == TypeOK /\ Stages /\ [Next]_vars => TypeOK'
<1> SUFFICES ASSUME TypeOK, Stages, [Next]_vars PROVE TypeOK'
  OBVIOUS
<1> USE CreateAssumption
<1>f. \A c \in Calls : Fail(c, "Cancelled") \/ Fail(c, "Conflict") \/ Fail(c, "Failure") => TypeOK'
  BY TypeFail DEF Outcomes
<1>1. ASSUME NEW c \in Calls, Begin(c) PROVE TypeOK'
  BY <1>1, <1>f DEF Begin, Step, Go, request, TypeOK
<1>2. ASSUME NEW c \in Calls, CheckTarget(c) PROVE TypeOK'
  BY <1>2, <1>f DEF CheckTarget, Step, Go, request, TypeOK
<1>13. ASSUME NEW c \in Calls, Prepare(c) PROVE TypeOK'
  BY <1>13, <1>f DEF Prepare, Step, Go, request, TypeOK
<1>3. ASSUME NEW c \in Calls, HashPiece(c) PROVE TypeOK'
  <2>1. CASE UNCHANGED <<directory, content, temp, stream, written, sequence, shared>>
             /\ hashed' = [hashed EXCEPT ![c] = @ + 1] /\ Go(c, "hashing")
    <3>1. hashed[c] + 1 \in 0 .. Pieces
      BY <1>3 DEF HashPiece, TypeOK
    <3> QED BY <2>1, <3>1 DEF Go, request, TypeOK
  <2> QED BY <1>3, <1>f, <2>1 DEF HashPiece, Step
<1>4. ASSUME NEW c \in Calls, Generate(c) PROVE TypeOK'
  <2>1. CASE \E number \in {sequence[process[c]]} :
               /\ number < MaxSiblings
               /\ temp' = [temp EXCEPT ![c] = number]
               /\ sequence' = [sequence EXCEPT ![process[c]] = @ + 1]
               /\ shared' \subseteq Calls /\ Go(c, "opening")
               /\ UNCHANGED <<directory, content, hashed, stream, written>>
    <3>1. process[c] \in Processes /\ sequence[process[c]] \in 0 .. MaxSiblings - 1
      BY <2>1 DEF TypeOK
    <3> QED BY <2>1, <3>1 DEF Go, request, TypeOK, Siblings
  <2>2. Users(c, sequence[process[c]]) \subseteq Calls
    BY DEF Users
  <2> QED BY <1>4, <1>f, <2>1, <2>2 DEF Generate, Step, TypeOK
<1>5. ASSUME NEW c \in Calls, OpenTemp(c) PROVE TypeOK'
  <2>1. CASE \E inode \in {c, directory[temp[c]]} \ {None} :
               /\ directory' = [directory EXCEPT ![temp[c]] = inode]
               /\ stream' = [stream EXCEPT ![c] = inode]
               /\ content' = [content EXCEPT ![inode] = WholeBy(Hole)]
               /\ Go(c, "writing") /\ pc[c] = "opening"
               /\ UNCHANGED <<hashed, temp, written, sequence, shared>>
    <3>1. temp[c] \in Names /\ {c, directory[temp[c]]} \ {None} \subseteq Inodes
      BY <2>1 DEF TypeOK, Stages, Names, Inodes
    <3>2. WholeBy(Hole) \in [1 .. Chunks -> Inodes \cup {Hole}]
      BY DEF WholeBy
    <3> QED BY <2>1, <3>1, <3>2 DEF Go, request, TypeOK
  <2>2. c # None
    BY DEF CreateAssumption
  <2> QED BY <1>5, <1>f, <2>1, <2>2 DEF OpenTemp, Step
<1>6. ASSUME NEW c \in Calls, WriteChunk(c) PROVE TypeOK'
  <2>1. CASE /\ pc[c] = "writing"
             /\ written' = [written EXCEPT ![c] = @ + 1]
             /\ content' = [content EXCEPT ![stream[c]] = [@ EXCEPT ![written'[c]] = c]]
             /\ Go(c, "writing")
             /\ UNCHANGED <<directory, hashed, temp, stream, sequence, shared>>
    <3>1. stream[c] \in Inodes /\ written[c] + 1 \in 0 .. Chunks /\ c \in Inodes
      BY <1>6, <2>1 DEF WriteChunk, TypeOK, Inodes
    <3>2. [content[stream[c]] EXCEPT ![written'[c]] = c] \in [1 .. Chunks -> Inodes \cup {Hole}]
      BY <3>1 DEF TypeOK
    <3> QED BY <2>1, <3>1, <3>2 DEF Go, request, TypeOK
  <2> QED BY <1>6, <1>f, <2>1 DEF WriteChunk, Step
<1>7. ASSUME NEW c \in Calls, CloseTemp(c) PROVE TypeOK'
  BY <1>7, <1>f DEF CloseTemp, Step, Go, request, TypeOK
<1>8. ASSUME NEW c \in Calls, Commit(c) PROVE TypeOK'
  <2>1. CASE ~Fail(c, "Failure")
    <3>1. directory[temp[c]] \in Inodes \cup {None}
      BY <1>8 DEF Commit, Stages, TypeOK, Names
    <3> QED BY <1>8, <2>1, <3>1 DEF Commit, request, TypeOK, Outcomes, Names
  <2> QED BY <1>f, <2>1
<1>9. ASSUME NEW c \in Calls, Cancel(c) PROVE TypeOK'
  BY <1>9 DEF Cancel, call, request, TypeOK
<1>10. ASSUME NEW p \in Processes, Kill(p) PROVE TypeOK'
  BY <1>10 DEF Kill, request, TypeOK
<1>11. CASE ForeignChange
  BY <1>11 DEF ForeignChange, call, request, TypeOK, Names, Inodes
<1>12. CASE UNCHANGED vars
  BY <1>12 DEF vars, call, request, TypeOK
<1> QED
  BY <1>1, <1>2, <1>3, <1>4, <1>5, <1>6, <1>7, <1>8, <1>9, <1>10, <1>11, <1>12, <1>13
  DEF Next, CallNext

\* A fresh call knows nothing, and only the target may have a file.
LEMMA InitIInv == Init => IInv
<1> SUFFICES ASSUME Init PROVE IInv
  OBVIOUS
<1> USE CreateAssumption DEF Init
<1>1. TypeOK
  <2>1. directory \in [Names -> Inodes \cup {None}]
    BY DEF Names, Inodes
  <2>2. content \in [Inodes -> [1 .. Chunks -> Inodes \cup {Hole}]]
    BY DEF Inodes, WholeBy
  <2>3. /\ sequence \in [Processes -> 0 .. MaxSiblings]
        /\ hashed \in [Calls -> 0 .. Pieces] /\ written \in [Calls -> 0 .. Chunks]
    OBVIOUS
  <2>4. /\ temp \in [Calls -> Siblings \cup {None}] /\ stream \in [Calls -> Inodes \cup {None}]
        /\ result \in [Calls -> Outcomes]
    BY DEF Outcomes
  <2> QED BY <2>1, <2>2, <2>3, <2>4 DEF TypeOK
<1>2. Stages
  BY DEF Stages, Writing
<1>6. SharedExact
  BY DEF SharedExact
<1>7. StreamsOwned
  BY DEF StreamsOwned, Writing
<1>3. InodesNamedOnce
  BY DEF InodesNamedOnce, Names, Siblings
<1>4. CommittedQuiet /\ NoLeftovers
  BY DEF CommittedQuiet, NoLeftovers, Writing, Inodes
<1>5. TargetWhole
  <2>1. directory[Target] \in {None, Prior}
    BY DEF Names
  <2>2. content[Prior] = WholeBy(Prior) /\ Prior \in Inodes
    BY DEF Inodes
  <2> QED BY <2>1, <2>2 DEF TargetWhole
<1> QED BY <1>1, <1>2, <1>3, <1>4, <1>5, <1>6, <1>7 DEF IInv

\* A step that touches no file and no name keeps what IInv says of them.
LEMMA QuietStep ==
  ASSUME IInv, TypeOK', Stages',
         UNCHANGED <<directory, content, temp, stream, written, result, shared>>,
         \A c \in Calls : /\ Running(c)' => Running(c)
                          /\ Writing(c)' => Writing(c)
                          /\ pc'[c] = "returned" => pc[c] = "returned"
  PROVE  IInv'
<1> USE DEF IInv
<1>1. SharedExact'
  BY DEF SharedExact
<1>2. InodesNamedOnce'
  BY DEF InodesNamedOnce
<1>3. StreamsOwned'
  BY DEF StreamsOwned
<1>4. CommittedQuiet'
  BY DEF CommittedQuiet
<1>5. TargetWhole'
  BY DEF TargetWhole
<1>6. NoLeftovers'
  BY DEF NoLeftovers
<1> QED BY <1>1, <1>2, <1>3, <1>4, <1>5, <1>6

\* A failing call takes away its own file at most, or one whose users all share the name.
LEMMA FailIInv ==
  ASSUME IInv, NEW c \in Calls, NEW outcome \in Outcomes \ {"none", "Success"},
         Running(c), Fail(c, outcome)
  PROVE  IInv'
<1> USE CreateAssumption
<1>1. TypeOK'
  BY TypeFail DEF IInv
<1>t. TypeOK /\ Stages
  BY DEF IInv
<1>n. \A n \in Names : directory'[n] = directory[n] \/ (n = temp[c] /\ directory'[n] = None)
  BY <1>t DEF Fail, TypeOK
<1>u. /\ UNCHANGED <<content, temp, stream, written, shared>>
      /\ result' = [result EXCEPT ![c] = outcome] /\ pc' = [pc EXCEPT ![c] = "returned"]
  BY DEF Fail
<1>p. \A d \in Calls : /\ pc'[d] = pc[d] \/ (d = c /\ pc'[d] = "returned")
                       /\ result'[d] = result[d] \/ (d = c /\ result'[d] = outcome)
  BY <1>t, <1>u DEF TypeOK
<1>w. \A d \in Calls : Writing(d)' => Writing(d) /\ d # c
  BY <1>p, <1>u, <1>t DEF Writing, TypeOK
<1>2. Stages'
  BY <1>t, <1>u, <1>p DEF Stages, Writing, Outcomes, TypeOK
<1>3. SharedExact'
  BY <1>u, <1>p DEF SharedExact, Running, IInv
<1>4. InodesNamedOnce'
  BY <1>n, <1>u DEF InodesNamedOnce, IInv, Names
<1>5. StreamsOwned'
  <2> SUFFICES ASSUME NEW d \in Calls, Writing(d), d # c, pc'[d] = pc[d]
               PROVE  /\ \A n \in Siblings : directory'[n] = stream[d] => n = temp[d]
                      /\ d \notin shared =>
                             /\ directory'[temp[d]] = stream[d]
                             /\ \A k \in 1 .. written[d] : content[stream[d]][k] = d
    BY <1>u, <1>w, <1>p DEF StreamsOwned
  <2>1. stream[d] # None /\ temp[d] # None /\ temp[d] \in Names
    BY <1>t DEF Stages, Writing, TypeOK, Names
  <2>2. d \notin shared => temp[d] # temp[c]
    BY <2>1 DEF IInv, SharedExact, Running, Writing
  <2> QED BY <1>n, <2>1, <2>2 DEF StreamsOwned, IInv, Names
<1>6. CommittedQuiet'
  <2>1. Target # temp[c]
    BY <1>t DEF TypeOK, Siblings
  <2>2. directory'[Target] = directory[Target]
    BY <1>n, <2>1 DEF Names
  <2>3. \A d \in Calls : result'[d] = "Success" <=> result[d] = "Success"
    BY <1>p, <1>t DEF Stages, Running
  <2> QED BY <1>u, <1>w, <1>p, <2>2, <2>3, <1>t DEF CommittedQuiet, IInv, TypeOK
<1>7. TargetWhole'
  <2>1. Target # temp[c]
    BY <1>t DEF TypeOK, Siblings
  <2>2. directory'[Target] = directory[Target]
    BY <1>n, <2>1 DEF Names
  <2>3. \A d \in Calls : result'[d] = "Success" <=> result[d] = "Success"
    BY <1>p, <1>t DEF Stages, Running
  <2> QED BY <1>u, <2>2, <2>3, <1>t DEF TargetWhole, IInv, TypeOK
<1>8. NoLeftovers'
  <2> SUFFICES ASSUME NEW d \in Calls \ shared, pc'[d] = "returned", stream[d] # None,
                      NEW n \in Siblings
               PROVE  directory'[n] # stream[d]
    BY <1>u DEF NoLeftovers
  <2>1. CASE d # c
    BY <2>1, <1>n, <1>p DEF NoLeftovers, IInv, Names
  <2>2. CASE d = c
    <3>1. Writing(c)
      BY <1>t, <2>2 DEF Stages, Running, Writing, TypeOK
    <3>2. directory[n] = stream[c] => n = temp[c]
      BY <3>1 DEF StreamsOwned, IInv
    <3>3. temp[c] \in Names /\ temp[c] # None => directory'[temp[c]] = None
      BY <1>t DEF Fail, TypeOK
    <3> QED BY <2>2, <3>1, <3>2, <3>3, <1>n, <1>t DEF Names, Stages, Writing
  <2> QED BY <2>1, <2>2
<1> QED BY <1>1, <1>2, <1>3, <1>4, <1>5, <1>6, <1>7, <1>8 DEF IInv

\* The call that takes a name joins the history with the running calls that have it.
LEMMA GenerateIInv ==
  ASSUME IInv, TypeOK', NEW c \in Calls, pc[c] = "hashing",
         temp' = [temp EXCEPT ![c] = sequence[process[c]]],
         sequence[process[c]] \in Siblings,
         shared' = IF Users(c, sequence[process[c]]) = {} THEN shared
                   ELSE shared \cup Users(c, sequence[process[c]]) \cup {c},
         Go(c, "opening"), UNCHANGED <<directory, content, hashed, stream, written>>
  PROVE  IInv'
<1> DEFINE number == sequence[process[c]]
<1> USE CreateAssumption DEF IInv
<1>t. TypeOK /\ Stages
  OBVIOUS
<1>p. /\ pc'[c] = "opening" /\ temp'[c] = number /\ number # None
      /\ \A d \in Calls \ {c} : pc'[d] = pc[d] /\ temp'[d] = temp[d]
      /\ UNCHANGED result
  BY <1>t DEF Go, TypeOK, Siblings
<1>s. shared \subseteq shared' /\ \A d \in shared' \ shared : d = c \/ d \in Users(c, number)
  OBVIOUS
<1>w. \A d \in Calls : Writing(d)' => Writing(d) /\ d # c
  BY <1>p DEF Writing
<1>2. Stages'
  BY <1>t, <1>p DEF Stages, Writing
<1>3. SharedExact'
  <2> SUFFICES ASSUME NEW d \in Calls, NEW e \in Calls, d # e, Running(d)', Running(e)',
                      temp'[d] # None, temp'[d] = temp'[e]
               PROVE  d \in shared'
    BY DEF SharedExact
  <2>1. CASE d = c
    <3>1. e \in Users(c, number)
      BY <2>1, <1>p DEF Users, Running
    <3> QED BY <2>1, <3>1
  <2>2. CASE e = c
    <3>1. d \in Users(c, number)
      BY <2>2, <1>p DEF Users, Running
    <3> QED BY <3>1
  <2>3. CASE d # c /\ e # c
    BY <2>3, <1>p, <1>s DEF SharedExact, Running
  <2> QED BY <2>1, <2>2, <2>3
<1>4. InodesNamedOnce'
  BY DEF InodesNamedOnce
<1>5. StreamsOwned'
  BY <1>p, <1>s, <1>w DEF StreamsOwned
<1>r. \A d \in shared' \ shared : result[d] # "Success"
  BY <1>s, <1>t DEF Users, Running, Stages
<1>6. CommittedQuiet'
  BY <1>p, <1>s, <1>r, <1>w DEF CommittedQuiet
<1>7. TargetWhole'
  BY <1>p, <1>s, <1>r DEF TargetWhole
<1>8. NoLeftovers'
  BY <1>p, <1>s DEF NoLeftovers
<1> QED BY <1>2, <1>3, <1>4, <1>5, <1>6, <1>7, <1>8

\* Opening empties a file only the call itself or a killed one can have had.
LEMMA OpenIInv ==
  ASSUME IInv, TypeOK', NEW c \in Calls, pc[c] = "opening", NEW inode,
         inode = IF directory[temp[c]] = None THEN c ELSE directory[temp[c]],
         directory' = [directory EXCEPT ![temp[c]] = inode],
         stream' = [stream EXCEPT ![c] = inode],
         content' = [content EXCEPT ![inode] = WholeBy(Hole)],
         Go(c, "writing"), UNCHANGED <<hashed, temp, written, sequence, shared>>
  PROVE  IInv'
<1> USE CreateAssumption DEF IInv
<1>t. TypeOK /\ Stages
  OBVIOUS
<1>p. /\ pc'[c] = "writing" /\ stream'[c] = inode /\ written[c] = 0 /\ stream[c] = None
      /\ \A d \in Calls \ {c} : pc'[d] = pc[d] /\ stream'[d] = stream[d]
      /\ UNCHANGED <<result, temp, written, shared>>
  BY <1>t DEF Go, TypeOK, Stages
<1>c. temp[c] \in Siblings /\ temp[c] # None /\ temp[c] \in Names /\ Target # temp[c]
  BY <1>t DEF Stages, TypeOK, Names, Siblings
<1>i. inode \in Calls /\ inode \in Inodes /\ inode # None
  BY <1>t, <1>c DEF InodesNamedOnce, Inodes
<1>n. /\ directory'[temp[c]] = inode
      /\ \A n \in Names \ {temp[c]} : directory'[n] = directory[n] /\ directory'[n] # inode
  <2>1. \A n \in Names \ {temp[c]} : directory'[n] = directory[n]
    BY <1>t, <1>c DEF TypeOK
  <2>2. directory'[temp[c]] = inode
    BY <1>t, <1>c DEF TypeOK
  <2>3. \A n \in Names \ {temp[c]} : directory[n] # inode
    BY <1>p, <1>c, <1>i, <1>t DEF InodesNamedOnce
  <2> QED BY <2>1, <2>2, <2>3
<1>k. \A i \in Inodes \ {inode} : content'[i] = content[i]
  BY <1>t DEF TypeOK
<1>d. \A d \in Calls \ {c} : stream[d] = inode =>
         /\ d \notin shared /\ pc[d] = "returned" => FALSE
         /\ Writing(d) /\ c \notin shared => FALSE
         /\ Writing(d) /\ d \notin shared => FALSE
  <2> SUFFICES ASSUME NEW d \in Calls \ {c}, stream[d] = inode
               PROVE  /\ d \notin shared /\ pc[d] = "returned" => FALSE
                      /\ Writing(d) /\ (c \notin shared \/ d \notin shared) => FALSE
    OBVIOUS
  <2>1. directory[temp[c]] = inode
    BY <1>p, <1>i DEF InodesNamedOnce
  <2>2. d \notin shared /\ pc[d] = "returned" => FALSE
    BY <2>1, <1>c, <1>i DEF NoLeftovers
  <2>3. ASSUME Writing(d) PROVE temp[d] = temp[c]
    <3>1. \A n \in Siblings : directory[n] = stream[d] => n = temp[d]
      BY <2>3 DEF StreamsOwned
    <3> QED BY <2>1, <3>1, <1>c
  <2>4. Writing(d) => c \in shared /\ d \in shared
    BY <2>3, <1>c DEF SharedExact, Running, Writing
  <2> QED BY <2>2, <2>4
<1>2. Stages'
  BY <1>t, <1>p, <1>i, <1>c DEF Stages, Writing
<1>3. SharedExact'
  BY <1>p DEF SharedExact, Running
<1>4. InodesNamedOnce'
  <2>1. /\ \A m, n \in Names : directory'[m] # None /\ directory'[m] = directory'[n] => m = n
        /\ \A n \in Siblings : directory'[n] \in Calls \cup {None}
    BY <1>n, <1>i, <1>c DEF InodesNamedOnce, Names
  <2>2. \A d \in Calls : stream'[d] \in Calls \cup {None}
    BY <1>p, <1>i DEF InodesNamedOnce
  <2>3. stream'[inode] = inode
    BY <1>p, <1>i, <1>c DEF InodesNamedOnce
  <2>4. \A d \in Calls, n \in Names : directory'[n] = d => stream'[d] = d
    BY <1>n, <1>p, <1>i, <2>3 DEF InodesNamedOnce
  <2>5. \A d, e \in Calls : stream'[e] = d => stream'[d] = d
    BY <1>p, <1>i, <2>3 DEF InodesNamedOnce
  <2> QED BY <2>1, <2>2, <2>4, <2>5 DEF InodesNamedOnce
<1>5. StreamsOwned'
  <2> SUFFICES ASSUME NEW d \in Calls, Writing(d)'
               PROVE  /\ \A n \in Siblings : directory'[n] = stream'[d] => n = temp[d]
                      /\ d \notin shared =>
                             /\ directory'[temp[d]] = stream'[d]
                             /\ \A k \in 1 .. written[d] : content'[stream'[d]][k] = d
    BY <1>p DEF StreamsOwned
  <2>1. CASE d = c
    BY <2>1, <1>p, <1>n, <1>c DEF Names
  <2>2. CASE d # c
    <3>1. Writing(d) /\ stream'[d] = stream[d]
      BY <2>2, <1>p DEF Writing
    <3>2. temp[d] \in Names /\ temp[d] # None /\ stream[d] \in Calls /\ stream[d] \in Inodes
      BY <3>1, <1>t DEF Stages, Writing, TypeOK, Names, InodesNamedOnce, Inodes
    <3>3. d \notin shared => temp[d] # temp[c]
      BY <2>2, <3>1, <3>2 DEF SharedExact, Running, Writing
    <3>4. ASSUME NEW n \in Siblings, directory'[n] = stream[d] PROVE n = temp[d]
      <4>1. CASE n = temp[c]
        <5>1. stream[d] = inode /\ directory[temp[c]] = inode
          BY <3>4, <4>1, <1>n, <1>p, <1>i DEF InodesNamedOnce
        <5> QED BY <3>1, <5>1, <4>1, <1>c DEF StreamsOwned
      <4>2. CASE n # temp[c]
        BY <3>1, <3>4, <4>2, <1>n DEF StreamsOwned, Names
      <4> QED BY <4>1, <4>2
    <3>5. d \notin shared => stream[d] # inode
      BY <2>2, <3>1, <1>d
    <3> QED BY <3>1, <3>2, <3>3, <3>4, <3>5, <1>n, <1>k DEF StreamsOwned
  <2> QED BY <2>1, <2>2
<1>6. CommittedQuiet'
  <2>1. ASSUME NEW b \in Calls \ shared, NEW d \in Calls, result[b] = "Success", Writing(d)'
        PROVE  stream'[d] # stream'[b]
    <3>1. b # c /\ pc[b] = "returned" /\ stream'[b] = stream[b]
      BY <2>1, <1>p, <1>t DEF Stages
    <3> QED BY <2>1, <3>1, <1>p, <1>d DEF CommittedQuiet, Writing
  <2>2. \A d \in Calls : Writing(d)' /\ d # c => Writing(d) /\ stream'[d] = stream[d]
    BY <1>p DEF Writing
  <2>3. directory'[Target] = directory[Target] /\ directory[Target] # inode
    BY <1>n, <1>c DEF Names
  <2>4. \A i \in {Prior, Foreign} : content'[i] = content[i]
    BY <1>k, <1>i DEF Inodes
  <2> QED BY <2>1, <2>2, <2>3, <2>4, <1>p DEF CommittedQuiet
<1>7. TargetWhole'
  <2>1. directory'[Target] = directory[Target] /\ directory[Target] # inode
    BY <1>n, <1>c DEF Names
  <2>2. directory[Target] # None => content'[directory[Target]] = content[directory[Target]]
    BY <2>1, <1>k, <1>t DEF TypeOK, Names
  <2>3. ASSUME NEW d \in Calls \ shared, result[d] = "Success"
        PROVE  content'[stream'[d]] = WholeBy(d)
    <3>1. d # c /\ pc[d] = "returned" /\ stream[d] \in Calls /\ stream'[d] = stream[d]
      BY <2>3, <1>p, <1>t DEF Stages, InodesNamedOnce
    <3>2. stream[d] # inode
      BY <3>1, <1>d
    <3> QED BY <3>1, <3>2, <2>3, <1>k DEF TargetWhole, Inodes
  <2> QED BY <2>1, <2>2, <2>3, <1>p DEF TargetWhole
<1>8. NoLeftovers'
  <2> SUFFICES ASSUME NEW d \in Calls \ shared, pc'[d] = "returned", stream'[d] # None,
                      NEW n \in Siblings
               PROVE  directory'[n] # stream'[d]
    BY <1>p DEF NoLeftovers
  <2>1. d # c /\ pc[d] = "returned" /\ stream'[d] = stream[d]
    BY <1>p
  <2> QED BY <2>1, <1>d, <1>n DEF NoLeftovers, Names
<1> QED BY <1>2, <1>3, <1>4, <1>5, <1>6, <1>7, <1>8

\* A chunk goes to a file that neither a committed call nor the target refers to.
LEMMA WriteIInv ==
  ASSUME IInv, TypeOK', NEW c \in Calls, pc[c] = "writing", written[c] < Chunks,
         written' = [written EXCEPT ![c] = @ + 1],
         content' = [content EXCEPT ![stream[c]] = [@ EXCEPT ![written'[c]] = c]],
         Go(c, "writing"), UNCHANGED <<directory, hashed, temp, stream, sequence, shared>>
  PROVE  IInv'
<1> USE CreateAssumption DEF IInv
<1>t. TypeOK /\ Stages
  OBVIOUS
<1>p. /\ UNCHANGED <<pc, result, directory, temp, stream, shared>>
      /\ written'[c] = written[c] + 1 /\ written'[c] \in 1 .. Chunks
      /\ \A d \in Calls \ {c} : written'[d] = written[d]
  BY <1>t DEF Go, TypeOK
<1>i. stream[c] \in Calls /\ stream[c] \in Inodes /\ Writing(c)
  BY <1>t DEF Stages, Writing, InodesNamedOnce, Inodes
<1>k. /\ content'[stream[c]] = [content[stream[c]] EXCEPT ![written'[c]] = c]
      /\ \A i \in Inodes \ {stream[c]} : content'[i] = content[i]
  BY <1>t, <1>i DEF TypeOK
<1>d. \A d \in Calls \ {c} : Writing(d) /\ d \notin shared => stream[d] # stream[c]
  <2> SUFFICES ASSUME NEW d \in Calls \ {c}, Writing(d), d \notin shared, stream[d] = stream[c]
               PROVE  FALSE
    OBVIOUS
  <2>1. directory[temp[d]] = stream[c] /\ temp[d] \in Siblings /\ temp[d] # None
    BY <1>t DEF StreamsOwned, Stages, Writing, TypeOK
  <2>2. \A n \in Siblings : directory[n] = stream[c] => n = temp[c]
    BY <1>i DEF StreamsOwned
  <2>3. temp[d] = temp[c]
    BY <2>1, <2>2
  <2> QED BY <2>1, <2>3, <1>i DEF SharedExact, Running, Writing
<1>w. \A d \in Calls : Writing(d)' <=> Writing(d)
  BY <1>p DEF Writing
<1>2. Stages'
  BY <1>t, <1>p DEF Stages, Writing
<1>3. SharedExact'
  BY <1>p DEF SharedExact, Running
<1>4. InodesNamedOnce'
  BY <1>p DEF InodesNamedOnce
<1>5. StreamsOwned'
  <2>1. ASSUME NEW d \in Calls, Writing(d), d \notin shared, NEW k \in 1 .. written'[d]
        PROVE  content'[stream[d]][k] = d
    <3>1. CASE d # c
      <4>1. stream[d] # stream[c] /\ stream[d] \in Inodes /\ k \in 1 .. written[d]
        BY <2>1, <3>1, <1>d, <1>p, <1>t DEF Stages, InodesNamedOnce, Inodes
      <4> QED BY <2>1, <4>1, <1>k DEF StreamsOwned
    <3>2. CASE d = c /\ k = written'[c]
      BY <3>2, <1>k, <1>i, <1>p, <1>t DEF TypeOK
    <3>3. CASE d = c /\ k # written'[c]
      <4>1. k \in 1 .. written[c] /\ k \in 1 .. Chunks
        BY <3>3, <2>1, <1>p, <1>t DEF TypeOK
      <4>2. content'[stream[c]][k] = content[stream[c]][k]
        BY <3>3, <4>1, <1>k, <1>i, <1>p, <1>t DEF TypeOK
      <4> QED BY <2>1, <3>3, <4>1, <4>2 DEF StreamsOwned
    <3> QED BY <3>1, <3>2, <3>3
  <2> QED BY <2>1, <1>p, <1>w DEF StreamsOwned
<1>6. CommittedQuiet'
  <2>1. \A i \in {Prior, Foreign} : content'[i] = content[i]
    BY <1>k, <1>i DEF Inodes
  <2> QED BY <2>1, <1>p, <1>w DEF CommittedQuiet
<1>7. TargetWhole'
  <2>1. ASSUME NEW d \in Calls \ shared, result[d] = "Success"
        PROVE  content'[stream[d]] = WholeBy(d)
    <3>1. stream[d] # stream[c] /\ stream[d] \in Inodes
      BY <2>1, <1>i, <1>t DEF CommittedQuiet, Stages, InodesNamedOnce, Inodes
    <3> QED BY <2>1, <3>1, <1>k DEF TargetWhole
  <2>2. CASE \E d \in shared : result[d] = "Success"
    BY <2>1, <2>2, <1>p DEF TargetWhole
  <2>3. CASE ~ \E d \in shared : result[d] = "Success"
    <3>1. stream[c] # directory[Target]
      BY <2>3, <1>i DEF CommittedQuiet
    <3>2. directory[Target] # None => content'[directory[Target]] = content[directory[Target]]
      BY <3>1, <1>k, <1>t DEF TypeOK, Names
    <3> QED BY <2>1, <2>3, <3>2, <1>p DEF TargetWhole
  <2> QED BY <2>2, <2>3
<1>8. NoLeftovers'
  BY <1>p DEF NoLeftovers
<1> QED BY <1>2, <1>3, <1>4, <1>5, <1>6, <1>7, <1>8

\* What a call that does not share its name renames is its own whole file, and nobody
\* else has it open.
LEMMA CommitIInv ==
  ASSUME IInv, TypeOK', NEW c \in Calls, pc[c] = "committing", directory[temp[c]] # None,
         directory' = [directory EXCEPT ![Target] = directory[temp[c]], ![temp[c]] = None],
         pc' = [pc EXCEPT ![c] = "returned"], result' = [result EXCEPT ![c] = "Success"],
         UNCHANGED <<content, temp, stream, written, shared>>
  PROVE  IInv'
<1> DEFINE inode == directory[temp[c]]
<1> USE CreateAssumption DEF IInv
<1>t. TypeOK /\ Stages
  OBVIOUS
<1>p. /\ pc'[c] = "returned" /\ result'[c] = "Success" /\ Writing(c) /\ stream[c] # None
      /\ \A d \in Calls \ {c} : pc'[d] = pc[d] /\ result'[d] = result[d]
  BY <1>t DEF TypeOK, Stages, Writing
<1>w. \A d \in Calls : Writing(d)' <=> Writing(d) /\ d # c
  BY <1>p DEF Writing
<1>c. temp[c] \in Siblings /\ temp[c] # None /\ temp[c] \in Names /\ Target # temp[c]
  BY <1>t DEF Stages, TypeOK, Names, Siblings
<1>n. /\ directory'[Target] = inode /\ directory'[temp[c]] = None
      /\ \A n \in Siblings \ {temp[c]} : directory'[n] = directory[n] /\ directory[n] # inode
      /\ \A n \in Siblings : n # Target
  <2>1. \A n \in Siblings : n # Target /\ n \in Names
    BY DEF Siblings, Names
  <2>2. Target \in Names
    BY DEF Names
  <2> QED BY <1>t, <1>c, <2>1, <2>2 DEF TypeOK, InodesNamedOnce
<1>i. inode \in Calls /\ inode \in Inodes
  BY <1>c DEF InodesNamedOnce, Inodes
<1>o. c \notin shared =>
         /\ inode = stream[c] /\ content[inode] = WholeBy(c)
         /\ \A d \in Calls \ {c} : Writing(d) => stream[d] # inode
  <2> SUFFICES ASSUME c \notin shared
               PROVE  /\ inode = stream[c] /\ content[inode] = WholeBy(c)
                      /\ \A d \in Calls \ {c} : Writing(d) => stream[d] # inode
    OBVIOUS
  <2>1. inode = stream[c] /\ \A k \in 1 .. Chunks : content[inode][k] = c
    BY <1>p, <1>t DEF StreamsOwned, Stages
  <2>2. content[inode] \in [1 .. Chunks -> Inodes \cup {Hole}]
    BY <1>i, <1>t DEF TypeOK
  <2>3. content[inode] = WholeBy(c)
    BY <2>1, <2>2 DEF WholeBy
  <2>4. ASSUME NEW d \in Calls \ {c}, Writing(d), stream[d] = inode PROVE FALSE
    <3>1. \A n \in Siblings : directory[n] = stream[d] => n = temp[d]
      BY <2>4 DEF StreamsOwned
    <3>2. temp[c] = temp[d]
      BY <3>1, <2>4, <1>c
    <3> QED BY <2>4, <3>2, <1>c, <1>p DEF SharedExact, Running, Writing
  <2> QED BY <2>1, <2>3, <2>4
<1> HIDE DEF inode
<1>2. Stages'
  BY <1>t, <1>p DEF Stages, Writing
<1>3. SharedExact'
  BY <1>p DEF SharedExact, Running
<1>4. InodesNamedOnce'
  <2>1. ASSUME NEW m \in Names, NEW n \in Names, directory'[m] # None,
               directory'[m] = directory'[n]
        PROVE  m = n
    <3>1. CASE m = Target \/ n = Target
      BY <2>1, <3>1, <1>n DEF Names
    <3>2. CASE m # Target /\ n # Target
      <4>1. m \in Siblings \ {temp[c]} /\ n \in Siblings \ {temp[c]}
        BY <2>1, <3>2, <1>n DEF Names
      <4>2. directory[m] = directory[n] /\ directory[m] # None
        BY <2>1, <4>1, <1>n
      <4> QED BY <4>2 DEF InodesNamedOnce
    <3> QED BY <3>1, <3>2
  <2>2. \A n \in Siblings : directory'[n] \in Calls \cup {None}
    BY <1>n DEF InodesNamedOnce
  <2>3. ASSUME NEW d \in Calls, NEW n \in Names, directory'[n] = d PROVE stream[d] = d
    <3>1. d # None
      BY DEF CreateAssumption
    <3>2. \E m \in Names : directory[m] = d
      BY <2>3, <3>1, <1>n, <1>c DEF Names, inode
    <3> QED BY <3>2 DEF InodesNamedOnce
  <2> QED BY <2>1, <2>2, <2>3 DEF InodesNamedOnce
<1>5. StreamsOwned'
  <2> SUFFICES ASSUME NEW d \in Calls, Writing(d)'
               PROVE  /\ \A n \in Siblings : directory'[n] = stream'[d] => n = temp'[d]
                      /\ d \notin shared' =>
                             /\ directory'[temp'[d]] = stream'[d]
                             /\ \A k \in 1 .. written'[d] : content'[stream'[d]][k] = d
    BY DEF StreamsOwned
  <2> d # c /\ Writing(d)
    BY <1>w
  <2>1. temp[d] \in Siblings /\ temp[d] # None /\ stream[d] # None
    BY <1>t DEF Stages, Writing, TypeOK
  <2>2. d \notin shared => temp[d] # temp[c]
    BY <2>1, <1>p DEF SharedExact, Running, Writing
  <2>3. ASSUME NEW n \in Siblings, directory'[n] = stream[d] PROVE n = temp[d]
    <3>1. n # temp[c] /\ directory[n] = stream[d]
      BY <2>1, <2>3, <1>n
    <3> QED BY <3>1 DEF StreamsOwned
  <2>4. ASSUME d \notin shared PROVE directory'[temp[d]] = stream[d]
    <3>1. directory[temp[d]] = stream[d]
      BY <2>4 DEF StreamsOwned
    <3> QED BY <2>1, <2>2, <2>4, <3>1, <1>n
  <2>5. d \notin shared => \A k \in 1 .. written[d] : content[stream[d]][k] = d
    BY DEF StreamsOwned
  <2> QED BY <2>3, <2>4, <2>5
<1>6. CommittedQuiet'
  <2>1. ASSUME NEW b \in Calls \ shared, NEW d \in Calls, result'[b] = "Success", Writing(d)'
        PROVE  stream[d] # stream[b]
    BY <2>1, <1>p, <1>w, <1>o DEF CommittedQuiet
  <2>2. \/ \E d \in shared : result'[d] = "Success"
        \/ \A d \in Calls : Writing(d)' => stream[d] # directory'[Target]
    BY <1>p, <1>n, <1>w, <1>o
  <2> QED BY <2>1, <2>2 DEF CommittedQuiet
<1>7. TargetWhole'
  <2>1. \/ \E w \in Inodes : content[directory'[Target]] = WholeBy(w)
        \/ \E d \in shared : result'[d] = "Success"
    BY <1>p, <1>n, <1>o DEF Inodes
  <2>2. \A d \in Calls \ shared : result'[d] = "Success" => content[stream[d]] = WholeBy(d)
    BY <1>p, <1>o DEF TargetWhole
  <2> QED BY <2>1, <2>2 DEF TargetWhole
<1>8. NoLeftovers'
  <2> SUFFICES ASSUME NEW d \in Calls \ shared, pc'[d] = "returned", stream[d] # None,
                      NEW n \in Siblings
               PROVE  directory'[n] # stream[d]
    BY DEF NoLeftovers
  <2>1. CASE d = c
    <3>1. CASE n = temp[c]
      BY <3>1, <1>n
    <3>2. CASE n # temp[c]
      BY <2>1, <3>2, <1>n, <1>o
    <3> QED BY <3>1, <3>2
  <2>2. CASE d # c
    <3>1. directory[n] # stream[d]
      BY <2>2, <1>p DEF NoLeftovers
    <3> QED BY <3>1, <1>n
  <2> QED BY <2>1, <2>2
<1> QED BY <1>2, <1>3, <1>4, <1>5, <1>6, <1>7, <1>8

\* Every step keeps the invariant: failing and quiet steps by their lemmas, the four that
\* touch names or files by theirs.
LEMMA NextIInv == IInv /\ [Next]_vars => IInv'
<1> SUFFICES ASSUME IInv, [Next]_vars PROVE IInv'
  OBVIOUS
<1> USE CreateAssumption
<1>t. TypeOK /\ Stages /\ TypeOK'
  BY TypeNext DEF IInv
<1>f. \A c \in Calls : Running(c) /\ (\/ Fail(c, "Cancelled") \/ Fail(c, "Conflict")
                                      \/ Fail(c, "Failure")) => IInv'
  BY FailIInv DEF Outcomes
<1>g. ASSUME NEW c \in Calls, NEW next \in {"checking", "preparing", "hashing", "committing"},
             pc[c] \in {"begin", "checking", "preparing", "hashing", "writing"},
             next = "committing" <=> pc[c] = "writing",
             next = "committing" => written[c] = Chunks, Go(c, next),
             UNCHANGED <<directory, content, temp, stream, written, sequence, shared>>
      PROVE  IInv'
  <2>1. /\ pc'[c] = next /\ \A d \in Calls \ {c} : pc'[d] = pc[d]
        /\ UNCHANGED result
    BY <1>g, <1>t DEF Go, TypeOK
  <2>2. Stages'
    BY <1>g, <1>t, <2>1 DEF Stages, Writing
  <2>3. \A d \in Calls : /\ Running(d)' => Running(d)
                         /\ Writing(d)' => Writing(d)
                         /\ pc'[d] = "returned" => pc[d] = "returned"
    BY <1>g, <2>1 DEF Running, Writing
  <2> QED BY <1>g, <1>t, <2>1, <2>2, <2>3, QuietStep
<1>1. ASSUME NEW c \in Calls, Begin(c) PROVE IInv'
  BY <1>1, <1>f, <1>g DEF Begin, Step, Running
<1>2. ASSUME NEW c \in Calls, CheckTarget(c) PROVE IInv'
  BY <1>2, <1>f, <1>g DEF CheckTarget, Step, Running
<1>13. ASSUME NEW c \in Calls, Prepare(c) PROVE IInv'
  BY <1>13, <1>f, <1>g DEF Prepare, Step, Running
<1>3. ASSUME NEW c \in Calls, HashPiece(c) PROVE IInv'
  BY <1>3, <1>f, <1>g DEF HashPiece, Step, Running
<1>4. ASSUME NEW c \in Calls, Generate(c) PROVE IInv'
  <2>1. sequence[process[c]] < MaxSiblings => sequence[process[c]] \in Siblings
    BY <1>t DEF TypeOK, Siblings
  <2> QED BY <1>4, <1>f, <1>t, <2>1, GenerateIInv DEF Generate, Step, Running
<1>5. ASSUME NEW c \in Calls, OpenTemp(c) PROVE IInv'
  BY <1>5, <1>f, <1>t, OpenIInv DEF OpenTemp, Step, Running
<1>6. ASSUME NEW c \in Calls, WriteChunk(c) PROVE IInv'
  BY <1>6, <1>f, <1>t, WriteIInv DEF WriteChunk, Step, Running
<1>7. ASSUME NEW c \in Calls, CloseTemp(c) PROVE IInv'
  BY <1>7, <1>f, <1>g DEF CloseTemp, Step, Running
<1>8. ASSUME NEW c \in Calls, Commit(c) PROVE IInv'
  BY <1>8, <1>f, <1>t, CommitIInv DEF Commit, Running
<1>9. ASSUME NEW c \in Calls, Cancel(c) PROVE IInv'
  <2>1. Stages'
    BY <1>9, <1>t DEF Cancel, call, Stages, Writing
  <2>2. \A d \in Calls : /\ Running(d)' => Running(d)
                         /\ Writing(d)' => Writing(d)
                         /\ pc'[d] = "returned" => pc[d] = "returned"
    BY <1>9 DEF Cancel, call, Running, Writing
  <2> QED BY <1>9, <1>t, <2>1, <2>2, QuietStep DEF Cancel, call
<1>10. ASSUME NEW p \in Processes, Kill(p) PROVE IInv'
  <2>1. \A d \in Calls : \/ pc'[d] = pc[d]
                         \/ pc'[d] = "killed" /\ Running(d)
    BY <1>10 DEF Kill, Running
  <2>2. UNCHANGED <<directory, content, temp, stream, written, result, shared>>
    BY <1>10 DEF Kill
  <2>3. Stages'
    BY <1>t, <2>1, <2>2 DEF Stages, Writing, Running
  <2>4. \A d \in Calls : /\ Running(d)' => Running(d)
                         /\ Writing(d)' => Writing(d)
                         /\ pc'[d] = "returned" => pc[d] = "returned"
    BY <2>1 DEF Running, Writing
  <2> QED BY <1>t, <2>2, <2>3, <2>4, QuietStep
<1>11. CASE ForeignChange
  <2>1. PICK file \in {Foreign, None} : directory' = [directory EXCEPT ![Target] = file]
    BY <1>11 DEF ForeignChange
  <2>2. UNCHANGED <<content, pc, temp, stream, written, result, shared>>
    BY <1>11 DEF ForeignChange, call
  <2>3. /\ directory'[Target] = file
        /\ \A n \in Siblings : n # Target /\ n \in Names /\ directory'[n] = directory[n]
    BY <2>1, <1>t DEF TypeOK, Names, Siblings
  <2>4. Stages' /\ SharedExact'
    BY <1>t, <2>2 DEF Stages, SharedExact, Writing, Running, IInv
  <2>5. InodesNamedOnce'
    <3>1. file \notin Calls
      OBVIOUS
    <3>2. \A n \in Siblings : directory'[n] # Foreign /\ directory'[n] \in Calls \cup {None}
      BY <2>3 DEF InodesNamedOnce, IInv
    <3>3. ASSUME NEW m \in Names, NEW n \in Names, directory'[m] # None,
                 directory'[m] = directory'[n]
          PROVE  m = n
      BY <2>3, <3>2, <3>3 DEF InodesNamedOnce, IInv, Names
    <3>4. \A d \in Calls, n \in Names : directory'[n] = d => stream'[d] = d
      BY <2>2, <2>3, <3>1 DEF InodesNamedOnce, IInv, Names
    <3> QED BY <2>2, <3>2, <3>3, <3>4 DEF InodesNamedOnce, IInv
  <2>6. StreamsOwned'
    <3>1. \A d \in Calls : Writing(d) => temp[d] \in Siblings
      BY <1>t DEF Stages, Writing, TypeOK
    <3>2. \A d \in Calls : Writing(d)' <=> Writing(d)
      BY <2>2 DEF Writing
    <3> QED BY <2>2, <2>3, <3>1, <3>2 DEF StreamsOwned, IInv
  <2>7. CommittedQuiet'
    <3>1. \A d \in Calls : Writing(d)' <=> Writing(d)
      BY <2>2 DEF Writing
    <3>2. \A d \in Calls : Writing(d) => stream[d] # file
      BY <1>t DEF Stages, InodesNamedOnce, IInv
    <3> QED BY <2>2, <2>3, <3>1, <3>2 DEF CommittedQuiet, IInv
  <2>8. TargetWhole'
    BY <2>2, <2>3 DEF TargetWhole, CommittedQuiet, IInv, Inodes
  <2>9. NoLeftovers'
    BY <2>2, <2>3 DEF NoLeftovers, IInv
  <2> QED BY <1>t, <2>4, <2>5, <2>6, <2>7, <2>8, <2>9 DEF IInv
<1>12. CASE UNCHANGED vars
  <2>1. UNCHANGED <<directory, content, pc, temp, stream, written, result, shared>>
    BY <1>12 DEF vars, call
  <2> QED BY <1>t, <2>1, QuietStep DEF Stages, Running, Writing
<1> QED
  BY <1>1, <1>2, <1>3, <1>4, <1>5, <1>6, <1>7, <1>8, <1>9, <1>10, <1>11, <1>12, <1>13
  DEF Next, CallNext

\* The invariant holds of every behaviour, for every number of calls and processes.
THEOREM SpecIInv == Spec => []IInv
<1> QED BY InitIInv, NextIInv, PTL DEF Spec

\* What create has written, and what is at the target, is always whole, unless calls of
\* different processes used one temporary name at the same time.
THEOREM SpecTargetWhole == Spec => []TargetWhole
<1>1. IInv => TargetWhole
  BY DEF IInv
<1> QED BY <1>1, SpecIInv, PTL

\* A call that has returned has left no temporary file of its own behind.
THEOREM SpecNoLeftovers == Spec => []NoLeftovers
<1>1. IInv => NoLeftovers
  BY DEF IInv
<1> QED BY <1>1, SpecIInv, PTL

\* The file of the start never comes back to the target, and only a check of the target
\* leads to hashing.
LEMMA TargetSteps ==
  ASSUME IInv, [Next]_vars
  PROVE  /\ directory'[Target] = Prior => directory[Target] = Prior
         /\ UNCHANGED allow
         /\ \A c \in Calls :
                pc'[c] \in {"preparing", "hashing", "opening", "writing", "committing"} =>
                    \/ pc[c] \in {"preparing", "hashing", "opening", "writing", "committing"}
                    \/ directory'[Target] = directory[Target] /\ (directory[Target] # None => allow[c])
<1> DEFINE Good == /\ directory'[Target] = Prior => directory[Target] = Prior
                   /\ UNCHANGED allow
                   /\ \A c \in Calls :
                          pc'[c] \in {"preparing", "hashing", "opening", "writing", "committing"} =>
                              \/ pc[c] \in {"preparing", "hashing", "opening", "writing", "committing"}
                              \/ /\ directory'[Target] = directory[Target]
                                 /\ directory[Target] # None => allow[c]
<1> SUFFICES Good
  OBVIOUS
<1> USE CreateAssumption
<1>t. TypeOK /\ Stages /\ InodesNamedOnce /\ Target \in Names /\ Target \notin Siblings
  BY DEF IInv, Names, Siblings
<1>f. \A c \in Calls : (\/ Fail(c, "Cancelled") \/ Fail(c, "Conflict")
                        \/ Fail(c, "Failure")) => Good
  BY <1>t DEF Fail, request, TypeOK
<1>g. \A c \in Calls, next \in {"checking", "opening", "writing", "committing"} :
         Go(c, next) /\ UNCHANGED directory
         /\ pc[c] \in {"begin", "hashing", "opening", "writing"}
         /\ (pc[c] = "begin" => next = "checking") => Good
  BY <1>t DEF Go, request, TypeOK
<1>1. ASSUME NEW c \in Calls, Begin(c) PROVE Good
  BY <1>1, <1>f, <1>g DEF Begin, Step
<1>2. ASSUME NEW c \in Calls, CheckTarget(c) PROVE Good
  <2>1. CASE Go(c, "preparing") /\ UNCHANGED directory /\ (directory[Target] # None => allow[c])
    BY <2>1, <1>t DEF Go, request, TypeOK
  <2> QED BY <1>2, <1>f, <2>1 DEF CheckTarget, Step
<1>13. ASSUME NEW c \in Calls, Prepare(c) PROVE Good
  <2>1. CASE Go(c, "hashing") /\ UNCHANGED directory /\ pc[c] = "preparing"
    BY <2>1, <1>t DEF Go, request, TypeOK
  <2> QED BY <1>13, <1>f, <2>1 DEF Prepare, Step
<1>3. ASSUME NEW c \in Calls, HashPiece(c) PROVE Good
  <2>1. CASE Go(c, "hashing") /\ UNCHANGED directory /\ pc[c] = "hashing"
    BY <2>1, <1>t DEF Go, request, TypeOK
  <2> QED BY <1>3, <1>f, <2>1 DEF HashPiece, Step
<1>4. ASSUME NEW c \in Calls, Generate(c) PROVE Good
  BY <1>4, <1>f, <1>g DEF Generate, Step
<1>5. ASSUME NEW c \in Calls, OpenTemp(c) PROVE Good
  <2>1. CASE /\ Go(c, "writing") /\ pc[c] = "opening"
             /\ \E inode : directory' = [directory EXCEPT ![temp[c]] = inode]
    <3>1. temp[c] # Target
      BY <2>1, <1>t DEF Stages, TypeOK
    <3> QED BY <2>1, <3>1, <1>t DEF Go, request, TypeOK
  <2> QED BY <1>5, <1>f, <2>1 DEF OpenTemp, Step
<1>6. ASSUME NEW c \in Calls, WriteChunk(c) PROVE Good
  BY <1>6, <1>f, <1>g DEF WriteChunk, Step
<1>7. ASSUME NEW c \in Calls, CloseTemp(c) PROVE Good
  BY <1>7, <1>f, <1>g DEF CloseTemp, Step
<1>8. ASSUME NEW c \in Calls, Commit(c) PROVE Good
  <2>1. CASE ~Fail(c, "Failure")
    <3>1. directory[temp[c]] # Prior /\ temp[c] # Target /\ temp[c] \in Names
      BY <1>8, <1>t DEF Commit, Stages, TypeOK, InodesNamedOnce, Names
    <3>2. directory'[Target] = directory[temp[c]]
      BY <1>8, <2>1, <3>1, <1>t DEF Commit, TypeOK
    <3> QED BY <1>8, <2>1, <3>1, <3>2, <1>t DEF Commit, request, TypeOK
  <2> QED BY <1>f, <2>1
<1>9. ASSUME NEW c \in Calls, Cancel(c) PROVE Good
  BY <1>9 DEF Cancel, call, request
<1>10. ASSUME NEW p \in Processes, Kill(p) PROVE Good
  BY <1>10 DEF Kill, request
<1>11. CASE ForeignChange
  BY <1>11, <1>t DEF ForeignChange, call, request, TypeOK
<1>12. CASE UNCHANGED vars
  BY <1>12 DEF vars, call, request
<1> QED
  BY <1>1, <1>2, <1>3, <1>4, <1>5, <1>6, <1>7, <1>8, <1>9, <1>10, <1>11, <1>12, <1>13
  DEF Next, CallNext

\* A call without allow_overwrite never replaces the file that was at the target from
\* the start, whatever the other calls and programs do meanwhile.
THEOREM SpecPriorIsKept == Spec => PriorIsKept
<1>1. Init => PriorUnseen
  BY DEF Init, PriorUnseen
<1>2. IInv /\ PriorUnseen /\ [Next]_vars => PriorUnseen'
  BY TargetSteps, CreateAssumption DEF PriorUnseen
<1>3. IInv /\ PriorUnseen /\ [Next]_vars
      => [\A c \in Calls : Commits(c) /\ ~allow[c] => directory[Target] # Prior]_vars
  <2> SUFFICES ASSUME IInv, PriorUnseen, [Next]_vars, NEW c \in Calls, Commits(c), ~allow[c]
               PROVE  directory[Target] # Prior
    OBVIOUS
  <2>1. TypeOK
    BY DEF IInv
  <2>2. \A d \in Calls, outcome \in {"Cancelled", "Conflict", "Failure"} :
           Fail(d, outcome) => result'[c] # "Success" \/ result[c] = "Success"
    BY <2>1 DEF Fail, TypeOK
  <2>3. pc[c] = "committing"
    <3>1. ASSUME NEW d \in Calls, Commit(d) PROVE pc[c] = "committing"
      BY <3>1, <2>1, <2>2 DEF Commits, Commit, TypeOK
    <3>2. ASSUME NEW d \in Calls,
                 \/ Begin(d) \/ CheckTarget(d) \/ Prepare(d) \/ HashPiece(d) \/ Generate(d)
                 \/ OpenTemp(d) \/ WriteChunk(d) \/ CloseTemp(d)
          PROVE  FALSE
      <4>1. UNCHANGED result \/ Fail(d, "Cancelled") \/ Fail(d, "Conflict") \/ Fail(d, "Failure")
        BY <3>2 DEF Begin, CheckTarget, Prepare, HashPiece, Generate, OpenTemp, WriteChunk,
                    CloseTemp, Step, Go
      <4> QED BY <4>1, <2>2 DEF Commits
    <3>3. ASSUME UNCHANGED result PROVE FALSE
      BY <3>3 DEF Commits
    <3> QED BY <3>1, <3>2, <3>3
            DEF Next, CallNext, Cancel, Kill, ForeignChange, vars, call
  <2> QED BY <2>3 DEF PriorUnseen
<1> QED BY <1>1, <1>2, <1>3, SpecIInv, PTL DEF Spec, PriorIsKept

=============================================================================
