----------------------------- MODULE TorrentCreate -----------------------------
(***************************************************************************)
(* TorrentEngine::create over LibtorrentAdapter::create                    *)
(* (src/torrent_engine.cpp, src/libtorrent_adapter.cpp): calls in one or   *)
(* several processes create the same target, while another program may put *)
(* a file there or take it away, the user may cancel, an operation may     *)
(* fail and a process may be killed.                                       *)
(*                                                                         *)
(* A file is an inode with Chunks written pieces, each named by its        *)
(* writer; a directory entry and an open stream refer to an inode, so a    *)
(* file can be renamed while it is being written.  This is the build for   *)
(* POSIX: commit_file renames, and ignores allow_overwrite.                *)
(***************************************************************************)
EXTENDS Integers

CONSTANTS
    Calls,          \* calls of create, all for one target
    Processes,      \* the programs they may run in
    Pieces,         \* pieces the content is hashed in
    Chunks,         \* bounded writes one encoded torrent takes
    MaxSiblings,    \* bound on the names a process takes
    Target,         \* the target's name; a temporary sibling's name is its number
    Prior, Foreign, \* the file at the target from the start, and another program's
    Hole,           \* a part of a file nobody has written since it was truncated
    None            \* no file, no name, not set

ASSUME CreateAssumption ==
    /\ Pieces \in Nat /\ Chunks \in Nat \ {0} /\ MaxSiblings \in Nat
    /\ {Prior, Foreign, Hole, None} \cap Calls = {}
    /\ Prior # Foreign /\ Hole \notin {Prior, Foreign, None} /\ None \notin {Prior, Foreign}
    /\ Target # None /\ Target \notin 0 .. MaxSiblings - 1 /\ None \notin 0 .. MaxSiblings - 1

VARIABLES
    directory,   \* the inode each name refers to
    content,     \* who wrote each chunk of an inode
    sequence,    \* temporary_sibling's counter in each process
    process,     \* the process of each call
    allow,       \* allow_overwrite of its request
    pc,          \* where it is
    hashed,      \* pieces hashed and reported
    temp,        \* the number in its temporary sibling's name
    stream,      \* the inode its ofstream writes
    written,     \* chunks written
    result,      \* what it returned
    cancelled,   \* the calls whose token is cancelled
    foreign,     \* the other program has acted
    shared       \* calls that used one temporary name at the same time (history)

request == <<process, allow>>
call == <<pc, hashed, temp, stream, written, result>>
vars == <<directory, content, sequence, request, call, cancelled, foreign, shared>>

Siblings == 0 .. MaxSiblings - 1
Names == {Target} \cup Siblings
Inodes == Calls \cup {Prior, Foreign}
WholeBy(w) == [k \in 1 .. Chunks |-> w]
Outcomes == {"none", "Success", "Cancelled", "Conflict", "Failure"}

Init ==
    /\ \E first \in {None, Prior} :
         directory = [n \in Names |-> IF n = Target THEN first ELSE None]
    /\ content = [i \in Inodes |-> IF i \in Calls THEN WholeBy(Hole) ELSE WholeBy(i)]
    /\ sequence = [p \in Processes |-> 0]
    /\ process \in [Calls -> Processes]
    /\ allow \in [Calls -> BOOLEAN]
    /\ pc = [c \in Calls |-> "begin"]
    /\ hashed = [c \in Calls |-> 0]
    /\ temp = [c \in Calls |-> None]
    /\ stream = [c \in Calls |-> None]
    /\ written = [c \in Calls |-> 0]
    /\ result = [c \in Calls |-> "none"]
    /\ cancelled = {}
    /\ foreign = FALSE
    /\ shared = {}

Running(c) == pc[c] \notin {"returned", "killed"}

\* The other running calls whose temporary file has number n.
Users(c, n) == {d \in Calls \ {c} : Running(d) /\ temp[d] = n}

-----------------------------------------------------------------------------
(* The rest of the world *)

Cancel(c) ==
    /\ Running(c) /\ c \notin cancelled
    /\ cancelled' = cancelled \cup {c}
    /\ UNCHANGED <<directory, content, sequence, request, call, foreign, shared>>

\* Another program puts its file at the target, or removes what is there.
ForeignChange ==
    /\ ~foreign
    /\ foreign' = TRUE
    /\ \E file \in {Foreign, None} : directory' = [directory EXCEPT ![Target] = file]
    /\ UNCHANGED <<content, sequence, request, call, cancelled, shared>>

\* A process is killed: its streams are closed and no destructor runs.
Kill(p) ==
    /\ \E c \in Calls : process[c] = p /\ Running(c)
    /\ pc' = [c \in Calls |-> IF process[c] = p /\ Running(c) THEN "killed" ELSE pc[c]]
    /\ UNCHANGED <<directory, content, sequence, request, hashed, temp, stream, written,
                   result, cancelled, foreign, shared>>

-----------------------------------------------------------------------------
(* A call of create *)

Go(c, next) ==
    /\ pc' = [pc EXCEPT ![c] = next]
    /\ UNCHANGED <<result, request, cancelled, foreign>>

\* Mutant: the temporary file is removed only once it has been written.
Fail_LeavesPartial(c, outcome) ==
    /\ directory' = IF temp[c] # None /\ written[c] = Chunks
                    THEN [directory EXCEPT ![temp[c]] = None] ELSE directory
    /\ pc' = [pc EXCEPT ![c] = "returned"]
    /\ result' = [result EXCEPT ![c] = outcome]
    /\ UNCHANGED <<content, sequence, request, hashed, temp, stream, written, cancelled,
                   foreign, shared>>

\* A call that fails destroys its PendingFile, if it has come so far: the destructor
\* removes whatever has the name by now.
Fail(c, outcome) ==
    /\ directory' = IF temp[c] # None
                    THEN [directory EXCEPT ![temp[c]] = None] ELSE directory
    /\ pc' = [pc EXCEPT ![c] = "returned"]
    /\ result' = [result EXCEPT ![c] = outcome]
    /\ UNCHANGED <<content, sequence, request, hashed, temp, stream, written, cancelled,
                   foreign, shared>>

\* A step that reads the token first, and may fail.
Step(c, at, body) ==
    /\ pc[c] = at
    /\ \/ c \in cancelled /\ Fail(c, "Cancelled")
       \/ c \notin cancelled /\ (body \/ Fail(c, "Failure"))

\* The engine validates the request.
Begin(c) ==
    Step(c, "begin",
         Go(c, "checking")
         /\ UNCHANGED <<directory, content, hashed, temp, stream, written,
                        sequence, shared>>)

\* Mutant: the target is not looked at.
CheckTarget_Skipped(c) ==
    Step(c, "checking",
         Go(c, "preparing")
         /\ UNCHANGED <<directory, content, hashed, temp, stream, written,
                        sequence, shared>>)

\* The only look at the target, before the content is hashed.
CheckTarget(c) ==
    \/ /\ pc[c] = "checking"
       /\ directory[Target] # None /\ ~allow[c]
       /\ Fail(c, "Conflict") \/ Fail(c, "Failure")
    \/ /\ directory[Target] # None => allow[c]
       /\ Step(c, "checking",
               Go(c, "preparing")
               /\ UNCHANGED <<directory, content, hashed, temp, stream, written,
                              sequence, shared>>)

\* The directory is walked and its files are filtered and ordered, with a look at the
\* token at every entry; only what the files are depends on it.
Prepare(c) ==
    Step(c, "preparing",
         Go(c, "hashing")
         /\ UNCHANGED <<directory, content, hashed, temp, stream, written,
                        sequence, shared>>)

\* The backend calls back for each piece, and the callback reads the token.
HashPiece(c) ==
    /\ hashed[c] < Pieces
    /\ Step(c, "hashing",
            /\ hashed' = [hashed EXCEPT ![c] = @ + 1]
            /\ Go(c, "hashing")
            /\ UNCHANGED <<directory, content, temp, stream, written, sequence, shared>>)

\* The torrent is encoded in memory and the name of the temporary file is taken.
Generate(c) ==
    /\ hashed[c] = Pieces
    /\ Step(c, "hashing",
            LET number == sequence[process[c]]
                users == Users(c, number) IN
              /\ number < MaxSiblings
              /\ temp' = [temp EXCEPT ![c] = number]
              /\ sequence' = [sequence EXCEPT ![process[c]] = @ + 1]
              /\ shared' = IF users = {} THEN shared ELSE shared \cup users \cup {c}
              /\ Go(c, "opening")
              /\ UNCHANGED <<directory, content, hashed, stream, written>>)

\* ofstream with trunc creates the file or empties the one that has the name.
OpenTemp(c) ==
    Step(c, "opening",
         LET inode == IF directory[temp[c]] = None THEN c ELSE directory[temp[c]] IN
           /\ directory' = [directory EXCEPT ![temp[c]] = inode]
           /\ stream' = [stream EXCEPT ![c] = inode]
           /\ content' = [content EXCEPT ![inode] = WholeBy(Hole)]
           /\ Go(c, "writing")
           /\ UNCHANGED <<hashed, temp, written, sequence, shared>>)

\* Mutant: the loop writes one chunk too many.
WriteChunk_OneMore(c) ==
    /\ written[c] <= Chunks
    /\ Step(c, "writing",
            /\ written' = [written EXCEPT ![c] = @ + 1]
            /\ content' = [content EXCEPT ![stream[c]] = [@ EXCEPT ![written'[c]] = c]]
            /\ Go(c, "writing")
            /\ UNCHANGED <<directory, hashed, temp, stream, sequence, shared>>)

\* Each chunk is written after a look at the token, at the stream's own position.
WriteChunk(c) ==
    /\ written[c] < Chunks
    /\ Step(c, "writing",
            /\ written' = [written EXCEPT ![c] = @ + 1]
            /\ content' = [content EXCEPT ![stream[c]] = [@ EXCEPT ![written'[c]] = c]]
            /\ Go(c, "writing")
            /\ UNCHANGED <<directory, hashed, temp, stream, sequence, shared>>)

\* Mutant: the file is committed when the first chunk is written.
CloseTemp_Early(c) ==
    /\ written[c] > 0
    /\ Step(c, "writing",
            Go(c, "committing")
            /\ UNCHANGED <<directory, content, hashed, temp, stream, written,
                           sequence, shared>>)

\* The stream is closed and the token read for the last time.
CloseTemp(c) ==
    /\ written[c] = Chunks
    /\ Step(c, "writing",
            Go(c, "committing")
            /\ UNCHANGED <<directory, content, hashed, temp, stream, written,
                           sequence, shared>>)

\* rename: whatever has the temporary name replaces whatever is at the target.
Commit(c) ==
    /\ pc[c] = "committing"
    /\ \/ Fail(c, "Failure")
       \/ /\ directory[temp[c]] # None
          /\ directory' = [directory EXCEPT ![Target] = directory[temp[c]],
                                            ![temp[c]] = None]
          /\ pc' = [pc EXCEPT ![c] = "returned"]
          /\ result' = [result EXCEPT ![c] = "Success"]
          /\ UNCHANGED <<content, sequence, request, hashed, temp, stream, written,
                         cancelled, foreign, shared>>

CallNext(c) ==
    \/ Begin(c) \/ CheckTarget(c) \/ Prepare(c) \/ HashPiece(c) \/ Generate(c)
    \/ OpenTemp(c) \/ WriteChunk(c) \/ CloseTemp(c) \/ Commit(c)

Next ==
    \/ \E c \in Calls : CallNext(c) \/ Cancel(c)
    \/ \E p \in Processes : Kill(p)
    \/ ForeignChange

Spec == Init /\ [][Next]_vars

-----------------------------------------------------------------------------
(* Properties *)

\* The types: a call's stream refers to an inode as soon as it writes.
TypeOK ==
    /\ directory \in [Names -> Inodes \cup {None}]
    /\ content \in [Inodes -> [1 .. Chunks -> Inodes \cup {Hole}]]
    /\ sequence \in [Processes -> 0 .. MaxSiblings]
    /\ process \in [Calls -> Processes] /\ allow \in [Calls -> BOOLEAN]
    /\ pc \in [Calls -> {"begin", "checking", "preparing", "hashing", "opening",
                         "writing", "committing", "returned", "killed"}]
    /\ hashed \in [Calls -> 0 .. Pieces]
    /\ temp \in [Calls -> Siblings \cup {None}]
    /\ stream \in [Calls -> Inodes \cup {None}]
    /\ written \in [Calls -> 0 .. Chunks]
    /\ result \in [Calls -> Outcomes]
    /\ cancelled \subseteq Calls /\ shared \subseteq Calls /\ foreign \in BOOLEAN
    /\ \A c \in Calls : pc[c] = "writing" => stream[c] \in Inodes

\* What a call has written whole stays whole, and what is at the target is the whole file
\* of one writer at every moment, unless calls of different processes used one temporary
\* name at the same time: create_from_storage renames only what write_generated_torrent
\* has finished, and a file left by a killed process is no harm.
TargetWhole ==
    /\ directory[Target] # None =>
           \/ \E w \in Inodes : content[directory[Target]] = WholeBy(w)
           \/ \E d \in shared : result[d] = "Success"
    /\ \A c \in Calls \ shared :
           result[c] = "Success" => content[stream[c]] = WholeBy(c)

\* A call that has returned, however it ended, has left no temporary file, unless another
\* process used its name at the same time: PendingFile and the rename see to it
\* ("without ... leaving an owned temporary output", CONTEXT.md).
NoLeftovers ==
    \A c \in Calls \ shared :
        pc[c] = "returned" /\ stream[c] # None =>
            \A n \in Siblings : directory[n] # stream[c]

Commits(c) == result[c] = "none" /\ result'[c] = "Success"

\* A call without allow_overwrite never replaces the file that was there when it
\* started: only a file that appeared while it was hashing can be lost.
PriorIsKept ==
    [][\A c \in Calls : Commits(c) /\ ~allow[c] => directory[Target] # Prior]_vars

-----------------------------------------------------------------------------
(* What makes TargetWhole and NoLeftovers inductive *)

Writing(c) == pc[c] \in {"writing", "committing"}

\* What each stage of a call knows.
Stages ==
    \A c \in Calls :
        /\ pc[c] \in {"opening", "writing", "committing"} => temp[c] # None
        /\ pc[c] \in {"begin", "checking", "preparing", "hashing", "opening"} =>
               stream[c] = None /\ written[c] = 0
        /\ Writing(c) => stream[c] # None
        /\ pc[c] = "committing" => written[c] = Chunks
        /\ result[c] # "none" => pc[c] = "returned"
        /\ result[c] = "Success" => stream[c] # None

\* Running calls with one name know it of each other only in the history.
SharedExact ==
    \A c, d \in Calls :
        c # d /\ Running(c) /\ Running(d) /\ temp[c] # None /\ temp[c] = temp[d] => c \in shared

\* An inode has one name, siblings are the files of calls, and an inode that has ever
\* been named or opened was created by the call it is called after.
InodesNamedOnce ==
    /\ \A m, n \in Names : directory[m] # None /\ directory[m] = directory[n] => m = n
    /\ \A n \in Siblings : directory[n] \in Calls \cup {None}
    /\ \A c \in Calls : stream[c] \in Calls \cup {None}
    /\ \A c \in Calls, n \in Names : directory[n] = c => stream[c] = c
    /\ \A c, d \in Calls : stream[d] = c => stream[c] = c

\* The only sibling that can refer to the file of an open stream is the call's own, and
\* it does unless the call shares its name; what it has written is there.
StreamsOwned ==
    \A c \in Calls : Writing(c) =>
        /\ \A n \in Siblings : directory[n] = stream[c] => n = temp[c]
        /\ c \notin shared =>
               /\ directory[temp[c]] = stream[c]
               /\ \A k \in 1 .. written[c] : content[stream[c]][k] = c

\* Nobody writes any more to a file that a call has committed or that is at the target.
CommittedQuiet ==
    /\ \A c \in Calls \ shared, d \in Calls :
           result[c] = "Success" /\ Writing(d) => stream[d] # stream[c]
    /\ \/ \E d \in shared : result[d] = "Success"
       \/ \A d \in Calls : Writing(d) => stream[d] # directory[Target]
    /\ \A i \in {Prior, Foreign} : content[i] = WholeBy(i)

\* A call that may not overwrite has passed its check only if the file of the start was
\* not, or is no longer, at the target.
PriorUnseen ==
    \A c \in Calls :
        ~allow[c] /\ pc[c] \in {"preparing", "hashing", "opening", "writing", "committing"} =>
            directory[Target] # Prior

\* The inductive invariant of CreateProofs: temporary names, inodes and streams of all calls
\* stay in order, so that a call renames and removes its own file only, unless it shares
\* the name.
IInv ==
    /\ TypeOK /\ Stages /\ SharedExact /\ InodesNamedOnce /\ StreamsOwned
    /\ CommittedQuiet /\ TargetWhole /\ NoLeftovers

=============================================================================
