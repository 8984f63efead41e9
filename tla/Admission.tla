------------------------------ MODULE Admission ------------------------------
(***************************************************************************)
(* AdmissionControlledVerifier::verify over one shared                     *)
(* VerificationAdmissionController (src/verification_admission_controller  *)
(* .cpp).  A caller is one call of verify with a ticket and a cancellation *)
(* token of its own.                                                       *)
(*                                                                         *)
(* The admission mutex is a variable because the cancellation callback     *)
(* notifies WITHOUT it: a cancel() can come between a waiter's look at its *)
(* token and its wait.  The callback itself is the one promised by module  *)
(* Cancellation: it runs once, after the token is cancelled, and the       *)
(* destructor of the registration waits for it.                            *)
(***************************************************************************)
EXTENDS Integers, Sequences, FiniteSets

CONSTANTS
    Callers,      \* calls of verify that share the controller
    Setups,       \* capacities of the controller, each with the callers that may be cancelled
    Nobody        \* the mutex is free

ASSUME AdmissionAssumption ==
    /\ IsFiniteSet(Callers)
    /\ Setups \subseteq [capacity : Nat \ {0},    \* create() rejects a zero capacity
                         cancellable : SUBSET Callers]
    /\ Nobody \notin Callers

VARIABLES
    setup,        \* the one of the Setups that is the case
    available,    \* State::available
    queue,        \* State::queue, the tickets of the waiting callers
    skipped,      \* how far a pop_front on the empty deque has moved its start past its end
    mutex,        \* who holds State::mutex
    pc,           \* where each caller is
    cancelled,    \* the callers whose token is cancelled
    registered,   \* the callers whose cancellation callback is subscribed
    due,          \* callbacks a cancel() has still to run
    arrival       \* the callers in the order they queued (history)

vars == <<setup, available, queue, skipped, mutex, pc, cancelled, registered, due, arrival>>

Capacity == setup.capacity          \* VerificationAdmissionController::State::capacity
Cancellable == setup.cancellable    \* the callers whose token somebody may cancel

\* "waiting" is blocked in changed.wait, "waking" was notified and needs the mutex.
PcValues == {"idle", "subscribing", "locking", "checking", "blocking", "waiting",
             "waking", "verifying", "leaving", "refused", "verified", "cancelled"}

InLoop == {"checking", "blocking", "waiting", "waking"}
Returned == {"verified", "cancelled"}

Holders == {c \in Callers : pc[c] = "verifying"}
Waiting(c) == pc[c] \in InLoop
HasTicket(c) == \E i \in 1..Len(queue) : queue[i] = c

\* A waiting caller without a ticket in the queue: another caller erased it together with
\* its own, or it was pushed into a slot that the deque had skipped.
Lost(c) == Waiting(c) /\ ~HasTicket(c)

Init ==
    /\ setup \in Setups
    /\ available = Capacity
    /\ queue = <<>> /\ skipped = 0
    /\ mutex = Nobody
    /\ pc = [c \in Callers |-> "idle"]
    /\ cancelled = {} /\ registered = {} /\ due = {}
    /\ arrival = <<>>

\* changed.notify_all(), with the caller itself moving on to step next.
NotifyAll(c, next) ==
    pc' = [d \in Callers |-> IF d = c THEN next
                             ELSE IF pc[d] = "waiting" THEN "waking" ELSE pc[d]]

-----------------------------------------------------------------------------
(* Cancellation of a caller's token, and the callback it subscribed *)

Cancel(c) ==
    /\ c \in Cancellable \ cancelled
    /\ cancelled' = cancelled \cup {c}
    /\ due' = due \cup ({c} \cap registered)
    /\ UNCHANGED <<setup, available, queue, skipped, mutex, pc, registered, arrival>>

\* The callback: locked->changed.notify_all(), without the admission mutex.
CancelCallback(c) ==
    /\ c \in due
    /\ due' = due \ {c}
    /\ NotifyAll(Nobody, "waking")
    /\ UNCHANGED <<setup, available, queue, skipped, mutex, cancelled, registered, arrival>>

-----------------------------------------------------------------------------
(* verify *)

\* The token is looked at before anything is shared.
EntryCheck(c) ==
    /\ pc[c] = "idle"
    /\ pc' = [pc EXCEPT ![c] = IF c \in cancelled THEN "cancelled" ELSE "subscribing"]
    /\ UNCHANGED <<setup, available, queue, skipped, mutex, cancelled, registered, due, arrival>>

\* A token cancelled meanwhile runs the callback inside subscribe().
Subscribe(c) ==
    /\ pc[c] = "subscribing"
    /\ \/ /\ c \in cancelled
          /\ NotifyAll(c, "locking")
          /\ UNCHANGED registered
       \/ /\ c \notin cancelled
          /\ pc' = [pc EXCEPT ![c] = "locking"]
          /\ registered' = registered \cup {c}
    /\ UNCHANGED <<setup, available, queue, skipped, mutex, cancelled, due, arrival>>

\* push_back.  A deque whose start has gone past its end takes the ticket into a slot
\* that is skipped already: nobody will find it there.
PushTicket(c) ==
    \/ skipped = 0 /\ queue' = Append(queue, c) /\ UNCHANGED skipped
    \/ skipped > 0 /\ skipped' = skipped - 1 /\ UNCHANGED queue

\* pop_front.  On an empty deque it is undefined; the standard libraries move the start
\* one slot past the end, and one ticket pushed later falls into that slot.
PopTicket ==
    \/ queue # <<>> /\ queue' = Tail(queue) /\ UNCHANGED skipped
    \/ queue = <<>> /\ skipped' = skipped + 1 /\ UNCHANGED queue

\* Mutant: the newcomer goes to the front.
Enqueue_AtFront(c) ==
    /\ pc[c] = "locking"
    /\ mutex = Nobody
    /\ mutex' = c
    /\ queue' = <<c>> \o queue
    /\ arrival' = Append(arrival, c)
    /\ NotifyAll(c, "checking")
    /\ UNCHANGED <<setup, skipped, available, cancelled, registered, due>>

Enqueue(c) ==
    /\ pc[c] = "locking"
    /\ mutex = Nobody
    /\ mutex' = c
    /\ PushTicket(c)
    /\ arrival' = Append(arrival, c)
    /\ NotifyAll(c, "checking")
    /\ UNCHANGED <<setup, available, cancelled, registered, due>>

\* queue.erase(find(ticket), end()): the ticket and every ticket behind it.  From a start
\* past the end find is undefined, and what it finds decides what erase leaves.
EraseTicket(c) ==
    \/ \E i \in 1..Len(queue) :
         /\ queue[i] = c
         /\ queue' = SubSeq(queue, 1, i - 1)
         /\ UNCHANGED skipped
    \/ ~HasTicket(c) /\ skipped' \in 0..skipped /\ UNCHANGED queue

GiveUp(c) ==
    /\ pc[c] = "checking"
    /\ c \in cancelled
    /\ EraseTicket(c)
    /\ NotifyAll(c, "refused")
    /\ mutex' = Nobody
    /\ UNCHANGED <<setup, available, cancelled, registered, due, arrival>>

\* Mutant: a free permit is taken without looking at the queue.
FrontMatches_Any(c) == c \in Callers

\* front() == ticket.  On an empty deque front() is undefined: the slot it reads may
\* hold anything, the caller's own erased ticket included.
FrontMatches(c) == queue # <<>> => Head(queue) = c
FrontDiffers(c) == queue # <<>> => Head(queue) # c

\* Mutants: the token is not looked at again; the permits are not counted down to zero.
Admit_WhenCancelled(c) ==
    /\ pc[c] = "checking"
    /\ available # 0
    /\ FrontMatches(c)
    /\ PopTicket
    /\ available' = available - 1
    /\ pc' = [pc EXCEPT ![c] = "verifying"]
    /\ mutex' = Nobody
    /\ UNCHANGED <<setup, cancelled, registered, due, arrival>>

Admit_Unlimited(c) ==
    /\ pc[c] = "checking"
    /\ c \notin cancelled
    /\ FrontMatches(c)
    /\ PopTicket
    /\ pc' = [pc EXCEPT ![c] = "verifying"]
    /\ mutex' = Nobody
    /\ UNCHANGED <<setup, available, cancelled, registered, due, arrival>>

Admit(c) ==
    /\ pc[c] = "checking"
    /\ c \notin cancelled
    /\ available # 0
    /\ FrontMatches(c)
    /\ PopTicket
    /\ available' = available - 1
    /\ pc' = [pc EXCEPT ![c] = "verifying"]
    /\ mutex' = Nobody
    /\ UNCHANGED <<setup, cancelled, registered, due, arrival>>

MustWait(c) ==
    /\ pc[c] = "checking"
    /\ c \notin cancelled
    /\ available = 0 \/ FrontDiffers(c)
    /\ pc' = [pc EXCEPT ![c] = "blocking"]
    /\ UNCHANGED <<setup, available, queue, skipped, mutex, cancelled, registered, due, arrival>>

\* changed.wait(lock): the mutex is released and the caller blocked in one step.
Block(c) ==
    /\ pc[c] = "blocking"
    /\ pc' = [pc EXCEPT ![c] = "waiting"]
    /\ mutex' = Nobody
    /\ UNCHANGED <<setup, available, queue, skipped, cancelled, registered, due, arrival>>

SpuriousWake(c) ==
    /\ pc[c] = "waiting"
    /\ pc' = [pc EXCEPT ![c] = "waking"]
    /\ UNCHANGED <<setup, available, queue, skipped, mutex, cancelled, registered, due, arrival>>

Relock(c) ==
    /\ pc[c] = "waking"
    /\ mutex = Nobody
    /\ mutex' = c
    /\ pc' = [pc EXCEPT ![c] = "checking"]
    /\ UNCHANGED <<setup, available, queue, skipped, cancelled, registered, due, arrival>>

\* Mutants: the permit is not given back; nobody is told.
Release_Leaks(c) ==
    /\ pc[c] = "verifying"
    /\ mutex = Nobody
    /\ NotifyAll(c, "leaving")
    /\ UNCHANGED <<setup, available, queue, skipped, mutex, cancelled, registered, due, arrival>>

Release_Silent(c) ==
    /\ pc[c] = "verifying"
    /\ mutex = Nobody
    /\ available' = available + 1
    /\ pc' = [pc EXCEPT ![c] = "leaving"]
    /\ UNCHANGED <<setup, queue, skipped, mutex, cancelled, registered, due, arrival>>

\* service_.verify returned or threw: ~Permit.
Release(c) ==
    /\ pc[c] = "verifying"
    /\ mutex = Nobody
    /\ available' = available + 1
    /\ NotifyAll(c, "leaving")
    /\ UNCHANGED <<setup, queue, skipped, mutex, cancelled, registered, due, arrival>>

\* ~CancellationRegistration waits for a callback that a cancel() has claimed.
Leave(c) ==
    /\ pc[c] \in {"leaving", "refused"}
    /\ c \notin due
    /\ registered' = registered \ {c}
    /\ pc' = [pc EXCEPT ![c] = IF @ = "leaving" THEN "verified" ELSE "cancelled"]
    /\ UNCHANGED <<setup, available, queue, skipped, mutex, cancelled, due, arrival>>

-----------------------------------------------------------------------------
Step(c) ==
    \/ EntryCheck(c) \/ Subscribe(c)
    \/ GiveUp(c) \/ Admit(c) \/ MustWait(c) \/ Block(c) \/ Leave(c)
TakeMutex(c) == Enqueue(c) \/ Relock(c) \/ Release(c)

Next ==
    \E c \in Callers :
      \/ EntryCheck(c) \/ Subscribe(c) \/ Enqueue(c)
      \/ GiveUp(c) \/ Admit(c) \/ MustWait(c) \/ Block(c) \/ SpuriousWake(c)
      \/ Relock(c) \/ Release(c) \/ Leave(c)
      \/ Cancel(c) \/ CancelCallback(c)

\* Running threads keep running, a verification ends, a claimed callback is run.
\* Spurious wakeups make the mutex change hands for ever, so a thread that asks for
\* it again and again is assumed to get it in the end.
Fairness ==
    \A c \in Callers :
      WF_vars(Step(c)) /\ SF_vars(TakeMutex(c)) /\ WF_vars(CancelCallback(c))

Spec == Init /\ [][Next]_vars
FairSpec == Spec /\ Fairness

-----------------------------------------------------------------------------
\* The types; the queue holds tickets of callers.
TypeOK ==
    /\ available \in Nat
    /\ skipped \in Nat
    /\ queue \in Seq(Callers) /\ arrival \in Seq(Callers)
    /\ mutex \in Callers \cup {Nobody}
    /\ pc \in [Callers -> PcValues]
    /\ setup \in Setups
    /\ cancelled \subseteq Callers
    /\ registered \subseteq Callers /\ due \subseteq registered

\* Exactly the caller between locking and unlocking holds the mutex.
MutexHolder == \A c \in Callers : (mutex = c) <=> (pc[c] \in {"checking", "blocking"})

\* No permit is leaked or invented, whichever way a call ends.
PermitsConserved == available + Cardinality(Holders) = Capacity

\* The limit on the calls that are inside the backend at once.
CapacityRespected == Cardinality(Holders) <= Capacity

\* d has queued before c has.
ArrivedBefore(d, c) ==
    \E i, j \in 1..Len(arrival) : i < j /\ arrival[i] = d /\ arrival[j] = c

\* c is admitted after d has queued before it.
PassesWhile(c, d) ==
    pc[c] # "verifying" /\ pc'[c] = "verifying" /\ ArrivedBefore(d, c)

\* Types, mutex and permits.
Accounts == TypeOK /\ MutexHolder /\ PermitsConserved

\* Callers queue once, and the queue holds waiting callers in the order in which they came.
InLine ==
    /\ \A i, j \in 1..Len(arrival) : arrival[i] = arrival[j] => i = j
    /\ \A i \in 1..Len(arrival) : pc[arrival[i]] \notin {"idle", "subscribing", "locking"}
    /\ \A i \in 1..Len(queue) :
         Waiting(queue[i]) /\ \E j \in 1..Len(arrival) : arrival[j] = queue[i]
    /\ \A i, j \in 1..Len(queue) : i < j => ArrivedBefore(queue[i], queue[j])

\* Only an empty deque can have skipped slots, and a ticket is only lost when somebody may
\* cancel.
TicketsKept ==
    /\ skipped > 0 => queue = <<>>
    /\ cancelled \subseteq Cancellable
    /\ Cancellable = {} => skipped = 0 /\ \A c \in Callers : ~Lost(c)

\* The inductive invariant of AdmissionProofs: the mutex has the holder the code gives it,
\* available plus the permits held is the capacity, whichever way a call ends, and the
\* tickets in the queue are those of waiting callers in their order, whatever was erased.
IInv == Accounts /\ InLine /\ TicketsKept

\* "Calls wait and acquire permits in FIFO order": nobody is admitted while a caller
\* that queued earlier still waits.
NoOvertaking == [][\A c, d \in Callers : PassesWhile(c, d) => ~Waiting(d)]_vars

\* Whom a step may overtake.
PassesOnlyTheLost == \A c, d \in Callers : PassesWhile(c, d) => ~Waiting(d) \/ Lost(d)

\* The same with the one exception the code has: a caller is only overtaken when its
\* ticket went with the tail that a cancelled caller ahead of it erased.
OvertakenOnlyIfLost == [][PassesOnlyTheLost]_vars

\* "Cancellation while waiting returns Cancelled without invoking verify": a cancel()
\* that finds the caller blocked wins against every permit released later.
CancelledWaiterStaysOut ==
    \A c \in Callers :
      []((c \in cancelled /\ pc[c] \in {"waiting", "waking"}) => [](pc[c] # "verifying"))

\* Every call that still has its ticket returns: no permit and no cancellation is
\* waited for in vain although notifications can be missed.
WaitersReturn ==
    \A c \in Callers : Waiting(c) ~> (pc[c] \in Returned \/ Lost(c))

\* As long as nobody can cancel, the controller implements the line of callers of
\* FifoPermits, and no front() or pop_front() ever meets an empty deque.  A controller
\* with callers that may be cancelled shows that line nothing.
Fifo == INSTANCE FifoPermits
          WITH capacity <- Capacity,
               line <- IF Cancellable = {} THEN queue ELSE <<>>,
               inside <- IF Cancellable = {} THEN Holders ELSE {}
ImplementsFifo == Fifo!FifoSpec
=============================================================================
