---------------------------- MODULE Cancellation ----------------------------
(***************************************************************************)
(* One CancellationState of src/cancellation.cpp: the source that cancels, *)
(* the tokens that subscribe callbacks, the registrations whose destructor *)
(* unregisters them.  Every critical section of state->mutex is one action *)
(* (the mutex is never held across a callback), and what a thread does     *)
(* between two sections is a step of its own.                              *)
(*                                                                         *)
(* The callbacks vector is a set: no property depends on the order in      *)
(* which cancel() walks it, so the model walks it in every order.          *)
(***************************************************************************)
EXTENDS Naturals, FiniteSets

CONSTANTS
    Entries,     \* subscriptions: one CallbackEntry and its registration each
    Cancellers,  \* threads that call CancellationSource::cancel
    Destroys     \* <<e, r>>: the callback of e destroys the registration of r

ASSUME DestroysAssumption ==
    /\ Destroys \subseteq Entries \X Entries
    /\ \A e \in Entries : <<e, e>> \notin Destroys   \* cancellation.hpp, line 18
    /\ \A d, e, r \in Entries :                      \* registrations are move-only
         <<d, r>> \in Destroys /\ <<e, r>> \in Destroys => d = e

VARIABLES
    cancelled,   \* CancellationState::cancelled
    callbacks,   \* CancellationState::callbacks
    active,      \* the entries whose active flag is set
    executing,   \* the entries whose executing flag is set
    pc,          \* where the subscriber of each entry is
    cpc,         \* where each caller of cancel() is
    batch,       \* the winning cancel()'s local list, what is left of it
    current,     \* {e}: the entry the winning cancel() is at, or {}
    runs         \* how often each callback was invoked (history)

vars == <<cancelled, callbacks, active, executing, pc, cpc, batch, current, runs>>

\* "awake" has left completed.wait and re-evaluates its predicate.
SubscriberPc == {"new", "registered", "inline", "inlineRunning",
                 "sleeping", "awake", "gone"}
CancellerPc == {"new", "delivering", "running", "notifying", "done"}

Resetting == {"sleeping", "awake"}
InCancel == {"delivering", "running", "notifying"}

Init ==
    /\ cancelled = FALSE
    /\ callbacks = {} /\ active = {} /\ executing = {}
    /\ pc = [e \in Entries |-> "new"]
    /\ cpc = [c \in Cancellers |-> "new"]
    /\ batch = {} /\ current = {}
    /\ runs = [e \in Entries |-> 0]

-----------------------------------------------------------------------------
(* CancellationToken::subscribe *)

\* Mutant: the cancelled flag is read before the mutex is taken.
SubscribeRegister_Unchecked(e) ==
    /\ pc[e] = "new"
    /\ callbacks' = callbacks \cup {e}
    /\ active' = active \cup {e}
    /\ pc' = [pc EXCEPT ![e] = "registered"]
    /\ UNCHANGED <<cancelled, executing, cpc, batch, current, runs>>

\* Not yet cancelled: the entry joins the list and the caller holds a registration.
SubscribeRegister(e) ==
    /\ pc[e] = "new"
    /\ ~cancelled
    /\ callbacks' = callbacks \cup {e}
    /\ active' = active \cup {e}
    /\ pc' = [pc EXCEPT ![e] = "registered"]
    /\ UNCHANGED <<cancelled, executing, cpc, batch, current, runs>>

\* Already cancelled: the entry is never listed, its callback runs in subscribe.
SubscribeInline(e) ==
    /\ pc[e] = "new"
    /\ cancelled
    /\ executing' = executing \cup {e}
    /\ pc' = [pc EXCEPT ![e] = "inline"]
    /\ UNCHANGED <<cancelled, callbacks, active, cpc, batch, current, runs>>

InlineInvoke(e) ==
    /\ pc[e] = "inline"
    /\ pc' = [pc EXCEPT ![e] = "inlineRunning"]
    /\ runs' = [runs EXCEPT ![e] = @ + 1]
    /\ UNCHANGED <<cancelled, callbacks, active, executing, cpc, batch, current>>

\* The callback of e has nothing left to destroy.
CallbackDone(e) == \A r \in Entries : <<e, r>> \in Destroys => r \notin callbacks

\* subscribe() hands back an empty registration: nothing to reset later.
InlineReturn(e) ==
    /\ pc[e] = "inlineRunning"
    /\ CallbackDone(e)
    /\ executing' = executing \ {e}
    /\ pc' = [pc EXCEPT ![e] = "gone"]
    /\ UNCHANGED <<cancelled, callbacks, active, cpc, batch, current, runs>>

-----------------------------------------------------------------------------
(* CancellationRegistration::reset, called by the destructor and move-assignment *)

\* Mutant: the destructor does not wait for a started callback.
WaitOrErase_NoWait(e) ==
    /\ pc' = [pc EXCEPT ![e] = "gone"]
    /\ callbacks' = callbacks \ {e}

\* The wait of reset() under the mutex: sleep while executing, else erase the entry.
WaitOrErase(e) ==
    \/ /\ e \in executing
       /\ pc' = [pc EXCEPT ![e] = "sleeping"]
       /\ UNCHANGED callbacks
    \/ /\ e \notin executing
       /\ pc' = [pc EXCEPT ![e] = "gone"]
       /\ callbacks' = callbacks \ {e}

Reset(e) ==
    /\ pc[e] = "registered"
    /\ active' = active \ {e}
    /\ WaitOrErase(e)
    /\ UNCHANGED <<cancelled, executing, cpc, batch, current, runs>>

\* The thread that subscribed destroys the registration ...
OwnerReset(e) ==
    /\ \A d \in Entries : <<d, e>> \notin Destroys
    /\ Reset(e)

\* ... or a callback that holds it does, on the thread that runs the callback.
CallbackRuns(d) ==
    \/ pc[d] = "inlineRunning"
    \/ d \in current /\ \E c \in Cancellers : cpc[c] = "running"

NestedReset(d, e) ==
    /\ <<d, e>> \in Destroys
    /\ CallbackRuns(d)
    /\ Reset(e)

ResetResume(e) ==
    /\ pc[e] = "awake"
    /\ WaitOrErase(e)
    /\ UNCHANGED <<cancelled, active, executing, cpc, batch, current, runs>>

SpuriousWake(e) ==
    /\ pc[e] = "sleeping"
    /\ pc' = [pc EXCEPT ![e] = "awake"]
    /\ UNCHANGED <<cancelled, callbacks, active, executing, cpc, batch, current, runs>>

-----------------------------------------------------------------------------
(* CancellationSource::cancel *)

\* The exchange wins: every active entry is marked executing before any callback runs.
CancelFirst(c) ==
    /\ cpc[c] = "new"
    /\ ~cancelled
    /\ cancelled' = TRUE
    /\ batch' = callbacks \cap active
    /\ executing' = executing \cup (callbacks \cap active)
    /\ cpc' = [cpc EXCEPT ![c] = "delivering"]
    /\ UNCHANGED <<callbacks, active, pc, current, runs>>

\* Mutant: cancel() does not look at what exchange returned.
CancelAgain_Redelivers(c) ==
    /\ cpc[c] = "new"
    /\ cancelled
    /\ batch' = callbacks \cap active
    /\ executing' = executing \cup (callbacks \cap active)
    /\ cpc' = [cpc EXCEPT ![c] = "delivering"]
    /\ UNCHANGED <<cancelled, callbacks, active, pc, current, runs>>

\* The exchange loses: the call returns without waiting for the winner's callbacks.
CancelAgain(c) ==
    /\ cpc[c] = "new"
    /\ cancelled
    /\ cpc' = [cpc EXCEPT ![c] = "done"]
    /\ UNCHANGED <<cancelled, callbacks, active, executing, pc, batch, current, runs>>

Invoke(c) ==
    /\ cpc[c] = "delivering"
    /\ \E e \in batch :
         /\ current' = {e}
         /\ batch' = batch \ {e}
         /\ runs' = [runs EXCEPT ![e] = @ + 1]
    /\ cpc' = [cpc EXCEPT ![c] = "running"]
    /\ UNCHANGED <<cancelled, callbacks, active, executing, pc>>

\* Mutant: the executing flag is not cleared.
Return_StillExecuting(c) ==
    /\ cpc[c] = "running"
    /\ \A e \in current : CallbackDone(e)
    /\ cpc' = [cpc EXCEPT ![c] = "notifying"]
    /\ UNCHANGED <<cancelled, callbacks, active, executing, pc, batch, current, runs>>

Return(c) ==
    /\ cpc[c] = "running"
    /\ \A e \in current : CallbackDone(e)
    /\ executing' = executing \ current
    /\ cpc' = [cpc EXCEPT ![c] = "notifying"]
    /\ UNCHANGED <<cancelled, callbacks, active, pc, batch, current, runs>>

\* Mutant: completed is not notified.
NotifyCompleted_Silent(c) ==
    /\ cpc[c] = "notifying"
    /\ current' = {}
    /\ cpc' = [cpc EXCEPT ![c] = "delivering"]
    /\ UNCHANGED <<cancelled, callbacks, active, executing, pc, batch, runs>>

\* completed.notify_all(), after the mutex was released.
NotifyCompleted(c) ==
    /\ cpc[c] = "notifying"
    /\ pc' = [e \in Entries |->
                IF e \in current /\ pc[e] = "sleeping" THEN "awake" ELSE pc[e]]
    /\ current' = {}
    /\ cpc' = [cpc EXCEPT ![c] = "delivering"]
    /\ UNCHANGED <<cancelled, callbacks, active, executing, batch, runs>>

CancelReturn(c) ==
    /\ cpc[c] = "delivering"
    /\ batch = {}
    /\ cpc' = [cpc EXCEPT ![c] = "done"]
    /\ UNCHANGED <<cancelled, callbacks, active, executing, pc, batch, current, runs>>

-----------------------------------------------------------------------------
InlineStep(e) == InlineInvoke(e) \/ InlineReturn(e)
CancelStep(c) == Invoke(c) \/ Return(c) \/ NotifyCompleted(c) \/ CancelReturn(c)

Next ==
    \/ \E e \in Entries :
         \/ SubscribeRegister(e) \/ SubscribeInline(e)
         \/ InlineInvoke(e) \/ InlineReturn(e)
         \/ OwnerReset(e) \/ ResetResume(e) \/ SpuriousWake(e)
    \/ \E d, e \in Entries : NestedReset(d, e)
    \/ \E c \in Cancellers :
         \/ CancelFirst(c) \/ CancelAgain(c)
         \/ Invoke(c) \/ Return(c) \/ NotifyCompleted(c) \/ CancelReturn(c)

\* A thread inside subscribe, cancel, a callback or an awakened wait keeps running;
\* nobody has to subscribe, cancel or destroy a registration of its own accord.
Fairness ==
    /\ \A e \in Entries : WF_vars(InlineStep(e)) /\ WF_vars(ResetResume(e))
    /\ \A d, e \in Entries : WF_vars(NestedReset(d, e))
    /\ \A c \in Cancellers : WF_vars(CancelStep(c))

Spec == Init /\ [][Next]_vars
FairSpec == Spec /\ Fairness

-----------------------------------------------------------------------------
\* The types of the shared state and of the threads' places.
TypeOK ==
    /\ cancelled \in BOOLEAN
    /\ callbacks \subseteq Entries /\ active \subseteq Entries
    /\ executing \subseteq Entries
    /\ pc \in [Entries -> SubscriberPc]
    /\ cpc \in [Cancellers -> CancellerPc]
    /\ batch \subseteq Entries /\ current \subseteq Entries
    /\ runs \in [Entries -> Nat]

\* The flags of an entry and the lists it is on agree with where its subscriber and
\* the winning cancel() are: the inductive invariant behind the three promises below.
Bookkeeping ==
    /\ active = {e \in Entries : pc[e] = "registered"}
    /\ callbacks = active \cup {e \in Entries : pc[e] \in Resetting}
    /\ executing = batch \cup {e \in Entries : CallbackRuns(e) \/ pc[e] = "inline"}
    /\ batch \subseteq callbacks
    /\ \A e \in current : /\ e \notin batch
                          /\ pc[e] \in Resetting \cup {"registered", "gone"}
                          /\ CallbackRuns(e) => e \in callbacks
Winner ==
    /\ ~cancelled => /\ executing = {} /\ current = {}
                     /\ \A c \in Cancellers : cpc[c] = "new"
                     /\ \A e \in Entries : pc[e] \notin Resetting
    /\ (batch \cup current # {}) => \E c \in Cancellers : cpc[c] \in InCancel
    /\ \A c, d \in Cancellers : cpc[c] \in InCancel /\ cpc[d] \in InCancel => c = d
    /\ \A c \in Cancellers : cpc[c] = "delivering" => current = {}
Invocations ==
    \A e \in Entries :
      /\ (pc[e] \in {"new", "inline"} \/ e \in batch) => runs[e] = 0
      /\ ~cancelled => runs[e] = 0
      /\ (cancelled /\ e \in callbacks /\ e \notin batch) => runs[e] = 1
      /\ runs[e] <= 1

\* The inductive invariant of CancellationProofs: the entries' flags and the list agree with
\* where every thread is, so that no callback is run twice, lost or waited for wrongly.
IInv == TypeOK /\ Bookkeeping /\ Winner /\ Invocations

\* subscribe() promises a one-shot callback: racing subscribes, cancels and resets
\* never invoke the same callback twice.
OneShot == \A e \in Entries : runs[e] <= 1

\* Once the destructor of a registration has returned, its callback is neither
\* running nor still to be run by a cancel() that copied the list earlier.
GoneIsQuiet ==
    \A e \in Entries : pc[e] = "gone" => e \notin batch /\ ~CallbackRuns(e)

\* No subscription falls between subscribe() and cancel(): when the cancel() that
\* won has returned, every callback still registered was invoked.
NoneMissed ==
    (cancelled /\ \A c \in Cancellers : cpc[c] \notin InCancel)
        => \A e \in Entries : pc[e] = "registered" => runs[e] = 1

\* A callback destroys the registration of a callback that the same cancel() has marked
\* executing and will only invoke once this one has returned.
PeerWait ==
    \E d, e \in Entries :
        /\ <<d, e>> \in Destroys
        /\ d \in current /\ CallbackRuns(d)
        /\ pc[e] \in Resetting /\ e \in batch

\* Destroying a registration returns, however cancel() and the destructor interleave, but
\* for one case: a destructor that never returns is stuck behind a PeerWait.  The header
\* does not excuse that case, see ResetReturns.
ResetReturnsButForPeers ==
    \A e \in Entries : (pc[e] \in Resetting) ~> (pc[e] = "gone" \/ PeerWait)

\* "Destruction or move assignment unregisters the callback and waits for an
\* already-started callback to complete" (cancellation.hpp:17): destroying a registration
\* whose callback has not been invoked returns, from inside another callback too.
ResetReturns ==
    \A e \in Entries : (pc[e] \in Resetting) ~> (pc[e] = "gone")
=============================================================================
