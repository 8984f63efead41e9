------------------------- MODULE CancellationProofs -------------------------
(* IInv of Cancellation is inductive for every set of entries and cancellers, and *)
(* implies that callbacks are one-shot, quiet after reset, and never missed.      *)
EXTENDS Cancellation, TLAPS

(* The initial states satisfy the inductive invariant. *)
LEMMA InitIInv == Init => IInv
<1> SUFFICES ASSUME Init PROVE IInv
  OBVIOUS
<1> USE DEF Init, CallbackRuns, Resetting, InCancel
<1>1. TypeOK
  BY DEF TypeOK, SubscriberPc, CancellerPc
<1>2. Bookkeeping
  BY DEF Bookkeeping
<1>3. Winner
  BY DEF Winner
<1>4. Invocations
  BY DEF Invocations
<1> QED BY <1>1, <1>2, <1>3, <1>4 DEF IInv

(* Every step keeps the inductive invariant: one step per action. *)
LEMMA NextIInv == IInv /\ [Next]_vars => IInv'
<1> SUFFICES ASSUME IInv, [Next]_vars PROVE IInv'
  OBVIOUS
<1> USE DEF IInv, TypeOK, SubscriberPc, CancellerPc, Resetting, InCancel
<1>1. ASSUME NEW e \in Entries, SubscribeRegister(e) PROVE IInv'
  <2>1. TypeOK'
    BY <1>1 DEF SubscribeRegister
  <2>2. Bookkeeping'
    BY <1>1 DEF SubscribeRegister, Bookkeeping, CallbackRuns
  <2>3. Winner'
    BY <1>1 DEF SubscribeRegister, Winner
  <2>4. Invocations'
    BY <1>1 DEF SubscribeRegister, Invocations
  <2> QED BY <2>1, <2>2, <2>3, <2>4
<1>2. ASSUME NEW e \in Entries, SubscribeInline(e) PROVE IInv'
  <2>1. TypeOK'
    BY <1>2 DEF SubscribeInline
  <2>2. Bookkeeping'
    BY <1>2 DEF SubscribeInline, Bookkeeping, CallbackRuns
  <2>3. Winner'
    BY <1>2 DEF SubscribeInline, Winner
  <2>4. Invocations'
    BY <1>2 DEF SubscribeInline, Invocations
  <2> QED BY <2>1, <2>2, <2>3, <2>4
<1>3. ASSUME NEW e \in Entries, InlineInvoke(e) PROVE IInv'
  <2>1. TypeOK'
    BY <1>3 DEF InlineInvoke
  <2>2. Bookkeeping'
    <3>1. \A d \in Entries :
            (CallbackRuns(d) \/ pc[d] = "inline")' <=> (CallbackRuns(d) \/ pc[d] = "inline")
      BY <1>3 DEF InlineInvoke, CallbackRuns
    <3>2. {d \in Entries : CallbackRuns(d) \/ pc[d] = "inline"}'
            = {d \in Entries : CallbackRuns(d) \/ pc[d] = "inline"}
      BY <3>1
    <3>3. \A d \in current' : /\ d \notin batch'
                              /\ pc[d]' \in Resetting \cup {"registered", "gone"}
                              /\ CallbackRuns(d)' => d \in callbacks'
      BY <1>3, <3>1 DEF InlineInvoke, Bookkeeping
    <3>4. /\ active' = {d \in Entries : pc[d] = "registered"}'
          /\ callbacks' = active' \cup {d \in Entries : pc[d] \in Resetting}'
      BY <1>3 DEF InlineInvoke, Bookkeeping
    <3> QED BY <1>3, <3>2, <3>3, <3>4 DEF InlineInvoke, Bookkeeping
  <2>3. Winner'
    BY <1>3 DEF InlineInvoke, Winner
  <2>4. Invocations'
    BY <1>3 DEF InlineInvoke, Bookkeeping, Winner, Invocations
  <2> QED BY <2>1, <2>2, <2>3, <2>4
<1>4. ASSUME NEW e \in Entries, InlineReturn(e) PROVE IInv'
  <2>1. TypeOK'
    BY <1>4 DEF InlineReturn
  <2>2. Bookkeeping'
    BY <1>4 DEF InlineReturn, Bookkeeping, CallbackRuns
  <2>3. Winner'
    BY <1>4 DEF InlineReturn, Winner
  <2>4. Invocations'
    BY <1>4 DEF InlineReturn, Invocations
  <2> QED BY <2>1, <2>2, <2>3, <2>4
<1>5. ASSUME NEW e \in Entries, OwnerReset(e) PROVE IInv'
  <2>1. TypeOK'
    BY <1>5 DEF OwnerReset, Reset, WaitOrErase
  <2>2. Bookkeeping'
    BY <1>5 DEF OwnerReset, Reset, WaitOrErase, Bookkeeping, CallbackRuns
  <2>3. Winner'
    BY <1>5 DEF OwnerReset, Reset, WaitOrErase, Winner
  <2>4. Invocations'
    BY <1>5 DEF OwnerReset, Reset, WaitOrErase, Invocations
  <2> QED BY <2>1, <2>2, <2>3, <2>4
<1>6. ASSUME NEW e \in Entries, ResetResume(e) PROVE IInv'
  <2>1. TypeOK'
    BY <1>6 DEF ResetResume, WaitOrErase
  <2>2. Bookkeeping'
    BY <1>6 DEF ResetResume, WaitOrErase, Bookkeeping, CallbackRuns
  <2>3. Winner'
    BY <1>6 DEF ResetResume, WaitOrErase, Winner
  <2>4. Invocations'
    BY <1>6 DEF ResetResume, WaitOrErase, Invocations
  <2> QED BY <2>1, <2>2, <2>3, <2>4
<1>7. ASSUME NEW e \in Entries, SpuriousWake(e) PROVE IInv'
  <2>1. TypeOK'
    BY <1>7 DEF SpuriousWake
  <2>2. Bookkeeping'
    BY <1>7 DEF SpuriousWake, Bookkeeping, CallbackRuns
  <2>3. Winner'
    BY <1>7 DEF SpuriousWake, Winner
  <2>4. Invocations'
    BY <1>7 DEF SpuriousWake, Invocations
  <2> QED BY <2>1, <2>2, <2>3, <2>4
<1>8. ASSUME NEW d \in Entries, NEW e \in Entries, NestedReset(d, e) PROVE IInv'
  <2>1. TypeOK'
    BY <1>8 DEF NestedReset, Reset, WaitOrErase
  <2>2. Bookkeeping'
    BY <1>8 DEF NestedReset, Reset, WaitOrErase, Bookkeeping, CallbackRuns
  <2>3. Winner'
    BY <1>8 DEF NestedReset, Reset, WaitOrErase, Winner
  <2>4. Invocations'
    BY <1>8 DEF NestedReset, Reset, WaitOrErase, Invocations
  <2> QED BY <2>1, <2>2, <2>3, <2>4
<1>9. ASSUME NEW c \in Cancellers, CancelFirst(c) PROVE IInv'
  <2>1. TypeOK'
    BY <1>9 DEF CancelFirst
  <2>2. Bookkeeping'
    BY <1>9 DEF CancelFirst, Bookkeeping, Winner, CallbackRuns
  <2>3. Winner'
    BY <1>9 DEF CancelFirst, Winner
  <2>4. Invocations'
    BY <1>9 DEF CancelFirst, Bookkeeping, Winner, Invocations
  <2> QED BY <2>1, <2>2, <2>3, <2>4
<1>10. ASSUME NEW c \in Cancellers, CancelAgain(c) PROVE IInv'
  <2>1. TypeOK'
    BY <1>10 DEF CancelAgain
  <2>2. Bookkeeping'
    BY <1>10 DEF CancelAgain, Bookkeeping, CallbackRuns
  <2>3. Winner'
    BY <1>10 DEF CancelAgain, Winner
  <2>4. Invocations'
    BY <1>10 DEF CancelAgain, Invocations
  <2> QED BY <2>1, <2>2, <2>3, <2>4
<1>11. ASSUME NEW c \in Cancellers, Invoke(c) PROVE IInv'
  <2>1. TypeOK'
    BY <1>11 DEF Invoke
  <2>2. Bookkeeping'
    BY <1>11 DEF Invoke, Bookkeeping, Winner, CallbackRuns
  <2>3. Winner'
    BY <1>11 DEF Invoke, Winner
  <2>4. Invocations'
    BY <1>11 DEF Invoke, Bookkeeping, Winner, Invocations
  <2> QED BY <2>1, <2>2, <2>3, <2>4
<1>12. ASSUME NEW c \in Cancellers, Return(c) PROVE IInv'
  <2>1. TypeOK'
    BY <1>12 DEF Return
  <2>2. Bookkeeping'
    BY <1>12 DEF Return, Bookkeeping, Winner, CallbackRuns
  <2>3. Winner'
    BY <1>12 DEF Return, Winner
  <2>4. Invocations'
    BY <1>12 DEF Return, Invocations
  <2> QED BY <2>1, <2>2, <2>3, <2>4
<1>13. ASSUME NEW c \in Cancellers, NotifyCompleted(c) PROVE IInv'
  <2>1. TypeOK'
    BY <1>13 DEF NotifyCompleted
  <2>2. Bookkeeping'
    BY <1>13 DEF NotifyCompleted, Bookkeeping, Winner, CallbackRuns
  <2>3. Winner'
    BY <1>13 DEF NotifyCompleted, Winner
  <2>4. Invocations'
    BY <1>13 DEF NotifyCompleted, Invocations
  <2> QED BY <2>1, <2>2, <2>3, <2>4
<1>14. ASSUME NEW c \in Cancellers, CancelReturn(c) PROVE IInv'
  <2>1. TypeOK'
    BY <1>14 DEF CancelReturn
  <2>2. Bookkeeping'
    BY <1>14 DEF CancelReturn, Bookkeeping, CallbackRuns
  <2>3. Winner'
    BY <1>14 DEF CancelReturn, Winner
  <2>4. Invocations'
    BY <1>14 DEF CancelReturn, Invocations
  <2> QED BY <2>1, <2>2, <2>3, <2>4
<1>15. CASE UNCHANGED vars
  BY <1>15 DEF vars, Bookkeeping, Winner, Invocations, CallbackRuns
<1> QED
  BY <1>1, <1>2, <1>3, <1>4, <1>5, <1>6, <1>7, <1>8, <1>9, <1>10, <1>11, <1>12, <1>13, <1>14, <1>15 DEF Next

(* The three promises follow from the inductive invariant. *)
LEMMA IInvProperties == IInv => OneShot /\ GoneIsQuiet /\ NoneMissed
<1> SUFFICES ASSUME IInv PROVE OneShot /\ GoneIsQuiet /\ NoneMissed
  OBVIOUS
<1>1. OneShot
  BY DEF IInv, Invocations, OneShot
<1>2. GoneIsQuiet
  BY DEF IInv, Bookkeeping, GoneIsQuiet, CallbackRuns, Resetting
<1>3. NoneMissed
  BY DEF IInv, Bookkeeping, Winner, Invocations, NoneMissed
<1> QED BY <1>1, <1>2, <1>3

(* The flags and lists of cancellation.cpp always agree with where its threads are. *)
THEOREM SpecIInv == Spec => []IInv
  BY InitIInv, NextIInv, PTL DEF Spec

(* subscribe() is one-shot: no callback is ever invoked twice. *)
THEOREM SpecOneShot == Spec => []OneShot
  BY SpecIInv, IInvProperties, PTL

(* After ~CancellationRegistration returned, the callback neither runs nor will run. *)
THEOREM SpecGoneIsQuiet == Spec => []GoneIsQuiet
  BY SpecIInv, IInvProperties, PTL

(* No subscription is missed by the cancel() it races with. *)
THEOREM SpecNoneMissed == Spec => []NoneMissed
  BY SpecIInv, IInvProperties, PTL
=============================================================================
