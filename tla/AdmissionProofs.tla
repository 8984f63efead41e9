--------------------------- MODULE AdmissionProofs ---------------------------
(* The permits of Admission are conserved for every set of callers and every *)
(* capacity, whichever way the calls end, and so the limit is never exceeded. *)
EXTENDS Admission, FiniteSetTheorems, SequenceTheorems, TLAPS

(* Whatever the setup, the capacity is positive. *)
LEMMA SetupType ==
  ASSUME setup \in Setups
  PROVE  Capacity \in Nat \ {0} /\ Cancellable \subseteq Callers
  BY AdmissionAssumption DEF Capacity, Cancellable

(* There are finitely many callers, so the permits held can be counted. *)
LEMMA HoldersFinite == IsFiniteSet(Holders) /\ Cardinality(Holders) \in Nat
<1>1. IsFiniteSet(Holders)
  BY AdmissionAssumption, FS_Subset DEF Holders
<1> QED BY <1>1, FS_CardinalityType

(* A step that neither admits nor releases anybody leaves the accounts alone. *)
LEMMA SameHolders ==
  ASSUME PermitsConserved, available' = available,
         setup' = setup,
         \A c \in Callers : (pc'[c] = "verifying") <=> (pc[c] = "verifying")
  PROVE  PermitsConserved'
<1>1. Holders' = Holders
  BY DEF Holders
<1> QED BY <1>1 DEF PermitsConserved, Capacity

(* The queue stays a sequence of callers whatever GiveUp erases. *)
LEMMA EraseTicketType ==
  ASSUME NEW c \in Callers, queue \in Seq(Callers), skipped \in Nat, EraseTicket(c)
  PROVE  queue' \in Seq(Callers) /\ skipped' \in Nat /\ (skipped = 0 => skipped' = 0)
<1>1. CASE UNCHANGED queue /\ skipped' \in 0..skipped
  BY <1>1
<1>2. ASSUME NEW i \in 1..Len(queue), queue' = SubSeq(queue, 1, i - 1), UNCHANGED skipped
      PROVE  queue' \in Seq(Callers) /\ skipped' \in Nat /\ (skipped = 0 => skipped' = 0)
  <2>1. i - 1 \in Int /\ \A j \in 1..(i - 1) : queue[j] \in Callers
    OBVIOUS
  <2> QED BY <1>2, <2>1, SubSeqProperties
<1> QED BY <1>1, <1>2 DEF EraseTicket

(* A ticket pushed or popped leaves a sequence of callers and a slot count. *)
LEMMA PushPopTypes ==
  ASSUME queue \in Seq(Callers), skipped \in Nat
  PROVE  /\ \A c \in Callers : PushTicket(c) => queue' \in Seq(Callers) /\ skipped' \in Nat
         /\ PopTicket => queue' \in Seq(Callers) /\ skipped' \in Nat
<1>1. ASSUME NEW c \in Callers, PushTicket(c) PROVE queue' \in Seq(Callers) /\ skipped' \in Nat
  BY <1>1, AppendProperties DEF PushTicket
<1>2. ASSUME PopTicket PROVE queue' \in Seq(Callers) /\ skipped' \in Nat
  <2>1. CASE queue # <<>> /\ queue' = Tail(queue) /\ UNCHANGED skipped
    BY <2>1, HeadTailProperties
  <2>2. CASE queue = <<>> /\ skipped' = skipped + 1 /\ UNCHANGED queue
    BY <2>2
  <2> QED BY <1>2, <2>1, <2>2 DEF PopTicket
<1> QED BY <1>1, <1>2

(* The initial states satisfy the types and the accounts. *)
LEMMA InitAccounts == Init => Accounts
<1> SUFFICES ASSUME Init PROVE Accounts
  OBVIOUS
<1>1. TypeOK
  BY AdmissionAssumption, SetupType DEF Init, TypeOK, PcValues
<1>2. MutexHolder
  BY AdmissionAssumption DEF Init, MutexHolder
<1>3. PermitsConserved
  <2>1. Holders = {}
    BY DEF Init, Holders
  <2> QED BY <2>1, FS_EmptySet, SetupType DEF Init, PermitsConserved
<1> QED BY <1>1, <1>2, <1>3 DEF Accounts

(* Every step keeps the types and the accounts: one step per action. *)
LEMMA NextAccounts == Accounts /\ [Next]_vars => Accounts'
<1> SUFFICES ASSUME Accounts, [Next]_vars PROVE Accounts'
  OBVIOUS
<1> USE AdmissionAssumption DEF Accounts, TypeOK, PcValues
<1>1. ASSUME NEW c \in Callers, Cancel(c) PROVE Accounts'
  <2>1. TypeOK'
    BY <1>1 DEF Cancel
  <2>2. MutexHolder'
    BY <1>1 DEF Cancel, MutexHolder
  <2>3. PermitsConserved'
    BY <1>1, SameHolders DEF Cancel
  <2> QED BY <2>1, <2>2, <2>3
<1>2. ASSUME NEW c \in Callers, CancelCallback(c) PROVE Accounts'
  <2>1. TypeOK'
    BY <1>2 DEF CancelCallback, NotifyAll
  <2>2. MutexHolder'
    BY <1>2 DEF CancelCallback, NotifyAll, MutexHolder
  <2>3. PermitsConserved'
    BY <1>2, SameHolders DEF CancelCallback, NotifyAll
  <2> QED BY <2>1, <2>2, <2>3
<1>3. ASSUME NEW c \in Callers, EntryCheck(c) PROVE Accounts'
  <2>1. TypeOK'
    BY <1>3 DEF EntryCheck
  <2>2. MutexHolder'
    BY <1>3 DEF EntryCheck, MutexHolder
  <2>3. PermitsConserved'
    BY <1>3, SameHolders DEF EntryCheck
  <2> QED BY <2>1, <2>2, <2>3
<1>4. ASSUME NEW c \in Callers, Subscribe(c) PROVE Accounts'
  <2>1. TypeOK'
    BY <1>4 DEF Subscribe, NotifyAll
  <2>2. MutexHolder'
    BY <1>4 DEF Subscribe, NotifyAll, MutexHolder
  <2>3. PermitsConserved'
    BY <1>4, SameHolders DEF Subscribe, NotifyAll
  <2> QED BY <2>1, <2>2, <2>3
<1>5. ASSUME NEW c \in Callers, Enqueue(c) PROVE Accounts'
  <2>1. TypeOK'
    <3>1. queue' \in Seq(Callers) /\ skipped' \in Nat
      BY <1>5, PushPopTypes DEF Enqueue
    <3>2. arrival' \in Seq(Callers)
      BY <1>5, AppendProperties DEF Enqueue
    <3> QED BY <1>5, <3>1, <3>2 DEF Enqueue, NotifyAll
  <2>2. MutexHolder'
    BY <1>5 DEF Enqueue, NotifyAll, MutexHolder
  <2>3. PermitsConserved'
    BY <1>5, SameHolders DEF Enqueue, NotifyAll
  <2> QED BY <2>1, <2>2, <2>3
<1>6. ASSUME NEW c \in Callers, GiveUp(c) PROVE Accounts'
  <2>1. TypeOK'
    BY <1>6, EraseTicketType DEF GiveUp, NotifyAll
  <2>2. MutexHolder'
    BY <1>6 DEF GiveUp, NotifyAll, MutexHolder
  <2>3. PermitsConserved'
    BY <1>6, SameHolders DEF GiveUp, NotifyAll
  <2> QED BY <2>1, <2>2, <2>3
<1>7. ASSUME NEW c \in Callers, Admit(c) PROVE Accounts'
  <2>1. TypeOK'
    <3>1. queue' \in Seq(Callers) /\ skipped' \in Nat
      BY <1>7, PushPopTypes DEF Admit
    <3> QED BY <1>7, <3>1 DEF Admit
  <2>2. MutexHolder'
    BY <1>7 DEF Admit, MutexHolder
  <2>3. PermitsConserved'
    <3>1. Holders' = Holders \cup {c} /\ c \notin Holders
      BY <1>7 DEF Admit, Holders
    <3>2. Cardinality(Holders') = Cardinality(Holders) + 1
      BY <3>1, HoldersFinite, FS_AddElement
    <3> QED BY <1>7, <3>2, HoldersFinite, SetupType DEF Admit, PermitsConserved, Capacity
  <2> QED BY <2>1, <2>2, <2>3
<1>8. ASSUME NEW c \in Callers, MustWait(c) PROVE Accounts'
  <2>1. TypeOK'
    BY <1>8 DEF MustWait
  <2>2. MutexHolder'
    BY <1>8 DEF MustWait, MutexHolder
  <2>3. PermitsConserved'
    BY <1>8, SameHolders DEF MustWait
  <2> QED BY <2>1, <2>2, <2>3
<1>9. ASSUME NEW c \in Callers, Block(c) PROVE Accounts'
  <2>1. TypeOK'
    BY <1>9 DEF Block
  <2>2. MutexHolder'
    BY <1>9 DEF Block, MutexHolder
  <2>3. PermitsConserved'
    BY <1>9, SameHolders DEF Block
  <2> QED BY <2>1, <2>2, <2>3
<1>10. ASSUME NEW c \in Callers, SpuriousWake(c) PROVE Accounts'
  <2>1. TypeOK'
    BY <1>10 DEF SpuriousWake
  <2>2. MutexHolder'
    BY <1>10 DEF SpuriousWake, MutexHolder
  <2>3. PermitsConserved'
    BY <1>10, SameHolders DEF SpuriousWake
  <2> QED BY <2>1, <2>2, <2>3
<1>11. ASSUME NEW c \in Callers, Relock(c) PROVE Accounts'
  <2>1. TypeOK'
    BY <1>11 DEF Relock
  <2>2. MutexHolder'
    BY <1>11 DEF Relock, MutexHolder
  <2>3. PermitsConserved'
    BY <1>11, SameHolders DEF Relock
  <2> QED BY <2>1, <2>2, <2>3
<1>12. ASSUME NEW c \in Callers, Release(c) PROVE Accounts'
  <2>1. TypeOK'
    BY <1>12 DEF Release, NotifyAll
  <2>2. MutexHolder'
    BY <1>12 DEF Release, NotifyAll, MutexHolder
  <2>3. PermitsConserved'
    <3>1. Holders' = Holders \ {c} /\ c \in Holders
      BY <1>12 DEF Release, NotifyAll, Holders
    <3>2. Cardinality(Holders') = Cardinality(Holders) - 1
      BY <3>1, HoldersFinite, FS_RemoveElement
    <3> QED BY <1>12, <3>2, HoldersFinite, SetupType DEF Release, PermitsConserved, Capacity
  <2> QED BY <2>1, <2>2, <2>3
<1>13. ASSUME NEW c \in Callers, Leave(c) PROVE Accounts'
  <2>1. TypeOK'
    BY <1>13 DEF Leave
  <2>2. MutexHolder'
    BY <1>13 DEF Leave, MutexHolder
  <2>3. PermitsConserved'
    BY <1>13, SameHolders DEF Leave
  <2> QED BY <2>1, <2>2, <2>3
<1>14. CASE UNCHANGED vars
  BY <1>14, SameHolders DEF vars, MutexHolder
<1> QED
  BY <1>1, <1>2, <1>3, <1>4, <1>5, <1>6, <1>7, <1>8, <1>9, <1>10, <1>11, <1>12, <1>13, <1>14 DEF Next

(* Erasing cuts the queue in front of the caller's ticket, if it has one. *)
LEMMA ErasedQueue ==
  ASSUME NEW c \in Callers, queue \in Seq(Callers), EraseTicket(c), InLine
  PROVE  /\ Len(queue') \in Nat /\ Len(queue') <= Len(queue)
         /\ \A i \in 1..Len(queue') : queue'[i] = queue[i] /\ queue'[i] # c
<1>1. CASE ~HasTicket(c) /\ UNCHANGED queue
  BY <1>1 DEF HasTicket
<1>2. ASSUME NEW i \in 1..Len(queue), queue[i] = c, queue' = SubSeq(queue, 1, i - 1)
      PROVE  /\ Len(queue') \in Nat /\ Len(queue') <= Len(queue)
             /\ \A j \in 1..Len(queue') : queue'[j] = queue[j] /\ queue'[j] # c
  <2>1. i - 1 \in Nat /\ i - 1 < Len(queue) /\ \A j \in 1..(i - 1) : queue[j] \in Callers
    OBVIOUS
  <2>2. Len(queue') = i - 1 /\ \A j \in 1..(i - 1) : queue'[j] = queue[j]
    BY <1>2, <2>1, SubSeqProperties
  <2>3. ASSUME NEW j \in 1..(i - 1), queue[j] = c PROVE FALSE
    <3>1. j \in 1..Len(queue) /\ j < i
      BY <1>2, <2>1
    <3>2. ArrivedBefore(c, c)
      BY <1>2, <2>3, <3>1 DEF InLine
    <3> QED BY <3>2 DEF InLine, ArrivedBefore
  <2> QED BY <2>1, <2>2, <2>3
<1> QED BY <1>1, <1>2 DEF EraseTicket

(* A step that queues nobody keeps the order of what is left of the queue. *)
LEMMA SameArrival ==
  ASSUME TypeOK, InLine, arrival' = arrival, NEW k \in Nat,
         queue' \in Seq(Callers), Len(queue') + k <= Len(queue),
         \A i \in 1..Len(queue') : queue'[i] = queue[i + k] /\ pc'[queue'[i]] \in InLoop,
         \A c \in Callers : pc[c] \notin {"idle", "subscribing", "locking"}
                              => pc'[c] \notin {"idle", "subscribing", "locking"}
  PROVE  InLine'
<1>1. \A i \in 1..Len(queue') : i + k \in 1..Len(queue)
  BY DEF TypeOK
<1>2. \A i \in 1..Len(arrival) : arrival[i] \in Callers
  BY DEF TypeOK
<1>3. \A i, j \in 1..Len(arrival') : arrival'[i] = arrival'[j] => i = j
  BY DEF InLine
<1>4. \A i \in 1..Len(arrival') : pc'[arrival'[i]] \notin {"idle", "subscribing", "locking"}
  BY <1>2 DEF InLine
<1>5. \A i \in 1..Len(queue') :
        pc'[queue'[i]] \in InLoop /\ \E j \in 1..Len(arrival') : arrival'[j] = queue'[i]
  BY <1>1 DEF InLine
<1>6. ASSUME NEW i \in 1..Len(queue'), NEW j \in 1..Len(queue'), i < j
      PROVE  ArrivedBefore(queue[i], queue[j])'
  <2>1. i + k \in 1..Len(queue) /\ j + k \in 1..Len(queue) /\ i + k < j + k
    BY <1>1, <1>6 DEF TypeOK
  <2>2. ArrivedBefore(queue[i + k], queue[j + k])
    BY <2>1 DEF InLine
  <2>3. queue'[i] = queue[i + k] /\ queue'[j] = queue[j + k]
    OBVIOUS
  <2> QED BY <2>2, <2>3 DEF ArrivedBefore
<1> QED BY <1>3, <1>4, <1>5, <1>6 DEF InLine, Waiting

(* Steps that leave the queue alone. *)
LEMMA SameQueue ==
  ASSUME TypeOK, InLine, UNCHANGED <<queue, arrival>>,
         \A c \in Callers : /\ pc[c] \in InLoop => pc'[c] \in InLoop
                            /\ pc[c] \notin {"idle", "subscribing", "locking"}
                                 => pc'[c] \notin {"idle", "subscribing", "locking"}
  PROVE  InLine'
<1>1. \A i \in 1..Len(queue) : queue[i] \in Callers /\ pc'[queue[i]] \in InLoop
  BY DEF TypeOK, InLine, Waiting
<1>2. /\ 0 \in Nat /\ queue' \in Seq(Callers) /\ Len(queue') + 0 <= Len(queue)
      /\ \A i \in 1..Len(queue') : queue'[i] = queue[i + 0]
  BY DEF TypeOK
<1> QED BY <1>1, <1>2, SameArrival

(* A caller that leaves the queue leaves the others in their order. *)
LEMMA NextInLine ==
  ASSUME IInv, [Next]_vars
  PROVE  InLine'
<1> USE DEF IInv, Accounts, PcValues, InLoop
<1>0. TypeOK /\ InLine /\ queue \in Seq(Callers) /\ queue' \in Seq(Callers)
      /\ arrival \in Seq(Callers) /\ Nobody \notin Callers
  BY NextAccounts, AdmissionAssumption DEF TypeOK
<1>1. ASSUME NEW c \in Callers, Enqueue(c) PROVE InLine'
  <2>1. /\ Len(arrival) \in Nat /\ Len(arrival') = Len(arrival) + 1
        /\ \A i \in 1..Len(arrival') : arrival'[i] = IF i <= Len(arrival) THEN arrival[i] ELSE c
    BY <1>0, <1>1, AppendProperties DEF Enqueue
  <2>8. /\ Len(queue) \in Nat
        /\ \A i \in 1..Len(queue') : \/ i \in 1..Len(queue) /\ queue'[i] = queue[i]
                                     \/ i = Len(queue) + 1 /\ queue'[i] = c
    <3>1. CASE queue' = Append(queue, c)
      BY <1>0, <3>1, AppendProperties
    <3>2. CASE queue' = queue
      BY <1>0, <3>2
    <3> QED BY <1>1, <3>1, <3>2 DEF Enqueue, PushTicket
  <2>2. \A i \in 1..Len(arrival) : arrival[i] # c /\ arrival[i] \in Callers
    BY <1>0, <1>1 DEF Enqueue, InLine
  <2>3. \A i \in 1..Len(queue) : queue[i] # c /\ queue[i] \in Callers
    <3>1. pc[c] \notin InLoop
      BY <1>1 DEF Enqueue
    <3>2. \A i \in 1..Len(queue) : pc[queue[i]] \in InLoop
      BY <1>0 DEF InLine, Waiting
    <3> QED BY <1>0, <3>1, <3>2
  <2>4. /\ pc'[c] = "checking"
        /\ \A d \in Callers : /\ pc[d] \in InLoop => pc'[d] \in InLoop
                              /\ pc[d] \notin {"idle", "subscribing", "locking"}
                                   => pc'[d] \notin {"idle", "subscribing", "locking"}
    <3>1. pc[c] = "locking" /\ \A d \in Callers :
            pc'[d] = IF d = c THEN "checking" ELSE IF pc[d] = "waiting" THEN "waking" ELSE pc[d]
      BY <1>1 DEF Enqueue, NotifyAll
    <3> QED BY <3>1
  <2>5. /\ \A i, j \in 1..Len(arrival') : arrival'[i] = arrival'[j] => i = j
        /\ \A i \in 1..Len(arrival') : pc'[arrival'[i]] \notin {"idle", "subscribing", "locking"}
    <3>1. \A i \in 1..Len(arrival') : i \in 1..Len(arrival) \/ i = Len(arrival) + 1
      BY <2>1
    <3>2. \A i \in 1..Len(arrival) : arrival'[i] = arrival[i]
      BY <2>1
    <3>3. arrival'[Len(arrival) + 1] = c
      BY <2>1
    <3>4. \A i \in 1..Len(arrival) : pc'[arrival[i]] \notin {"idle", "subscribing", "locking"}
      BY <1>0, <2>2, <2>4 DEF InLine
    <3>5. \A i, j \in 1..Len(arrival') : arrival'[i] = arrival'[j] => i = j
      <4>1. \A i, j \in 1..Len(arrival) : arrival[i] = arrival[j] => i = j
        BY <1>0 DEF InLine
      <4> QED BY <2>2, <3>1, <3>2, <3>3, <4>1
    <3> QED BY <2>4, <3>1, <3>2, <3>3, <3>4, <3>5
  <2>6. ASSUME NEW i \in 1..Len(queue')
        PROVE  pc'[queue'[i]] \in InLoop /\ \E j \in 1..Len(arrival') : arrival'[j] = queue'[i]
    <3>1. CASE i \in 1..Len(queue) /\ queue'[i] = queue[i]
      <4>1. queue[i] \in Callers /\ pc'[queue[i]] \in InLoop
        BY <1>0, <2>3, <2>4, <3>1 DEF InLine, Waiting
      <4>2. PICK p \in 1..Len(arrival) : arrival[p] = queue[i]
        BY <1>0, <3>1 DEF InLine
      <4>3. p \in 1..Len(arrival') /\ arrival'[p] = arrival[p]
        BY <2>1
      <4> QED BY <3>1, <4>1, <4>2, <4>3
    <3>2. CASE queue'[i] = c
      <4>1. Len(arrival') \in 1..Len(arrival') /\ arrival'[Len(arrival')] = c
        BY <2>1
      <4> QED BY <2>4, <3>2, <4>1
    <3> QED BY <2>8, <3>1, <3>2
  <2>7. \A i, j \in 1..Len(queue') : i < j => ArrivedBefore(queue[i], queue[j])'
    <3> SUFFICES ASSUME NEW i \in 1..Len(queue'), NEW j \in 1..Len(queue'), i < j
                 PROVE  ArrivedBefore(queue[i], queue[j])'
      OBVIOUS
    <3>0. i \in 1..Len(queue) /\ queue'[i] = queue[i]
      BY <1>0, <2>8
    <3>1. CASE j \in 1..Len(queue) /\ queue'[j] = queue[j]
      <4>1. PICK p, q \in 1..Len(arrival) : p < q /\ arrival[p] = queue[i] /\ arrival[q] = queue[j]
        BY <1>0, <3>0, <3>1 DEF InLine, ArrivedBefore
      <4>2. p \in 1..Len(arrival') /\ q \in 1..Len(arrival') /\ p < q
            /\ arrival'[p] = queue'[i] /\ arrival'[q] = queue'[j]
        BY <2>1, <3>0, <3>1, <4>1
      <4> QED BY <4>2 DEF ArrivedBefore
    <3>2. CASE queue'[j] = c
      <4>1. PICK p \in 1..Len(arrival) : arrival[p] = queue[i]
        BY <1>0, <3>0 DEF InLine
      <4>2. p \in 1..Len(arrival') /\ Len(arrival') \in 1..Len(arrival') /\ p < Len(arrival')
            /\ arrival'[p] = queue'[i] /\ arrival'[Len(arrival')] = queue'[j]
        BY <2>1, <3>0, <3>2, <4>1
      <4> QED BY <4>2 DEF ArrivedBefore
    <3> QED BY <2>8, <3>1, <3>2
  <2> QED BY <2>5, <2>6, <2>7 DEF InLine, Waiting
<1>2. ASSUME NEW c \in Callers, GiveUp(c) PROVE InLine'
  <2>1. /\ Len(queue') \in Nat /\ Len(queue') <= Len(queue)
        /\ \A i \in 1..Len(queue') : queue'[i] = queue[i] /\ queue'[i] # c
    BY <1>0, <1>2, ErasedQueue DEF GiveUp
  <2>2. \A i \in 1..Len(queue) : queue[i] \in Callers /\ pc[queue[i]] \in InLoop
    BY <1>0 DEF InLine, Waiting
  <2>3. \A i \in 1..Len(queue') : queue'[i] = queue[i + 0] /\ pc'[queue'[i]] \in InLoop
    BY <1>0, <1>2, <2>1, <2>2 DEF GiveUp, NotifyAll, TypeOK
  <2>4. \A d \in Callers : pc[d] \notin {"idle", "subscribing", "locking"}
                              => pc'[d] \notin {"idle", "subscribing", "locking"}
    BY <1>2 DEF GiveUp, NotifyAll
  <2>5. 0 \in Nat /\ Len(queue') + 0 <= Len(queue) /\ arrival' = arrival
    BY <1>2, <2>1 DEF GiveUp
  <2> QED BY <1>0, <2>3, <2>4, <2>5, SameArrival
<1>3. ASSUME NEW c \in Callers, Admit(c) PROVE InLine'
  <2>1. \A d \in Callers : pc[d] \notin {"idle", "subscribing", "locking"}
                              => pc'[d] \notin {"idle", "subscribing", "locking"}
    BY <1>0, <1>3 DEF Admit, TypeOK
  <2>2. CASE queue = <<>>
    <3>1. queue' = <<>> /\ Len(queue') = 0 /\ Len(queue) = 0 /\ arrival' = arrival
      BY <1>0, <1>3, <2>2 DEF Admit, PopTicket
    <3> QED BY <1>0, <2>1, <3>1, SameArrival
  <2>3. CASE queue # <<>>
    <3>1. /\ queue[1] = c /\ Len(queue) \in Nat \ {0} /\ Len(queue') = Len(queue) - 1
          /\ \A i \in 1..Len(queue') : queue'[i] = queue[i + 1] /\ i + 1 \in 1..Len(queue)
      <4>1. queue' = Tail(queue) /\ Head(queue) = c
        BY <1>3, <2>3 DEF Admit, FrontMatches, PopTicket
      <4> QED BY <1>0, <2>3, <4>1, HeadTailProperties
    <3>2. \A i \in 1..Len(queue') : queue[i + 1] # c
      BY <1>0, <3>1 DEF InLine, ArrivedBefore
    <3>3. \A i \in 1..Len(queue) : queue[i] \in Callers /\ pc[queue[i]] \in InLoop
      BY <1>0 DEF InLine, Waiting
    <3>4. \A i \in 1..Len(queue') : queue'[i] = queue[i + 1] /\ pc'[queue'[i]] \in InLoop
      BY <1>0, <1>3, <3>1, <3>2, <3>3 DEF Admit, TypeOK
    <3>5. 1 \in Nat /\ Len(queue') + 1 <= Len(queue) /\ arrival' = arrival
      BY <1>3, <3>1 DEF Admit
    <3> QED BY <1>0, <2>1, <3>4, <3>5, SameArrival
  <2> QED BY <2>2, <2>3
<1>4. ASSUME NEW c \in Callers,
             \/ EntryCheck(c) \/ Subscribe(c) \/ MustWait(c) \/ Block(c) \/ SpuriousWake(c)
             \/ Relock(c) \/ Release(c) \/ Leave(c) \/ Cancel(c) \/ CancelCallback(c)
      PROVE  InLine'
  <2>1. UNCHANGED <<queue, arrival>>
    BY <1>4 DEF EntryCheck, Subscribe, MustWait, Block, SpuriousWake, Relock, Release, Leave,
                Cancel, CancelCallback
  <2>2. \A d \in Callers : /\ pc[d] \in InLoop => pc'[d] \in InLoop
                           /\ pc[d] \notin {"idle", "subscribing", "locking"}
                                => pc'[d] \notin {"idle", "subscribing", "locking"}
    BY <1>0, <1>4 DEF EntryCheck, Subscribe, MustWait, Block, SpuriousWake, Relock, Release,
                      Leave, Cancel, CancelCallback, NotifyAll, TypeOK
  <2> QED BY <1>0, <2>1, <2>2, SameQueue
<1>5. CASE UNCHANGED vars
  BY <1>0, <1>5, SameQueue DEF vars
<1> QED BY <1>1, <1>2, <1>3, <1>4, <1>5 DEF Next

(* Nobody loses a ticket unless somebody cancels. *)
LEMMA NextTicketsKept ==
  ASSUME IInv, [Next]_vars
  PROVE  TicketsKept'
<1> USE DEF IInv, Accounts, PcValues, InLoop
<1>0. TypeOK /\ queue \in Seq(Callers) /\ queue' \in Seq(Callers) /\ TicketsKept
  BY NextAccounts DEF TypeOK
<1>3. setup' = setup
  BY DEF Next, Cancel, CancelCallback, EntryCheck, Subscribe, Enqueue, GiveUp,
         Admit, MustWait, Block, SpuriousWake, Relock, Release, Leave, vars
<1>4. skipped \in Nat /\ (skipped > 0 => queue = <<>>)
  BY <1>0 DEF TypeOK, TicketsKept
<1>5. skipped' > 0 => queue' = <<>>
  <2>1. ASSUME NEW c \in Callers, Enqueue(c) PROVE skipped' > 0 => queue' = <<>>
    BY <1>4, <2>1 DEF Enqueue, PushTicket
  <2>2. ASSUME NEW c \in Callers, Admit(c) PROVE skipped' > 0 => queue' = <<>>
    BY <1>4, <2>2 DEF Admit, PopTicket
  <2>3. ASSUME NEW c \in Callers, GiveUp(c) PROVE skipped' > 0 => queue' = <<>>
    <3>1. CASE skipped' \in 0..skipped /\ UNCHANGED queue
      BY <1>4, <3>1
    <3>2. ASSUME NEW i \in 1..Len(queue), UNCHANGED skipped PROVE skipped' > 0 => queue' = <<>>
      BY <1>0, <1>4, <3>2
    <3> QED BY <2>3, <3>1, <3>2 DEF GiveUp, EraseTicket
  <2>4. CASE UNCHANGED <<queue, skipped>>
    BY <1>4, <2>4
  <2> QED BY <2>1, <2>2, <2>3, <2>4
          DEF Next, Cancel, CancelCallback, EntryCheck, Subscribe, MustWait, Block, SpuriousWake,
              Relock, Release, Leave, vars
<1>1. cancelled' \subseteq Cancellable
  BY <1>0 DEF TicketsKept, Next, Cancel, CancelCallback, EntryCheck, Subscribe, Enqueue, GiveUp,
              Admit, MustWait, Block, SpuriousWake, Relock, Release, Leave, vars
<1>6. ASSUME Cancellable = {} PROVE skipped' = 0
  <2>0. cancelled = {} /\ skipped = 0 /\ \A c \in Callers : ~Lost(c)
    BY <1>0, <1>6 DEF TicketsKept
  <2>1. ASSUME NEW c \in Callers, Enqueue(c) PROVE skipped' = 0
    BY <2>0, <2>1 DEF Enqueue, PushTicket
  <2>2. ASSUME NEW c \in Callers, Admit(c) PROVE skipped' = 0
    <3>1. HasTicket(c)
      BY <2>0, <2>2 DEF Admit, Lost, Waiting
    <3>2. queue # <<>>
      BY <3>1 DEF HasTicket
    <3> QED BY <2>0, <2>2, <3>2 DEF Admit, PopTicket
  <2>3. CASE UNCHANGED skipped
    BY <2>0, <2>3
  <2> QED BY <2>0, <2>1, <2>2, <2>3
          DEF Next, Cancel, CancelCallback, EntryCheck, Subscribe, GiveUp, MustWait, Block,
              SpuriousWake, Relock, Release, Leave, vars
<1>2. ASSUME Cancellable = {}, NEW d \in Callers, Waiting(d)'
      PROVE  HasTicket(d)'
  <2>0. cancelled = {} /\ skipped = 0 /\ (Waiting(d) => HasTicket(d))
    BY <1>0, <1>2 DEF TicketsKept, Lost
  <2>1. ASSUME NEW c \in Callers, Enqueue(c) PROVE HasTicket(d)'
    <3>1. /\ Len(queue) \in Nat /\ Len(queue') = Len(queue) + 1
          /\ \A i \in 1..Len(queue) : queue'[i] = queue[i]
          /\ queue'[Len(queue')] = c
      <4>1. queue' = Append(queue, c)
        BY <2>0, <2>1 DEF Enqueue, PushTicket
      <4> QED BY <1>0, <4>1, AppendProperties
    <3>2. d = c \/ Waiting(d)
      BY <1>0, <1>2, <2>1 DEF Enqueue, NotifyAll, Waiting, TypeOK
    <3> QED BY <2>0, <3>1, <3>2 DEF HasTicket
  <2>2. ASSUME NEW c \in Callers, Admit(c) PROVE HasTicket(d)'
    <3>1. d # c /\ Waiting(d)
      BY <1>0, <1>2, <2>2 DEF Admit, Waiting, TypeOK
    <3>2. PICK i \in 1..Len(queue) : queue[i] = d
      BY <2>0, <3>1 DEF HasTicket
    <3>3. queue # <<>> /\ Head(queue) = queue[1] /\ i # 1
      BY <1>0, <2>2, <3>1, <3>2 DEF Admit, FrontMatches
    <3>4. i - 1 \in 1..Len(queue') /\ queue'[i - 1] = queue[i]
      BY <1>0, <2>2, <3>2, <3>3, HeadTailProperties DEF Admit, PopTicket
    <3> QED BY <3>2, <3>4 DEF HasTicket
  <2>3. ASSUME NEW c \in Callers,
               \/ EntryCheck(c) \/ Subscribe(c) \/ MustWait(c) \/ Block(c) \/ SpuriousWake(c)
               \/ Relock(c) \/ Release(c) \/ Leave(c) \/ Cancel(c) \/ CancelCallback(c)
        PROVE  HasTicket(d)'
    <3>1. UNCHANGED queue
      BY <2>3 DEF EntryCheck, Subscribe, MustWait, Block, SpuriousWake, Relock, Release, Leave,
                  Cancel, CancelCallback
    <3>2. Waiting(d)
      BY <1>0, <1>2, <2>3, AdmissionAssumption
         DEF EntryCheck, Subscribe, MustWait, Block, SpuriousWake, Relock, Release,
             Leave, Cancel, CancelCallback, NotifyAll, TypeOK, Waiting
    <3> QED BY <2>0, <3>1, <3>2 DEF HasTicket
  <2>4. CASE UNCHANGED vars
    BY <1>2, <2>0, <2>4 DEF vars, HasTicket, Waiting
  <2> QED BY <2>0, <2>1, <2>2, <2>3, <2>4 DEF Next, GiveUp
<1> QED BY <1>1, <1>2, <1>3, <1>5, <1>6 DEF TicketsKept, Lost, Cancellable

(* The initial states satisfy the inductive invariant. *)
LEMMA InitIInv == Init => IInv
<1> SUFFICES ASSUME Init PROVE IInv
  OBVIOUS
<1>1. InLine
  BY DEF Init, InLine
<1>2. TicketsKept
  BY DEF Init, TicketsKept, Lost, Waiting, InLoop
<1> QED BY InitAccounts, <1>1, <1>2 DEF IInv

(* Every step keeps the inductive invariant. *)
LEMMA NextIInv == IInv /\ [Next]_vars => IInv'
  BY NextAccounts, NextInLine, NextTicketsKept DEF IInv

(* As available is never negative, no more than Capacity permits are held. *)
LEMMA IInvCapacity == IInv => CapacityRespected
  BY HoldersFinite, SetupType DEF IInv, Accounts, TypeOK, PermitsConserved, CapacityRespected

(* The free permits and the running verifications always add up to the capacity, *)
(* and exactly the caller inside the critical section owns the mutex.            *)
THEOREM SpecIInv == Spec => []IInv
  BY InitIInv, NextIInv, PTL DEF Spec

(* No interleaving of calls, cancellations and failures puts more than Capacity *)
(* verifications into the backend at once.                                      *)
THEOREM SpecCapacityRespected == Spec => []CapacityRespected
  BY SpecIInv, IInvCapacity, PTL

(* Whoever is admitted passes, of those that queued earlier, only callers whose ticket *)
(* was erased with another's: at the head of the queue is the first to have come.       *)
THEOREM SpecOvertakenOnlyIfLost == Spec => OvertakenOnlyIfLost
<1>1. IInv /\ [Next]_vars => [PassesOnlyTheLost]_vars
  <2> SUFFICES ASSUME IInv, Next, NEW c \in Callers, NEW d \in Callers, PassesWhile(c, d)
               PROVE  ~Waiting(d) \/ Lost(d)
    BY DEF PassesOnlyTheLost
  <2>1. Admit(c)
    BY DEF IInv, Accounts, TypeOK, PassesWhile, Next, Cancel, CancelCallback, EntryCheck, Subscribe,
           Enqueue, GiveUp, Admit, MustWait, Block, SpuriousWake, Relock, Release, Leave, NotifyAll
  <2>2. ASSUME NEW i \in 1..Len(queue), queue[i] = d PROVE FALSE
    <3>1. queue # <<>> /\ queue[1] = c /\ 1 \in 1..Len(queue)
      BY <2>1, <2>2 DEF Admit, FrontMatches, IInv, Accounts, TypeOK
    <3>2. c = d \/ ArrivedBefore(c, d)
      BY <2>2, <3>1 DEF IInv, InLine
    <3> QED BY <3>2 DEF PassesWhile, ArrivedBefore, IInv, InLine
  <2> QED BY <2>2 DEF Lost, HasTicket
<1> QED BY <1>1, SpecIInv, PTL DEF Spec, OvertakenOnlyIfLost

(* A cancelled caller that waits is on its way out. *)
OnItsWayOut(c) == c \in cancelled /\ pc[c] \in {"waiting", "waking", "checking", "refused", "cancelled"}

(* A cancel() that finds a caller blocked wins against every permit released later. *)
THEOREM SpecCancelledWaiterStaysOut == Spec => CancelledWaiterStaysOut
<1>1. ASSUME NEW c \in Callers
      PROVE  Spec => []((c \in cancelled /\ pc[c] \in {"waiting", "waking"}) => [](pc[c] # "verifying"))
  <2>1. IInv /\ OnItsWayOut(c) /\ [Next]_vars => OnItsWayOut(c)'
    <3> SUFFICES ASSUME IInv, OnItsWayOut(c), [Next]_vars PROVE OnItsWayOut(c)'
      OBVIOUS
    <3>1. pc \in [Callers -> PcValues] /\ Nobody \notin Callers
      BY AdmissionAssumption DEF IInv, Accounts, TypeOK
    <3>2. CASE UNCHANGED vars
      BY <3>2 DEF vars, OnItsWayOut
    <3>3. ASSUME NEW d \in Callers,
                 \/ EntryCheck(d) \/ Subscribe(d) \/ Enqueue(d) \/ GiveUp(d) \/ Admit(d)
                 \/ MustWait(d) \/ Block(d) \/ SpuriousWake(d) \/ Relock(d) \/ Release(d)
                 \/ Leave(d) \/ Cancel(d) \/ CancelCallback(d)
          PROVE  OnItsWayOut(c)'
      BY <3>1, <3>3
         DEF OnItsWayOut, Cancel, CancelCallback, EntryCheck, Subscribe, Enqueue, GiveUp, Admit,
             MustWait, Block, SpuriousWake, Relock, Release, Leave, NotifyAll
    <3> QED BY <3>2, <3>3 DEF Next
  <2>2. (c \in cancelled /\ pc[c] \in {"waiting", "waking"}) => OnItsWayOut(c)
    BY DEF OnItsWayOut
  <2>3. OnItsWayOut(c) => pc[c] # "verifying"
    BY DEF OnItsWayOut
  <2> QED BY <2>1, <2>2, <2>3, SpecIInv, PTL DEF Spec
<1> QED BY <1>1 DEF CancelledWaiterStaysOut

(* The line of FifoPermits without its fairness. *)
FifoSteps == Fifo!FifoInit /\ [][Fifo!FifoNext]_Fifo!fifoVars

(* As long as nobody can cancel, every step of the controller is a step of the line of     *)
(* FifoPermits or none: permits go to the head of the line, nobody is dropped from it, and *)
(* the deque is never popped when it is empty.                                             *)
THEOREM SpecFifoSteps == Spec => FifoSteps
<1>1. Init => Fifo!FifoInit
  BY SetupType DEF Init, Fifo!FifoInit, Holders
<1>2. IInv /\ [Next]_vars => [Fifo!FifoNext]_Fifo!fifoVars
  <2> SUFFICES ASSUME IInv, [Next]_vars PROVE [Fifo!FifoNext]_Fifo!fifoVars
    OBVIOUS
  <2>0. /\ pc \in [Callers -> PcValues] /\ queue \in Seq(Callers) /\ Nobody \notin Callers
        /\ setup' = setup /\ Capacity' = Capacity /\ Cancellable' = Cancellable
    <3>1. setup' = setup
      BY DEF Next, Cancel, CancelCallback, EntryCheck, Subscribe, Enqueue, GiveUp, Admit,
             MustWait, Block, SpuriousWake, Relock, Release, Leave, vars
    <3> QED BY <3>1, AdmissionAssumption DEF IInv, Accounts, TypeOK, Capacity, Cancellable
  <2>6. CASE Cancellable # {}
    BY <2>0, <2>6 DEF Fifo!fifoVars
  <2>7. CASE Cancellable = {}
    <3>0. cancelled = {} /\ skipped = 0
      BY <2>7 DEF IInv, TicketsKept
    <3>1. ASSUME NEW c \in Callers, Enqueue(c) PROVE Fifo!Join(c)
      <4>1. Holders' = Holders /\ c \notin Holders
        BY <2>0, <3>1 DEF Enqueue, NotifyAll, Holders
      <4>2. \A i \in 1..Len(queue) : queue[i] # c
        BY <3>1 DEF Enqueue, IInv, InLine, Waiting, InLoop
      <4>3. queue' = Append(queue, c)
        BY <3>0, <3>1 DEF Enqueue, PushTicket
      <4> QED BY <2>0, <2>7, <4>1, <4>2, <4>3 DEF Fifo!Join, Fifo!Queued
    <3>2. ASSUME NEW c \in Callers, Admit(c) PROVE Fifo!Enter
      <4>1. HasTicket(c)
        BY <2>7, <3>2 DEF IInv, TicketsKept, Lost, Waiting, InLoop, Admit
      <4>2. queue # <<>>
        BY <4>1 DEF HasTicket
      <4>3. Head(queue) = c /\ queue' = Tail(queue)
        BY <3>2, <4>2 DEF Admit, FrontMatches, PopTicket
      <4>4. Holders' = Holders \cup {c}
        BY <2>0, <3>2 DEF Admit, Holders
      <4>5. Cardinality(Holders) < Capacity
        BY <3>2, HoldersFinite, SetupType
           DEF Admit, IInv, Accounts, TypeOK, PermitsConserved
      <4> QED BY <2>0, <2>7, <4>2, <4>3, <4>4, <4>5 DEF Fifo!Enter, Fifo!Cardinality, Cardinality
    <3>3. ASSUME NEW c \in Callers, Release(c) PROVE Fifo!Leave(c)
      <4>1. c \in Holders /\ Holders' = Holders \ {c}
        BY <2>0, <3>3 DEF Release, NotifyAll, Holders
      <4>2. queue' = queue
        BY <3>3 DEF Release
      <4> QED BY <2>0, <2>7, <4>1, <4>2 DEF Fifo!Leave
    <3>4. ASSUME NEW c \in Callers,
                 \/ EntryCheck(c) \/ Subscribe(c) \/ MustWait(c) \/ Block(c) \/ SpuriousWake(c)
                 \/ Relock(c) \/ Leave(c) \/ Cancel(c) \/ CancelCallback(c)
          PROVE  UNCHANGED Fifo!fifoVars
      <4>1. queue' = queue
        BY <3>4 DEF EntryCheck, Subscribe, MustWait, Block, SpuriousWake, Relock, Leave, Cancel,
                    CancelCallback
      <4>2. Holders' = Holders
        BY <2>0, <3>4 DEF EntryCheck, Subscribe, MustWait, Block, SpuriousWake, Relock, Leave,
                          Cancel, CancelCallback, NotifyAll, Holders
      <4> QED BY <2>0, <4>1, <4>2 DEF Fifo!fifoVars
    <3>5. CASE UNCHANGED vars
      <4>1. queue' = queue /\ Holders' = Holders
        BY <3>5 DEF vars, Holders
      <4> QED BY <2>0, <4>1 DEF Fifo!fifoVars
    <3> QED BY <3>0, <3>1, <3>2, <3>3, <3>4, <3>5 DEF Next, GiveUp, Fifo!FifoNext
  <2> QED BY <2>6, <2>7
<1> QED BY <1>1, <1>2, SpecIInv, PTL DEF Spec, FifoSteps
=============================================================================
