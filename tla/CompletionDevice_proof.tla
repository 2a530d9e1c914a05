------------------------ MODULE CompletionDevice_proof ------------------------
(***************************************************************************)
(* Proofs that my_exit of the completion driver leaves nothing running,    *)
(* that every read is backed by a complete() of its own, and that nobody   *)
(* sleeps over a completion, for any number of threads (as many as an      *)
(* unsigned int can count) and any number of loads and calls.              *)
(*                                                                         *)
(* NothingAfterUnload alone is not inductive: CancelWork waits only for    *)
(* the work, and relies on no thread being left in a call, where it could  *)
(* still schedule the work again.                                          *)
(*                                                                         *)
(* ReadsBackedByWork needs that neither `done` nor a value of it that      *)
(* somebody has loaded under the lock exceeds the credit; a                *)
(* reinit_completion in between only makes `done` smaller.                 *)
(*                                                                         *)
(* NoStrandedWaiter counts: while anybody sleeps, neither `done` nor a     *)
(* value of it that somebody has loaded exceeds the number of readers who  *)
(* are awake to take it (Covered).                                         *)
(***************************************************************************)
EXTENDS CompletionDevice, FiniteSetTheorems, TLAPS

\* A call holds its file open, which keeps rmmod away.
CallsNeedModule == module # "live" => \A t \in Threads : pc[t] = "idle"

Labels == Waiting \cup {"idle", "take", "copy", "reinit", "schedule", "start", "store"}

IInv ==
  /\ pc \in [Procs -> Labels]
  /\ CallsNeedModule
  /\ NothingAfterUnload

LEMMA InitIInv == Init => IInv
  BY CompletionAssumption DEF Init, IInv, CallsNeedModule, NothingAfterUnload, Procs, Labels, Waiting

LEMMA NextIInv == IInv /\ [Next]_vars => IInv'
<1> SUFFICES ASSUME IInv, [Next]_vars PROVE IInv'
  OBVIOUS
<1> USE CompletionAssumption DEF IInv, CallsNeedModule, NothingAfterUnload, Procs, Labels, Waiting, Goto
<1>1. CASE my_init
  BY <1>1 DEF my_init
<1>2. CASE ExitCall
  BY <1>2 DEF ExitCall
<1>3. CASE CancelWork
  BY <1>3 DEF CancelWork
<1>4. CASE Deregister
  BY <1>4 DEF Deregister
<1>5. CASE WorkStart
  BY <1>5 DEF WorkStart
<1>6. CASE Complete
  BY <1>6 DEF Complete, CompleteLoad, CompleteStore
<1>7. ASSUME NEW t \in Threads, WriteCall(t) \/ Reinit(t) \/ Schedule(t)
      PROVE  IInv'
  BY <1>7 DEF WriteCall, Reinit, Schedule
<1>8. ASSUME NEW t \in Threads, ReadCall(t) \/ ReadCopy(t)
      PROVE  IInv'
  BY <1>8 DEF ReadCall, ReadCopy
<1>9. ASSUME NEW t \in Threads, Wait(t)
      PROVE  IInv'
  <2>1. CASE WaitLock(t) \/ Wakened(t) \/ WaitTake(t)
    BY <2>1 DEF WaitLock, Wakened, WaitTake
  <2>2. CASE WaitTest(t)
    BY <2>2 DEF WaitTest
  <2> QED
    BY <1>9, <2>1, <2>2 DEF Wait
<1>10. CASE UNCHANGED vars
  BY <1>10 DEF vars
<1> QED
  BY <1>1, <1>2, <1>3, <1>4, <1>5, <1>6, <1>7, <1>8, <1>9, <1>10 DEF Next

\* Once my_exit has cancelled the work, no timer, no worker and no thread can
\* run code of the module or touch its data, however often it is loaded again.
THEOREM UnloadIsClean == Spec => []NothingAfterUnload
<1>1. IInv => NothingAfterUnload
  BY DEF IInv
<1> QED
  BY InitIInv, NextIInv, <1>1, PTL DEF Spec

-----------------------------------------------------------------------------
Holding == {"test", "take", "store"}

CountTypes ==
  /\ done \in 0 .. UIntMax /\ credit \in 0 .. UIntMax
  /\ reg \in [Procs -> 0 .. UIntMax]

\* One of the worker and the waiters at a time is between load and store.
LockHeld == \A p \in Procs : pc[p] \in Holding <=> lock = p

\* What is stored next is no more than the credit after it.
Backed ==
  /\ done <= credit
  /\ \A p \in Procs : /\ pc[p] = "store" => reg[p] <= credit
                      /\ pc[p] = "take" => reg[p] \in 1 .. credit

CountInv == IInv /\ CountTypes /\ LockHeld /\ Backed

LEMMA InitCountInv == Init => CountInv
<1> SUFFICES ASSUME Init PROVE CountInv
  OBVIOUS
<1>1. CountTypes /\ LockHeld /\ Backed
  BY CompletionAssumption DEF Init, CountTypes, LockHeld, Backed, Holding, Procs
<1> QED
  BY <1>1, InitIInv DEF CountInv

LEMMA NextCounts == CountInv /\ [Next]_vars => (CountTypes /\ LockHeld /\ Backed)'
<1> SUFFICES ASSUME CountInv, [Next]_vars PROVE (CountTypes /\ LockHeld /\ Backed)'
  OBVIOUS
<1>0. UIntMax \in Nat /\ \A p \in Procs : lock = Nobody => pc[p] \notin Holding
  BY CompletionAssumption DEF CountInv, LockHeld, Procs
<1>00. /\ done \in 0 .. UIntMax /\ credit \in 0 .. UIntMax /\ done <= credit
       /\ \A p \in Procs : /\ reg[p] \in 0 .. UIntMax
                           /\ pc[p] = "store" => reg[p] <= credit
                           /\ pc[p] = "take" => reg[p] \in 1 .. credit
  BY DEF CountInv, CountTypes, Backed
<1>1. CASE my_init
  <2>1. \A p \in Procs : pc[p] = "idle"
    BY <1>1 DEF my_init, CountInv, IInv, NothingAfterUnload
  <2> QED
    BY <1>0, <1>1, <2>1 DEF my_init, CountInv, CountTypes, LockHeld, Backed, Holding
<1> USE CompletionAssumption
        DEF CountInv, IInv, CountTypes, LockHeld, Backed, Holding, Procs, Labels, Waiting, Goto
<1>2. CASE ExitCall \/ CancelWork \/ Deregister \/ UNCHANGED vars
  BY <1>2 DEF ExitCall, CancelWork, Deregister, vars
<1>3. CASE WorkStart
  BY <1>3 DEF WorkStart
<1>4. CASE CompleteLoad
  BY <1>0, <1>4 DEF CompleteLoad
<1>5. CASE CompleteStore
  <2>1. done' \in 0 .. UIntMax /\ credit' \in 0 .. UIntMax /\ done' <= credit'
    <3>1. reg[Work] \in 0 .. UIntMax /\ reg[Work] <= credit /\ credit \in 0 .. UIntMax
      BY ONLY <1>00, <1>5 DEF CompleteStore, Procs
    <3>2. /\ done' = Completed(reg[Work])
          /\ credit' = IF credit = UIntMax THEN credit ELSE credit + 1
      BY <1>5 DEF CompleteStore
    <3> QED
      BY ONLY <1>0, <3>1, <3>2 DEF Completed
  <2>2. \A p \in Procs : p # Work => pc[p] \notin Holding
    BY <1>5 DEF CompleteStore
  <2>3. /\ pc' = [pc EXCEPT ![Work] = "idle"] /\ reg' = [reg EXCEPT ![Work] = 0]
        /\ lock' = Nobody
    BY <1>5 DEF CompleteStore
  <2>4. LockHeld'
    BY <2>2, <2>3
  <2>5. Backed' /\ CountTypes'
    BY <2>1, <2>2, <2>3
  <2> QED
    BY <2>4, <2>5
<1>6. ASSUME NEW t \in Threads, WriteCall(t) \/ Schedule(t) \/ ReadCall(t) \/ ReadCopy(t)
      PROVE  (CountTypes /\ LockHeld /\ Backed)'
  BY <1>6 DEF WriteCall, Schedule, ReadCall, ReadCopy
<1>7. ASSUME NEW t \in Threads, Reinit(t)
      PROVE  (CountTypes /\ LockHeld /\ Backed)'
  BY <1>7 DEF Reinit
<1>8. ASSUME NEW t \in Threads, WaitLock(t) \/ Wakened(t)
      PROVE  (CountTypes /\ LockHeld /\ Backed)'
  BY <1>0, <1>8 DEF WaitLock, Wakened
<1>9. ASSUME NEW t \in Threads, WaitTest(t)
      PROVE  (CountTypes /\ LockHeld /\ Backed)'
  <2>1. CASE done = 0
    BY <1>9, <2>1 DEF WaitTest
  <2>2. CASE done # 0
    BY <1>0, <1>9, <2>2 DEF WaitTest
  <2> QED
    BY <2>1, <2>2
<1>10. ASSUME NEW t \in Threads, WaitTake(t)
       PROVE  (CountTypes /\ LockHeld /\ Backed)'
  <2>1. done' \in 0 .. UIntMax /\ credit' \in 0 .. UIntMax /\ done' <= credit'
    <3>1. reg[t] \in 1 .. credit /\ reg[t] \in 0 .. UIntMax
      BY ONLY <1>00, <1>10 DEF WaitTake, Procs
    <3>2. /\ done' = IF reg[t] = UIntMax THEN done ELSE reg[t] - 1
          /\ credit' = IF reg[t] = UIntMax THEN credit ELSE credit - 1
      BY ONLY <1>10 DEF WaitTake
    <3> QED
      BY ONLY <1>0, <1>00, <3>1, <3>2
  <2>2. \A p \in Procs : p # t => pc[p] \notin Holding
    BY <1>10 DEF WaitTake
  <2>3. /\ pc' = [pc EXCEPT ![t] = "copy"] /\ reg' = [reg EXCEPT ![t] = 0]
        /\ lock' = Nobody
    BY <1>10 DEF WaitTake
  <2>4. LockHeld'
    BY <2>2, <2>3
  <2>5. Backed' /\ CountTypes'
    BY <2>1, <2>2, <2>3
  <2> QED
    BY <2>4, <2>5
<1> QED
  BY <1>1, <1>2, <1>3, <1>4, <1>5, <1>6, <1>7, <1>8, <1>9, <1>10 DEF Next, Complete, Wait

LEMMA NextCountInv == CountInv /\ [Next]_vars => CountInv'
  BY NextIInv, NextCounts DEF CountInv

\* However re-arming, completing and waiting interleave, no completion ends two
\* waits: at any time there have been at least as many complete() calls as waits
\* that have ended, unless UINT_MAX of them were left over, where `done` sticks.
THEOREM CompletionsTakenOnce == Spec => []ReadsBackedByWork
<1>1. CountInv => ReadsBackedByWork
  BY DEF CountInv, CountTypes, Backed, ReadsBackedByWork
<1> QED
  BY <1>1, InitCountInv, NextCountInv, PTL DEF Spec
-----------------------------------------------------------------------------
(***************************************************************************)
(* The queue.  NoStrandedWaiter needs that a `done` loaded under the lock, *)
(* and not only the `done` in memory, is covered by readers that are       *)
(* awake: between CompleteLoad and CompleteStore, and between WaitTest and *)
(* WaitTake, a reinit_completion can have changed the one in memory.       *)
(***************************************************************************)

\* The queue holds sleeping threads, each of them once.
SleepersQueued ==
  /\ \A k \in 1 .. Len(wait) : pc[wait[k]] = "sleep"
  /\ \A k, m \in 1 .. Len(wait) : wait[k] = wait[m] => k = m

TypesButLength ==
  /\ module \in {"unloaded", "live", "cancel", "deregister"}
  /\ done \in 0 .. UIntMax
  /\ wait \in Seq(Threads)
  /\ lock \in Procs \cup {Nobody}
  /\ pending \in BOOLEAN
  /\ pc \in [Procs -> Labels]
  /\ reg \in [Procs -> 0 .. UIntMax]
  /\ started \in [Threads -> BOOLEAN]
  /\ credit \in Int

\* Nobody takes a completion that was not there when it was loaded.
TakesSomething == \A p \in Procs : pc[p] = "take" => reg[p] # 0

\* While anybody sleeps there is an awake reader for every completion.
Covered ==
  wait # <<>> =>
    /\ done <= Cardinality(Awake)
    /\ \A p \in Procs : pc[p] \in {"store", "take"} => reg[p] <= Cardinality(Awake)

QInv == /\ IInv /\ TypesButLength /\ LockHeld
        /\ SleepersQueued /\ TakesSomething /\ Covered

\* A sequence without repetition is as long as its range is large.
LEMMA LengthOfQueue ==
  ASSUME wait \in Seq(Threads), \A k, m \in 1 .. Len(wait) : wait[k] = wait[m] => k = m
  PROVE  Len(wait) = Cardinality({t \in Threads : Queued(t)})
<1> DEFINE S == {t \in Threads : Queued(t)}
           f == [k \in 1 .. Len(wait) |-> wait[k]]
<1>1. f \in [1 .. Len(wait) -> S]
  BY DEF Queued
<1>2. \A k, m \in 1 .. Len(wait) : f[k] = f[m] => k = m
  OBVIOUS
<1>3. \A t \in S : \E k \in 1 .. Len(wait) : f[k] = t
  BY DEF Queued
<1>4. f \in Bijection(1 .. Len(wait), S)
  BY ONLY <1>1, <1>2, <1>3 DEF Bijection, Injection, Surjection, IsInjective
<1>5. Len(wait) \in Nat
  OBVIOUS
<1> HIDE DEF S, f
<1>6. ExistsBijection(1 .. Len(wait), S)
  BY <1>4 DEF ExistsBijection
<1>7. Cardinality(S) = Len(wait)
  BY <1>5, <1>6, FS_CountingElements
<1> QED
  BY <1>7 DEF S

LEMMA AwakeFinite ==
  /\ IsFiniteSet(Awake) /\ Cardinality(Awake) \in Nat
  /\ \A S \in SUBSET Awake : Cardinality(S) <= Cardinality(Awake)
<1>1. Awake \in SUBSET Threads
  BY DEF Awake
<1>2. IsFiniteSet(Awake)
  BY <1>1, ThreadsAssumption, FS_Subset
<1> QED
  BY <1>2, FS_Subset, FS_CardinalityType

LEMMA AwakeFinitePrimed == IsFiniteSet(Awake') /\ Cardinality(Awake') \in Nat
<1>1. Awake' \in SUBSET Threads
  BY DEF Awake
<1>2. IsFiniteSet(Awake')
  BY <1>1, ThreadsAssumption, FS_Subset
<1> QED
  BY <1>2, FS_CardinalityType

\* Someone who sleeps on the queue is not awake, so that fewer than UIntMax are.
LEMMA AwakeBelowMax ==
  ASSUME SleepersQueued, wait \in Seq(Threads), wait # <<>>
  PROVE  Cardinality(Awake) < UIntMax
<1> DEFINE h == wait[1]
<1>1. h \in Threads /\ h \notin Awake
  BY DEF SleepersQueued, Awake, Queued
<1>2. Awake \in SUBSET (Threads \ {h})
  BY <1>1 DEF Awake
<1>3. /\ IsFiniteSet(Threads \ {h})
      /\ Cardinality(Threads \ {h}) = Cardinality(Threads) - 1
  BY <1>1, ThreadsAssumption, FS_RemoveElement
<1>4. Cardinality(Awake) <= Cardinality(Threads \ {h})
  BY <1>2, <1>3, FS_Subset
<1>5. Cardinality(Threads) \in Nat /\ Cardinality(Awake) \in Nat
  BY ThreadsAssumption, FS_CardinalityType, AwakeFinite
<1> QED
  BY <1>3, <1>4, <1>5, ThreadsAssumption, CompletionAssumption

LEMMA InitQInv == Init => QInv
<1> SUFFICES ASSUME Init PROVE QInv
  OBVIOUS
<1>1. LockHeld /\ SleepersQueued /\ TakesSomething /\ Covered
  BY CompletionAssumption DEF Init, LockHeld, SleepersQueued, TakesSomething, Covered, Holding, Procs
<1>2. TypesButLength
  <2>1. pending \in BOOLEAN /\ started \in [Threads -> BOOLEAN]
    BY Zenon DEF Init
  <2>2. /\ done \in 0 .. UIntMax /\ reg \in [Procs -> 0 .. UIntMax]
        /\ credit \in Int
    BY CompletionAssumption DEF Init
  <2>3. wait \in Seq(Threads) /\ pc \in [Procs -> Labels]
    BY DEF Init, Labels, Waiting
  <2> QED
    BY <2>1, <2>2, <2>3 DEF Init, TypesButLength
<1> QED
  BY <1>1, <1>2, InitIInv DEF QInv

LEMMA NextTypesButLength == QInv /\ [Next]_vars => TypesButLength'
<1> SUFFICES ASSUME QInv, [Next]_vars PROVE TypesButLength'
  OBVIOUS
<1> USE CompletionAssumption DEF QInv, TypesButLength, Procs, Labels, Waiting, Goto
<1>1. CASE my_init
  <2>1. pending' \in BOOLEAN /\ started' \in [Threads -> BOOLEAN]
    BY <1>1, Zenon DEF my_init
  <2>2. done' \in 0 .. UIntMax /\ credit' \in Int
    BY <1>1 DEF my_init
  <2> QED
    BY <1>1, <2>1, <2>2 DEF my_init
<1>2. CASE ExitCall \/ CancelWork \/ Deregister \/ UNCHANGED vars
  BY <1>2 DEF ExitCall, CancelWork, Deregister, vars
<1>3. CASE WorkStart
  BY <1>3 DEF WorkStart
<1>4. CASE CompleteLoad
  BY <1>4 DEF CompleteLoad
<1>5. CASE CompleteStore
  <2>1. done' \in 0 .. UIntMax
    BY <1>5 DEF CompleteStore, Completed
  <2>2. wait' \in Seq(Threads)
    BY <1>5 DEF CompleteStore, wake_first
  <2> QED
    BY <1>5, <2>1, <2>2 DEF CompleteStore
<1>6. ASSUME NEW t \in Threads, WriteCall(t) PROVE TypesButLength'
  BY <1>6 DEF WriteCall
<1>7. ASSUME NEW t \in Threads, Reinit(t) \/ Schedule(t) PROVE TypesButLength'
  <2>1. done' \in 0 .. UIntMax
    BY <1>7 DEF Reinit, Schedule
  <2>2. pending' \in BOOLEAN
    BY <1>7, Zenon DEF Reinit, Schedule
  <2>3. started' \in [Threads -> BOOLEAN]
    BY <1>7 DEF Reinit, Schedule
  <2>4. pc' \in [Procs -> Labels]
    BY <1>7 DEF Reinit, Schedule
  <2> QED
    BY <1>7, <2>1, <2>2, <2>3, <2>4 DEF Reinit, Schedule
<1>8. ASSUME NEW t \in Threads, ReadCall(t) \/ ReadCopy(t) PROVE TypesButLength'
  BY <1>8 DEF ReadCall, ReadCopy
<1>9. ASSUME NEW t \in Threads, WaitLock(t) \/ Wakened(t) PROVE TypesButLength'
  BY <1>9 DEF WaitLock, Wakened
<1>10. ASSUME NEW t \in Threads, WaitTest(t) PROVE TypesButLength'
  <2>0. pc[t] = "test" /\ wait \in Seq(Threads) /\ \A k \in 1 .. Len(wait) : pc[wait[k]] = "sleep"
    BY <1>10 DEF WaitTest, SleepersQueued
  <2>1. ~Queued(t)
    <3>1. DOMAIN wait = 1 .. Len(wait)
      BY ONLY <2>0
    <3>2. \A k \in DOMAIN wait : wait[k] # t
      BY ONLY <2>0, <3>1
    <3> QED
      BY ONLY <3>2, Zenon DEF Queued
  <2>2. wait' = wait \/ wait' = Append(wait, t)
    BY <1>10, <2>1 DEF WaitTest
  <2>3. wait' \in Seq(Threads)
    <3>1. wait \in Seq(Threads)
      OBVIOUS
    <3> QED
      BY ONLY <2>2, <3>1, t \in Threads
  <2>4. /\ UNCHANGED <<module, done, pending, started, credit>>
        /\ \E l \in Labels : Goto(t, l)
        /\ reg' = reg \/ reg' = [reg EXCEPT ![t] = done]
        /\ lock' \in {lock, Nobody}
    BY ONLY <1>10 DEF WaitTest, Labels
  <2>5. pc' \in [Procs -> Labels] /\ reg' \in [Procs -> 0 .. UIntMax]
    <3>1. pc \in [Procs -> Labels] /\ reg \in [Procs -> 0 .. UIntMax] /\ done \in 0 .. UIntMax
      OBVIOUS
    <3> QED
      BY ONLY <2>4, <3>1 DEF Goto
  <2> QED
    BY <2>3, <2>4, <2>5, Zenon
<1>11. ASSUME NEW t \in Threads, WaitTake(t) PROVE TypesButLength'
  <2>1. done' \in 0 .. UIntMax
    BY <1>11 DEF WaitTake, TakesSomething
  <2> QED
    BY <1>11, <2>1 DEF WaitTake
<1> QED
  BY <1>1, <1>2, <1>3, <1>4, <1>5, <1>6, <1>7, <1>8, <1>9, <1>10, <1>11 DEF Next, Complete, Wait

LEMMA NextLockHeld == QInv /\ [Next]_vars => LockHeld' /\ TakesSomething'
<1> SUFFICES ASSUME QInv, [Next]_vars PROVE LockHeld' /\ TakesSomething'
  OBVIOUS
<1>0. \A p \in Procs : lock = Nobody => pc[p] \notin Holding
  BY CompletionAssumption DEF QInv, LockHeld, Procs
<1> USE CompletionAssumption
        DEF QInv, TypesButLength, LockHeld, TakesSomething, Holding, Procs, Labels, Waiting, Goto
<1>1. CASE my_init
  BY <1>1 DEF my_init
<1>2. CASE ExitCall \/ CancelWork \/ Deregister \/ UNCHANGED vars
  BY <1>2 DEF ExitCall, CancelWork, Deregister, vars
<1>3. CASE WorkStart
  BY <1>3 DEF WorkStart
<1>4. CASE CompleteLoad
  BY <1>0, <1>4 DEF CompleteLoad
<1>5. CASE CompleteStore
  BY <1>5 DEF CompleteStore
<1>6. ASSUME NEW t \in Threads, WriteCall(t) \/ Reinit(t) \/ Schedule(t)
      PROVE  LockHeld' /\ TakesSomething'
  BY <1>6 DEF WriteCall, Reinit, Schedule
<1>7. ASSUME NEW t \in Threads, ReadCall(t) \/ ReadCopy(t)
      PROVE  LockHeld' /\ TakesSomething'
  BY <1>7 DEF ReadCall, ReadCopy
<1>8. ASSUME NEW t \in Threads, WaitLock(t) \/ Wakened(t)
      PROVE  LockHeld' /\ TakesSomething'
  BY <1>0, <1>8 DEF WaitLock, Wakened
<1>9. ASSUME NEW t \in Threads, WaitTest(t)
      PROVE  LockHeld' /\ TakesSomething'
  <2>1. CASE done = 0
    BY <1>9, <2>1 DEF WaitTest
  <2>2. CASE done # 0
    BY <1>9, <2>2 DEF WaitTest
  <2> QED
    BY <2>1, <2>2
<1>10. ASSUME NEW t \in Threads, WaitTake(t)
       PROVE  LockHeld' /\ TakesSomething'
  BY <1>10 DEF WaitTake
<1> QED
  BY <1>1, <1>2, <1>3, <1>4, <1>5, <1>6, <1>7, <1>8, <1>9, <1>10 DEF Next, Complete, Wait

\* A thread that is not queued goes where it likes.
LEMMA SleepersKept ==
  ASSUME NEW t \in Threads, NEW l, SleepersQueued, Goto(t, l), wait' = wait,
         pc \in [Procs -> Labels], wait \in Seq(Threads),
         \A k \in 1 .. Len(wait) : wait[k] # t
  PROVE  SleepersQueued'
<1>1. \A k \in 1 .. Len(wait) : wait[k] \in Threads
  OBVIOUS
<1>2. \A k \in 1 .. Len(wait) : pc'[wait[k]] = pc[wait[k]]
  BY <1>1 DEF Goto, Procs
<1> QED
  BY <1>2 DEF SleepersQueued

LEMMA NextSleepers == QInv /\ [Next]_vars => SleepersQueued'
<1> SUFFICES ASSUME QInv, [Next]_vars PROVE SleepersQueued'
  OBVIOUS
<1>0. wait \in Seq(Threads) /\ \A k \in 1 .. Len(wait) : wait[k] \in Threads
  BY DEF QInv, TypesButLength
<1>00. SleepersQueued /\ pc \in [Procs -> Labels] /\ wait \in Seq(Threads)
  BY DEF QInv, TypesButLength
<1> USE CompletionAssumption
        DEF QInv, TypesButLength, SleepersQueued, Procs, Labels, Waiting, Goto
<1>1. CASE my_init
  BY <1>1 DEF my_init
<1>2. CASE ExitCall \/ CancelWork \/ Deregister \/ UNCHANGED vars
  BY <1>2 DEF ExitCall, CancelWork, Deregister, vars
<1>3. CASE WorkStart
  BY <1>0, <1>3 DEF WorkStart
<1>4. CASE CompleteLoad
  BY <1>0, <1>4 DEF CompleteLoad
<1>5. CASE CompleteStore
  <2>1. wait' = (IF wait = <<>> THEN wait ELSE Tail(wait)) /\ pc' = [pc EXCEPT ![Work] = "idle"]
    BY <1>5 DEF CompleteStore, wake_first
  <2>2. CASE wait = <<>>
    BY <2>1, <2>2
  <2>3. CASE wait # <<>>
    <3>1. Len(wait') = Len(wait) - 1 /\ \A k \in 1 .. Len(wait) - 1 : wait'[k] = wait[k + 1]
      BY <2>1, <2>3
    <3>0. Len(wait) \in Nat
      BY <1>0
    <3>2. \A k \in 1 .. Len(wait') : k + 1 \in 1 .. Len(wait) /\ wait'[k] = wait[k + 1]
      BY ONLY <3>0, <3>1
    <3>3. \A k \in 1 .. Len(wait') : pc'[wait'[k]] = "sleep"
      BY <1>0, <2>1, <3>2
    <3>4. \A k, m \in 1 .. Len(wait') : wait'[k] = wait'[m] => k + 1 = m + 1
      BY ONLY <3>2, \A k, m \in 1 .. Len(wait) : wait[k] = wait[m] => k = m
    <3> QED
      BY ONLY <3>3, <3>4 DEF SleepersQueued
  <2> QED
    BY <2>2, <2>3
<1>6. ASSUME NEW t \in Threads,
             WriteCall(t) \/ Reinit(t) \/ Schedule(t) \/ ReadCall(t) \/ ReadCopy(t) \/ WaitLock(t)
      PROVE  SleepersQueued'
  <2>1. wait' = wait /\ pc[t] # "sleep" /\ \E l \in Labels : Goto(t, l)
    BY ONLY <1>6 DEF WriteCall, Reinit, Schedule, ReadCall, ReadCopy, WaitLock, Labels, Waiting
  <2>2. \A k \in 1 .. Len(wait) : wait[k] # t
    BY ONLY <1>00, <2>1
  <2> QED
    BY ONLY <1>00, <2>1, <2>2, t \in Threads, SleepersKept
<1>9. ASSUME NEW t \in Threads, Wakened(t)
      PROVE  SleepersQueued'
  <2>1. wait' = wait /\ Goto(t, "lock") /\ "lock" \in Labels
    BY ONLY <1>9 DEF Wakened, Labels, Waiting
  <2>2. \A k \in 1 .. Len(wait) : wait[k] # t
    BY ONLY <1>0, <1>9 DEF Wakened, Queued
  <2> QED
    BY ONLY <1>00, <2>1, <2>2, t \in Threads, SleepersKept
<1>10. ASSUME NEW t \in Threads, WaitTest(t)
       PROVE  SleepersQueued'
  <2>1. ~Queued(t)
    BY <1>10 DEF WaitTest, Queued
  <2>2. CASE done = 0
    <3>1. wait' = Append(wait, t) /\ pc' = [pc EXCEPT ![t] = "sleep"]
      BY <1>10, <2>1, <2>2 DEF WaitTest
    <3>2. /\ Len(wait') = Len(wait) + 1 /\ wait'[Len(wait) + 1] = t
          /\ \A k \in 1 .. Len(wait) : wait'[k] = wait[k] /\ wait[k] # t
      BY <1>0, <2>1, <3>1 DEF Queued
    <3> QED
      BY <1>0, <3>1, <3>2
  <2>3. CASE done # 0
    BY <1>0, <1>10, <2>1, <2>3 DEF WaitTest, Queued
  <2> QED
    BY <2>2, <2>3
<1>11. ASSUME NEW t \in Threads, WaitTake(t)
       PROVE  SleepersQueued'
  <2>1. wait' = wait /\ pc[t] # "sleep" /\ Goto(t, "copy") /\ "copy" \in Labels
    BY ONLY <1>11 DEF WaitTake, Labels
  <2>2. \A k \in 1 .. Len(wait) : wait[k] # t
    BY ONLY <1>00, <2>1
  <2> QED
    BY ONLY <1>00, <2>1, <2>2, t \in Threads, SleepersKept
<1> QED
  BY <1>1, <1>2, <1>3, <1>4, <1>5, <1>6, <1>9, <1>10, <1>11 DEF Next, Complete, Wait

\* Awake loses a thread only when it goes to sleep or takes a completion.
LEMMA NextCovered == QInv /\ [Next]_vars => Covered'
<1> SUFFICES ASSUME QInv, [Next]_vars, wait' # <<>>
             PROVE  /\ done' <= Cardinality(Awake')
                    /\ \A p \in Procs : pc'[p] \in {"store", "take"} => reg'[p] <= Cardinality(Awake')
  BY DEF Covered
<1> DEFINE Goal == /\ done' <= Cardinality(Awake')
                   /\ \A p \in Procs : pc'[p] \in {"store", "take"} => reg'[p] <= Cardinality(Awake')
<1>0. /\ wait \in Seq(Threads) /\ \A k \in 1 .. Len(wait) : wait[k] \in Threads
      /\ \A p \in Procs : lock = Nobody => pc[p] \notin Holding
      /\ done \in Nat /\ UIntMax \in Nat /\ reg \in [Procs -> Nat]
      /\ pc \in [Procs -> Labels]
      /\ Work \in Procs /\ Work \notin Threads /\ Threads \subseteq Procs
  BY CompletionAssumption DEF QInv, TypesButLength, LockHeld, Procs
<1>00. Cardinality(Awake) \in Nat /\ Cardinality(Awake') \in Nat
  BY AwakeFinite, AwakeFinitePrimed
<1>000. wait # <<>> => /\ done <= Cardinality(Awake)
                       /\ \A p \in Procs : pc[p] \in {"store", "take"} => reg[p] <= Cardinality(Awake)
  BY DEF QInv, Covered
\* What a step gives that sends nobody to sleep and loads or stores no more
\* than `done`.
<1>1. ASSUME wait # <<>>, Awake \subseteq Awake', done' \in {done, 0},
             \A p \in Procs : pc'[p] \in {"store", "take"}
               => \/ pc[p] \in {"store", "take"} /\ reg'[p] = reg[p]
                  \/ reg'[p] = done
      PROVE  Goal
  <2>0. IsFiniteSet(Awake') /\ Awake \subseteq Awake'
    BY <1>1, AwakeFinitePrimed
  <2>1. Cardinality(Awake) <= Cardinality(Awake')
    BY ONLY <2>0, FS_Subset
  <2>2. done \in Nat /\ done <= Cardinality(Awake) /\ done <= Cardinality(Awake')
    BY ONLY <1>0, <1>00, <1>000, <1>1, <2>1
  <2>3. done' <= Cardinality(Awake')
    BY ONLY <1>00, <1>1, <2>2
  <2>4. ASSUME NEW p \in Procs, pc'[p] \in {"store", "take"}
        PROVE  reg'[p] <= Cardinality(Awake')
    <3>1. reg[p] \in Nat
      BY ONLY <1>0, p \in Procs
    <3> QED
      BY ONLY <1>00, <1>000, <1>1, <2>1, <2>2, <2>4, <3>1
  <2> QED
    BY ONLY <2>3, <2>4
<1> HIDE DEF Goal
<1>2. ASSUME my_init PROVE Goal
  <2>1. \A p \in Procs : pc[p] = "idle"
    BY <1>2 DEF my_init, QInv, IInv, NothingAfterUnload
  <2>2. wait = <<>>
    BY <1>0, <2>1 DEF QInv, SleepersQueued
  <2> QED
    BY <1>2, <2>2 DEF my_init
<1>3. ASSUME ExitCall \/ CancelWork \/ Deregister \/ UNCHANGED vars PROVE Goal
  <2>1. UNCHANGED <<wait, pc, done, reg>>
    BY <1>3 DEF ExitCall, CancelWork, Deregister, vars
  <2> QED
    BY <1>1, <2>1 DEF Awake, Queued
<1>4. ASSUME WorkStart PROVE Goal
  <2>1. UNCHANGED <<wait, done, reg>> /\ pc' = [pc EXCEPT ![Work] = "start"]
    BY <1>4 DEF WorkStart, Goto
  <2>2. Awake' = Awake
    BY <1>0, <2>1 DEF Awake, Queued
  <2> QED
    BY <1>0, <1>1, <2>1, <2>2
<1>5. ASSUME CompleteLoad PROVE Goal
  <2>1. /\ UNCHANGED <<wait, done>> /\ pc' = [pc EXCEPT ![Work] = "store"]
        /\ reg' = [reg EXCEPT ![Work] = done]
    BY <1>5 DEF CompleteLoad, Goto
  <2>2. Awake' = Awake
    BY <1>0, <2>1 DEF Awake, Queued
  <2> QED
    BY <1>0, <1>1, <2>1, <2>2
<1>6. ASSUME CompleteStore PROVE Goal
  <2>1. /\ done' = Completed(reg[Work]) /\ wait # <<>> /\ wait' = Tail(wait)
        /\ pc[Work] = "store" /\ pc' = [pc EXCEPT ![Work] = "idle"]
    BY <1>6 DEF CompleteStore, wake_first, Goto
  <2>2. \A p \in Procs : pc'[p] \notin {"store", "take"}
    <3>1. \A p \in Procs : p # Work => pc[p] \notin {"store", "take"}
      BY <1>0, <2>1 DEF QInv, LockHeld, Holding
    <3> QED
      BY <1>0, <2>1, <3>1
  <2> DEFINE h == wait[1]
  <2>3. h \in Threads /\ h \notin Awake /\ h \in Awake'
    <3>1. h \in Threads /\ Queued(h) /\ pc[h] = "sleep" /\ h # Work
      BY <1>0, <2>1 DEF QInv, SleepersQueued, Queued
    <3>2. \A k \in DOMAIN wait' : wait'[k] # h
      <4>1. \A k, m \in 1 .. Len(wait) : wait[k] = wait[m] => k = m
        BY DEF QInv, SleepersQueued
      <4>2. \A k \in DOMAIN wait' : k + 1 \in 2 .. Len(wait) /\ wait'[k] = wait[k + 1]
        BY ONLY <1>0, <2>1
      <4>3. \A k \in 2 .. Len(wait) : wait[k] # wait[1]
        BY ONLY <1>0, <4>1
      <4> QED
        BY ONLY <4>2, <4>3
    <3> QED
      BY <1>0, <2>1, <3>1, <3>2 DEF Awake, Queued
  <2>4. Awake \cup {h} \subseteq Awake'
    <3>1. \A k \in DOMAIN wait' : \E m \in DOMAIN wait : wait'[k] = wait[m]
      <4>1. \A k \in DOMAIN wait' : k + 1 \in DOMAIN wait /\ wait'[k] = wait[k + 1]
        BY <1>0, <2>1
      <4> QED
        BY ONLY <4>1
    <3>2. \A t \in Threads : pc'[t] = pc[t]
      BY <1>0, <2>1
    <3>3. \A t \in Threads : Queued(t)' => Queued(t)
      BY ONLY <3>1 DEF Queued
    <3> HIDE DEF h
    <3> QED
      BY <2>3, <3>2, <3>3 DEF Awake
  <2>5. Cardinality(Awake) + 1 <= Cardinality(Awake')
    <3>1. IsFiniteSet(Awake \cup {h}) /\ Cardinality(Awake \cup {h}) = Cardinality(Awake) + 1
      BY <2>3, AwakeFinite, FS_AddElement
    <3> QED
      BY <2>4, <3>1, AwakeFinitePrimed, FS_Subset
  <2>6. reg[Work] <= Cardinality(Awake)
    BY <1>0, <1>000, <2>1
  <2>7. done' <= Cardinality(Awake')
    <3>1. done' <= reg[Work] + 1 /\ done' \in Nat /\ reg[Work] \in Nat
      BY <1>0, <2>1 DEF Completed
    <3> QED
      BY ONLY <1>00, <2>5, <2>6, <3>1
  <2> QED
    BY <2>2, <2>7 DEF Goal
<1>7. ASSUME NEW t \in Threads, WriteCall(t) \/ Reinit(t) \/ Schedule(t) PROVE Goal
  <2>1. /\ UNCHANGED <<wait, reg>> /\ done' \in {done, 0}
        /\ pc[t] \in {"idle", "reinit", "schedule"}
        /\ \E l \in {"idle", "reinit", "schedule"} : pc' = [pc EXCEPT ![t] = l]
    BY <1>7 DEF WriteCall, Reinit, Schedule, Goto
  <2>2. Awake' = Awake
    BY <1>0, <2>1 DEF Awake, Queued
  <2> QED
    BY <1>0, <1>1, <2>1, <2>2
<1>8. ASSUME NEW t \in Threads, ReadCall(t) \/ ReadCopy(t) \/ WaitLock(t) \/ Wakened(t) PROVE Goal
  <2>1. /\ UNCHANGED <<wait, done, reg>> /\ pc[t] \notin {"store", "take"}
        /\ pc[t] = "copy" \/ pc'[t] \in {"lock", "test"}
        /\ \E l \in {"idle", "lock", "test"} : pc' = [pc EXCEPT ![t] = l]
    BY <1>0, <1>8 DEF ReadCall, ReadCopy, WaitLock, Wakened, Goto
  <2>2. Awake \subseteq Awake'
    BY <1>0, <2>1 DEF Awake, Queued
  <2> QED
    BY <1>0, <1>1, <2>1, <2>2
<1>9. ASSUME NEW t \in Threads, WaitTest(t) PROVE Goal
  <2>1. CASE done = 0
    <3>1. UNCHANGED <<done, reg>> /\ pc' = [pc EXCEPT ![t] = "sleep"] /\ pc[t] = "test"
      BY <1>9, <2>1 DEF WaitTest, Goto
    <3>2. \A p \in Procs : pc'[p] \notin {"store", "take"}
      BY <1>0, <3>1 DEF QInv, LockHeld, Holding
    <3> QED
      BY <1>00, <2>1, <3>1, <3>2 DEF Goal
  <2>2. CASE done # 0
    <3>1. ~Queued(t)
      BY <1>9 DEF WaitTest, Queued, QInv, SleepersQueued, TypesButLength
    <3>2. /\ UNCHANGED <<done, wait>> /\ pc' = [pc EXCEPT ![t] = "take"] /\ pc[t] = "test"
          /\ reg' = [reg EXCEPT ![t] = done]
      BY <1>9, <2>2, <3>1 DEF WaitTest, Goto
    <3>3. Awake' = Awake
      BY <1>0, <3>2 DEF Awake, Queued
    <3> QED
      BY <1>0, <1>1, <3>2, <3>3
  <2> QED
    BY <2>1, <2>2
<1>10. ASSUME NEW t \in Threads, WaitTake(t) PROVE Goal
  <2>1. /\ UNCHANGED wait /\ pc' = [pc EXCEPT ![t] = "copy"] /\ pc[t] = "take"
        /\ done' = IF reg[t] = UIntMax THEN done ELSE reg[t] - 1
    BY <1>10 DEF WaitTake, Goto
  <2>2. \A p \in Procs : pc'[p] \notin {"store", "take"}
    BY <1>0, <2>1 DEF QInv, LockHeld, Holding
  <2>3. Awake' = Awake \ {t} /\ t \in Awake
    BY <1>0, <2>1 DEF Awake, Queued
  <2>4. Cardinality(Awake') = Cardinality(Awake) - 1
    BY <2>3, AwakeFinite, FS_RemoveElement
  <2>5. reg[t] <= Cardinality(Awake) /\ reg[t] \in Nat
    BY <1>0, <1>000, <2>1
  <2>6. Cardinality(Awake) < UIntMax
    BY <1>0, <2>1, AwakeBelowMax DEF QInv
  <2>7. done' <= Cardinality(Awake')
    BY ONLY <1>0, <1>00, <2>1, <2>4, <2>5, <2>6
  <2> QED
    BY <2>2, <2>7 DEF Goal
<1>11. Goal
  BY <1>2, <1>3, <1>4, <1>5, <1>6, <1>7, <1>8, <1>9, <1>10 DEF Next, Complete, Wait
<1> QED
  BY <1>11 DEF Goal

LEMMA NextQInv == QInv /\ [Next]_vars => QInv'
  BY NextIInv, NextTypesButLength, NextLockHeld, NextSleepers, NextCovered DEF QInv

\* However re-arming, completing and waiting interleave, nobody sleeps over a
\* completion that no reader awake is about to take; `done` may even saturate.
THEOREM NobodyStranded == Spec => []NoStrandedWaiter
<1>1. QInv => NoStrandedWaiter
  BY DEF QInv, Covered, NoStrandedWaiter
<1> QED
  BY <1>1, InitQInv, NextQInv, PTL DEF Spec

\* The variables keep their types; the queue never holds a thread twice.
THEOREM CompletionTypes == Spec => []TypeOK
<1>1. QInv => TypeOK
  <2> SUFFICES ASSUME QInv PROVE TypeOK
    OBVIOUS
  <2>1. Len(wait) = Cardinality({t \in Threads : Queued(t)})
    BY LengthOfQueue DEF QInv, TypesButLength, SleepersQueued
  <2> QED
    BY <2>1 DEF QInv, TypesButLength, TypeOK, Labels
<1> QED
  BY <1>1, InitQInv, NextQInv, PTL DEF Spec
=============================================================================
