--------------------------- MODULE SpinCounter_proof ---------------------------
(***************************************************************************)
(* Proofs about SpinCounter for any threads, CPUs, deltas and width of int: *)
(* critical sections are neither interrupted nor preempted, nothing that    *)
(* may sleep runs with interrupts off, and the driver implements           *)
(* AtomicCounter.                                                          *)
(*                                                                         *)
(* What HolderRuns and NoSleepInAtomic rely on besides each other: a       *)
(* thread runs on one CPU at most, and what irqsave has saved is "on".     *)
(***************************************************************************)
EXTENDS SpinCounter, FiniteSetTheorems, TLAPS

OneCPU == \A c, d \in CPUs : running[c] = running[d] /\ running[c] # NoThread => c = d

SavedOn == \A t \in Threads : pc[t] \in Atomic => flags[t] = TRUE

\* The first half of HolderRuns.
Undisturbed ==
  \A t \in Threads :
    pc[t] \in Atomic => \E c \in CPUs : running[c] = t /\ ~irqs_on[c] /\ ~in_irq[c]

LockHeld == \A t \in Threads : pc[t] \in Owning <=> counter_lock = t

CPUInv == OneCPU /\ SavedOn /\ Undisturbed /\ NoSleepInAtomic

\* A writer is about to add to the counter as it is; only readers copy.
FreshTmp ==
  \A t \in Threads : /\ pc[t] = "store" => op[t] = "write" /\ tmp[t] = shared_counter
                     /\ pc[t] = "copy" => op[t] = "read"

Pinned == \A t \in Threads : /\ pc[t] # "idle" => pos[t] # Closed
                             /\ pos[t] # Closed => registered

IInv == TypeOK /\ CPUInv /\ LockHeld /\ FreshTmp /\ Pinned

-----------------------------------------------------------------------------
LEMMA WrapType == ASSUME NEW x \in Int PROVE Wrap(x) \in CInts
  BY ModulusAssumption DEF Wrap, CInts, Half

LEMMA ZeroType == 0 \in CInts
  BY ModulusAssumption DEF CInts, Half

LEMMA CIntsInt == CInts \subseteq Int
  BY ModulusAssumption DEF CInts, Half

LEMMA TextLenType == ASSUME NEW x PROVE TextLen(x) \in Nat
<1> DEFINE D == {k \in 0 .. 9 : k = 0 \/ 10^k <= Abs(x)}
<1>1. IsFiniteSet(0 .. 9)
  <2>1. 0 \in Int /\ 9 \in Int
    OBVIOUS
  <2> QED
    BY <2>1, FS_Interval, Zenon
<1>2. Cardinality(D) \in Nat
  BY <1>1, FS_Subset, FS_CardinalityType
<1> QED
  BY <1>2 DEF TextLen

LEMMA AnswerType ==
  ASSUME NEW r \in {"ok", "error", "eof"}, NEW v \in CInts
  PROVE  [ret |-> r, val |-> v] \in Answers
  BY DEF Answers

LEMMA InitIInv == Init => IInv
<1> SUFFICES ASSUME Init PROVE IInv
  OBVIOUS
<1>1. TypeOK
  <2>1. pos \in [Threads -> Nat \cup {Closed}] /\ arg \in [Threads -> Int]
    BY DEF Init, Closed
  <2>2. [ret |-> "ok", val |-> 0] \in Answers
    BY ZeroType, AnswerType
  <2> QED
    BY <2>1, <2>2, ZeroType DEF Init, TypeOK, Atomic, Owning
<1>2. CPUInv
  BY SpinAssumption
     DEF Init, CPUInv, OneCPU, SavedOn, Undisturbed, NoSleepInAtomic, Atomic, Owning
<1>3. LockHeld
  BY SpinAssumption DEF Init, LockHeld, Owning
<1>4. FreshTmp /\ Pinned
  BY DEF Init, FreshTmp, Pinned
<1> QED
  BY <1>1, <1>2, <1>3, <1>4 DEF IInv

LEMMA NextTypeOK == TypeOK /\ [Next]_vars => TypeOK'
<1> SUFFICES ASSUME TypeOK, [Next]_vars PROVE TypeOK'
  OBVIOUS
<1> USE SpinAssumption, ZeroType, AnswerType
        DEF TypeOK, Goto, Atomic, Owning, cpu, user
<1>1. CASE my_init
  <2>1. registered' \in BOOLEAN
    BY <1>1, Zenon DEF my_init
  <2> QED
    BY <1>1, <2>1 DEF my_init
<1>2. CASE my_exit
  BY <1>2 DEF my_exit
<1>3. ASSUME NEW c \in CPUs, IrqEnter(c) \/ IrqExit(c)
      PROVE  TypeOK'
  BY <1>3 DEF IrqEnter, IrqExit
<1>4. ASSUME NEW c \in CPUs, NEW t \in Threads \cup {NoThread}, Dispatch(c, t)
      PROVE  TypeOK'
  BY <1>4 DEF Dispatch
<1>5. ASSUME NEW c \in CPUs, NEW t \in Threads, Open(t, c)
      PROVE  TypeOK'
  BY <1>5 DEF Open, Return
<1>6. ASSUME NEW c \in CPUs, NEW t \in Threads, Close(t, c)
      PROVE  TypeOK'
  BY <1>6 DEF Close
<1>7. ASSUME NEW c \in CPUs, NEW t \in Threads, ReadCall(t, c)
      PROVE  TypeOK'
  BY <1>7 DEF ReadCall, Return
<1>8. ASSUME NEW c \in CPUs, NEW t \in Threads, WriteCall(t, c)
      PROVE  TypeOK'
  BY <1>8 DEF WriteCall, Return
<1>9. ASSUME NEW c \in CPUs, NEW t \in Threads, IrqSave(t, c)
      PROVE  TypeOK'
  BY <1>9 DEF IrqSave, local_irq_save
<1>10. ASSUME NEW c \in CPUs, NEW t \in Threads, Acquire(t, c) \/ Load(t, c) \/ Release(t, c)
       PROVE  TypeOK'
  BY <1>10 DEF Acquire, spin_acquire, Load, Release
<1>11. ASSUME NEW c \in CPUs, NEW t \in Threads, Store(t, c)
       PROVE  TypeOK'
  <2>1. tmp[t] \in Int /\ arg[t] \in Int
    BY CIntsInt
  <2>2. Updated(t) \in CInts
    BY <2>1, WrapType DEF Updated
  <2> QED
    BY <1>11, <2>2 DEF Store
<1>12. ASSUME NEW c \in CPUs, NEW t \in Threads, IrqRestore(t, c)
       PROVE  TypeOK'
  BY <1>12 DEF IrqRestore, local_irq_restore, Return
<1>13. ASSUME NEW c \in CPUs, NEW t \in Threads, Copy(t, c)
       PROVE  TypeOK'
  <2>1. pos[t] \in Nat \cup {Closed} /\ TextLen(tmp[t]) \in Nat
    BY TextLenType
  <2>2. pos' \in [Threads -> Nat \cup {Closed}]
    BY <1>13, <2>1 DEF Copy, Closed
  <2> QED
    BY <1>13, <2>2 DEF Copy, Return
<1>14. CASE UNCHANGED vars
  BY <1>14 DEF vars
<1> QED
  BY <1>1, <1>2, <1>3, <1>4, <1>5, <1>6, <1>7, <1>8, <1>9, <1>10, <1>11, <1>12, <1>13, <1>14
     DEF Next, InDriver

-----------------------------------------------------------------------------
\* The interrupts.  A step that neither touches a CPU nor crosses the border of
\* the atomic section disturbs nothing.
LEMMA StaysPut ==
  ASSUME TypeOK, CPUInv, NEW t \in Threads, NEW l, Goto(t, l),
         pc[t] \in Atomic <=> l \in Atomic, UNCHANGED <<running, irqs_on, in_irq, flags>>
  PROVE  CPUInv'
<1> USE DEF TypeOK, CPUInv, Goto
<1>1. \A s \in Threads : pc'[s] \in Atomic <=> pc[s] \in Atomic
  OBVIOUS
<1>2. OneCPU'
  BY DEF OneCPU
<1>3. SavedOn' /\ Undisturbed'
  BY <1>1 DEF SavedOn, Undisturbed
<1>4. NoSleepInAtomic'
  BY <1>1 DEF NoSleepInAtomic
<1> QED
  BY <1>2, <1>3, <1>4

LEMMA IrqSaveStep ==
  ASSUME TypeOK, CPUInv, NEW c \in CPUs, NEW t \in Threads, IrqSave(t, c)
  PROVE  CPUInv'
<1> USE SpinAssumption DEF TypeOK, CPUInv, Goto, IrqSave, local_irq_save, At, Atomic, Owning
<1>1. irqs_on[c]
  BY DEF NoSleepInAtomic
<1>2. OneCPU'
  BY DEF OneCPU
<1>3. SavedOn'
  BY <1>1 DEF SavedOn
<1>4. Undisturbed'
  BY DEF Undisturbed
<1>5. NoSleepInAtomic'
  BY DEF NoSleepInAtomic, OneCPU
<1> QED
  BY <1>2, <1>3, <1>4, <1>5

LEMMA IrqRestoreStep ==
  ASSUME TypeOK, CPUInv, NEW c \in CPUs, NEW t \in Threads, IrqRestore(t, c)
  PROVE  CPUInv'
<1> USE SpinAssumption DEF TypeOK, CPUInv
<1>1. flags[t] = TRUE
  BY DEF IrqRestore, At, SavedOn, Atomic
<1>2. /\ At(t, c, "restore") /\ UNCHANGED <<running, in_irq, flags>>
      /\ irqs_on' = [irqs_on EXCEPT ![c] = TRUE]
      /\ Goto(t, "idle") \/ Goto(t, "copy")
  BY <1>1 DEF IrqRestore, local_irq_restore, Return
<1> USE DEF At, Goto, Atomic, Owning
<1>3. OneCPU'
  BY <1>2 DEF OneCPU
<1>4. SavedOn'
  BY <1>2 DEF SavedOn
<1>5. Undisturbed'
  BY <1>2 DEF Undisturbed
<1>6. NoSleepInAtomic'
  BY <1>2 DEF NoSleepInAtomic, OneCPU
<1> QED
  BY <1>3, <1>4, <1>5, <1>6

LEMMA NextCPUInv == TypeOK /\ CPUInv /\ [Next]_vars => CPUInv'
<1> SUFFICES ASSUME TypeOK, CPUInv, [Next]_vars PROVE CPUInv'
  OBVIOUS
<1>1. ASSUME UNCHANGED <<running, irqs_on, in_irq, flags, pc>>
      PROVE  CPUInv'
  BY <1>1 DEF CPUInv, OneCPU, SavedOn, Undisturbed, NoSleepInAtomic
<1>2. CASE my_init \/ my_exit \/ UNCHANGED vars
  BY <1>1, <1>2 DEF my_init, my_exit, vars, cpu
<1>3. ASSUME NEW c \in CPUs, IrqEnter(c) \/ IrqExit(c)
      PROVE  CPUInv'
  BY <1>3 DEF IrqEnter, IrqExit, TypeOK, CPUInv, OneCPU, SavedOn, Undisturbed, NoSleepInAtomic
<1>4. ASSUME NEW c \in CPUs, NEW t \in Threads \cup {NoThread}, Dispatch(c, t)
      PROVE  CPUInv'
  <2> USE <1>4 DEF Dispatch, TypeOK, CPUInv
  <2>1. OneCPU'
    BY DEF OneCPU
  <2>2. SavedOn' /\ Undisturbed'
    BY DEF SavedOn, Undisturbed
  <2>3. NoSleepInAtomic'
    BY DEF NoSleepInAtomic
  <2> QED
    BY <2>1, <2>2, <2>3
<1>5. ASSUME NEW c \in CPUs, NEW t \in Threads, Open(t, c) \/ Close(t, c)
      PROVE  CPUInv'
  <2>1. CASE Goto(t, "idle")
    BY <1>5, <2>1, StaysPut DEF Open, Close, At, cpu, Atomic, Owning
  <2>2. CASE UNCHANGED pc
    BY <1>1, <1>5, <2>2 DEF Open, Close, cpu
  <2> QED
    BY <1>5, <2>1, <2>2 DEF Open, Close, Return
<1>6. ASSUME NEW c \in CPUs, NEW t \in Threads, ReadCall(t, c) \/ WriteCall(t, c)
      PROVE  CPUInv'
  <2>1. \/ Goto(t, "idle")
        \/ Goto(t, "irqsave")
    BY <1>6 DEF ReadCall, WriteCall, Return
  <2>2. pc[t] = "idle" /\ UNCHANGED <<running, irqs_on, in_irq, flags>>
    BY <1>6 DEF ReadCall, WriteCall, At, cpu
  <2> QED
    BY <2>1, <2>2, StaysPut DEF Atomic, Owning
<1>7. ASSUME NEW c \in CPUs, NEW t \in Threads, Acquire(t, c) \/ Load(t, c) \/ Store(t, c) \/ Release(t, c)
      PROVE  CPUInv'
  <2>1. \E l \in Atomic : Goto(t, l)
    BY <1>7 DEF Acquire, Load, Store, Release, Atomic, Owning
  <2>2. pc[t] \in Atomic /\ UNCHANGED <<running, irqs_on, in_irq, flags>>
    BY <1>7 DEF Acquire, Load, Store, Release, At, cpu, Atomic, Owning
  <2> QED
    BY <2>1, <2>2, StaysPut
<1>8. ASSUME NEW c \in CPUs, NEW t \in Threads, Copy(t, c)
      PROVE  CPUInv'
  <2>1. Goto(t, "idle")
    BY <1>8 DEF Copy, Return
  <2>2. pc[t] = "copy" /\ UNCHANGED <<running, irqs_on, in_irq, flags>>
    BY <1>8 DEF Copy, At, cpu
  <2> QED
    BY <2>1, <2>2, StaysPut DEF Atomic, Owning
<1> QED
  BY <1>2, <1>3, <1>4, <1>5, <1>6, <1>7, <1>8, IrqSaveStep, IrqRestoreStep DEF Next, InDriver

-----------------------------------------------------------------------------
\* The lock and the counter.
LEMMA NextPinned == TypeOK /\ Pinned /\ [Next]_vars => Pinned'
<1> SUFFICES ASSUME TypeOK, Pinned, [Next]_vars PROVE Pinned'
  OBVIOUS
<1> USE DEF TypeOK, Pinned, Goto, At
<1>1. CASE my_init \/ my_exit \/ UNCHANGED vars
  BY <1>1 DEF my_init, my_exit, vars, user
<1>2. ASSUME NEW c \in CPUs, IrqEnter(c) \/ IrqExit(c)
      PROVE  Pinned'
  BY <1>2 DEF IrqEnter, IrqExit, user
<1>3. ASSUME NEW c \in CPUs, NEW t \in Threads \cup {NoThread}, Dispatch(c, t)
      PROVE  Pinned'
  BY <1>3 DEF Dispatch, user
<1>4. ASSUME NEW c \in CPUs, NEW t \in Threads, Open(t, c)
      PROVE  Pinned'
  BY <1>4 DEF Open, Return, Closed
<1>5. ASSUME NEW c \in CPUs, NEW t \in Threads, Close(t, c)
      PROVE  Pinned'
  BY <1>5 DEF Close
<1>6. ASSUME NEW c \in CPUs, NEW t \in Threads, ReadCall(t, c) \/ WriteCall(t, c)
      PROVE  Pinned'
  BY <1>6 DEF ReadCall, WriteCall, Return
<1>7. ASSUME NEW c \in CPUs, NEW t \in Threads,
             IrqSave(t, c) \/ Acquire(t, c) \/ Load(t, c) \/ Store(t, c) \/ Release(t, c)
      PROVE  Pinned'
  BY <1>7 DEF IrqSave, Acquire, Load, Store, Release, user
<1>8. ASSUME NEW c \in CPUs, NEW t \in Threads, IrqRestore(t, c)
      PROVE  Pinned'
  BY <1>8 DEF IrqRestore, Return
<1>9. ASSUME NEW c \in CPUs, NEW t \in Threads, Copy(t, c)
      PROVE  Pinned'
  <2>1. TextLen(tmp[t]) \in Nat
    BY TextLenType
  <2>2. pos[t] \in Nat
    BY <1>9 DEF Copy
  <2> QED
    BY <1>9, <2>1, <2>2 DEF Copy, Return, Closed
<1> QED
  BY <1>1, <1>2, <1>3, <1>4, <1>5, <1>6, <1>7, <1>8, <1>9 DEF Next, InDriver

LEMMA NextLockHeld == TypeOK /\ LockHeld /\ [Next]_vars => LockHeld'
<1> SUFFICES ASSUME TypeOK, LockHeld, [Next]_vars PROVE LockHeld'
  OBVIOUS
<1> USE SpinAssumption DEF TypeOK, LockHeld, Goto, At, Owning
<1>1. CASE my_init \/ my_exit \/ UNCHANGED vars
  BY <1>1 DEF my_init, my_exit, vars
<1>2. ASSUME NEW c \in CPUs, IrqEnter(c) \/ IrqExit(c)
      PROVE  LockHeld'
  BY <1>2 DEF IrqEnter, IrqExit
<1>3. ASSUME NEW c \in CPUs, NEW t \in Threads \cup {NoThread}, Dispatch(c, t)
      PROVE  LockHeld'
  BY <1>3 DEF Dispatch
<1>4. ASSUME NEW c \in CPUs, NEW t \in Threads,
             Open(t, c) \/ Close(t, c) \/ ReadCall(t, c) \/ WriteCall(t, c)
      PROVE  LockHeld'
  BY <1>4 DEF Open, Close, ReadCall, WriteCall, Return
<1>5. ASSUME NEW c \in CPUs, NEW t \in Threads, IrqSave(t, c) \/ IrqRestore(t, c) \/ Copy(t, c)
      PROVE  LockHeld'
  BY <1>5 DEF IrqSave, IrqRestore, Copy, Return
<1>6. ASSUME NEW c \in CPUs, NEW t \in Threads, Acquire(t, c)
      PROVE  LockHeld'
  BY <1>6 DEF Acquire, spin_acquire
<1>7. ASSUME NEW c \in CPUs, NEW t \in Threads, Load(t, c) \/ Store(t, c)
      PROVE  LockHeld'
  BY <1>7 DEF Load, Store
<1>8. ASSUME NEW c \in CPUs, NEW t \in Threads, Release(t, c)
      PROVE  LockHeld'
  BY <1>8 DEF Release
<1> QED
  BY <1>1, <1>2, <1>3, <1>4, <1>5, <1>6, <1>7, <1>8 DEF Next, InDriver

LEMMA IdleWhenUnloaded == Pinned /\ ~registered => \A t \in Threads : pc[t] = "idle"
  BY Zenon DEF Pinned

LEMMA NextFreshTmp ==
  TypeOK /\ LockHeld /\ FreshTmp /\ Pinned /\ [Next]_vars => FreshTmp'
<1> SUFFICES ASSUME TypeOK, LockHeld, FreshTmp, Pinned, [Next]_vars PROVE FreshTmp'
  OBVIOUS
<1>1. CASE my_init
  <2>1. \A t \in Threads : pc[t] = "idle"
    BY <1>1, IdleWhenUnloaded DEF my_init
  <2> QED
    BY <1>1, <2>1 DEF my_init, FreshTmp
<1> USE SpinAssumption DEF TypeOK, FreshTmp, Goto, At
<1>2. CASE my_exit \/ UNCHANGED vars
  BY <1>2 DEF my_exit, vars, user
<1>3. ASSUME NEW c \in CPUs, IrqEnter(c) \/ IrqExit(c)
      PROVE  FreshTmp'
  BY <1>3 DEF IrqEnter, IrqExit, user
<1>4. ASSUME NEW c \in CPUs, NEW t \in Threads \cup {NoThread}, Dispatch(c, t)
      PROVE  FreshTmp'
  BY <1>4 DEF Dispatch, user
<1>5. ASSUME NEW c \in CPUs, NEW t \in Threads, Open(t, c) \/ Close(t, c)
      PROVE  FreshTmp'
  BY <1>5 DEF Open, Close, Return
<1>6. ASSUME NEW c \in CPUs, NEW t \in Threads, ReadCall(t, c) \/ WriteCall(t, c)
      PROVE  FreshTmp'
  BY <1>6 DEF ReadCall, WriteCall, Return
<1>7. ASSUME NEW c \in CPUs, NEW t \in Threads, IrqSave(t, c) \/ Acquire(t, c) \/ Release(t, c)
      PROVE  FreshTmp'
  BY <1>7 DEF IrqSave, Acquire, Release, user
<1>8. ASSUME NEW c \in CPUs, NEW t \in Threads, Load(t, c)
      PROVE  FreshTmp'
  BY <1>8 DEF Load, user
<1>9. ASSUME NEW c \in CPUs, NEW t \in Threads, Store(t, c)
      PROVE  FreshTmp'
  <2>1. \A s \in Threads \ {t} : pc[s] # "store"
    BY <1>9 DEF Store, LockHeld, Owning
  <2> QED
    BY <1>9, <2>1 DEF Store, user
<1>10. ASSUME NEW c \in CPUs, NEW t \in Threads, IrqRestore(t, c)
       PROVE  FreshTmp'
  BY <1>10 DEF IrqRestore, Return
<1>11. ASSUME NEW c \in CPUs, NEW t \in Threads, Copy(t, c)
       PROVE  FreshTmp'
  BY <1>11 DEF Copy, Return
<1> QED
  BY <1>1, <1>2, <1>3, <1>4, <1>5, <1>6, <1>7, <1>8, <1>9, <1>10, <1>11 DEF Next, InDriver

LEMMA NextIInv == IInv /\ [Next]_vars => IInv'
  BY NextTypeOK, NextCPUInv, NextLockHeld, NextFreshTmp, NextPinned DEF IInv

-----------------------------------------------------------------------------
\* The counter stays an int whatever is added to it.
THEOREM TypeCorrect == Spec => []TypeOK
<1>1. IInv => TypeOK
  BY DEF IInv
<1> QED
  BY <1>1, InitIInv, NextIInv, PTL DEF Spec

\* From local_irq_save to local_irq_restore a thread is on its CPU, undisturbed
\* by handlers: nobody spins for a lock whose holder cannot run.
THEOREM CriticalSectionsRun == Spec => []HolderRuns
<1>1. IInv => HolderRuns
  BY Zenon DEF IInv, CPUInv, Undisturbed, LockHeld, HolderRuns
<1> QED
  BY <1>1, InitIInv, NextIInv, PTL DEF Spec

\* my_read and my_write leave the interrupts as they found them before anything
\* that may sleep.
THEOREM NoSleepWithIrqsOff == Spec => []NoSleepInAtomic
<1>1. IInv => NoSleepInAtomic
  BY DEF IInv, CPUInv
<1> QED
  BY <1>1, InitIInv, NextIInv, PTL DEF Spec

-----------------------------------------------------------------------------
\* The refinement.  A step of thread t changes the abstract call of t only.
LEMMA CallFrame ==
  ASSUME NEW t \in Threads, NEW c, Call(t)' = c,
         \A s \in Threads \ {t} : Call(s)' = Call(s)
  PROVE  AbsCall' = [AbsCall EXCEPT ![t] = c]
  BY DEF AbsCall

LEMMA OthersFrame ==
  ASSUME TypeOK, NEW t \in Threads, NEW l, Goto(t, l),
         UNCHANGED op \/ \E o : op' = [op EXCEPT ![t] = o],
         UNCHANGED arg \/ \E n : arg' = [arg EXCEPT ![t] = n],
         UNCHANGED tmp \/ \E v : tmp' = [tmp EXCEPT ![t] = v]
  PROVE  /\ pc'[t] = l
         /\ \A s \in Threads \ {t} : Call(s)' = Call(s)
  BY DEF TypeOK, Goto, Call

\* A statement that leaves the abstract call of its thread as it was.
LEMMA SilentStep ==
  ASSUME TypeOK, NEW t \in Threads, NEW l, Goto(t, l),
         UNCHANGED op, UNCHANGED arg,
         UNCHANGED tmp \/ \E v : tmp' = [tmp EXCEPT ![t] = v],
         UNCHANGED <<shared_counter, answer>>, Call(t)' = Call(t)
  PROVE  UNCHANGED Abstract!vars
<1>1. \A s \in Threads \ {t} : Call(s)' = Call(s)
  BY OthersFrame
<1>2. AbsCall' = AbsCall
  BY <1>1 DEF AbsCall
<1> QED
  BY <1>2 DEF Abstract!vars

LEMMA ReturnStep ==
  ASSUME TypeOK, NEW t \in Threads, NEW r, NEW v, Return(t, r, v), UNCHANGED op
  PROVE  /\ AbsCall' = [AbsCall EXCEPT ![t] = Abstract!NoCall]
         /\ answer' = [answer EXCEPT ![t] = Abstract!Answer(r, v)]
<1>1. pc'[t] = "idle" /\ \A s \in Threads \ {t} : Call(s)' = Call(s)
  BY OthersFrame DEF Return
<1>2. Call(t)' = Abstract!NoCall
  BY <1>1 DEF Call, Abstract!NoCall
<1>3. answer' = [answer EXCEPT ![t] = Abstract!Answer(r, v)]
  BY DEF Return, Abstract!Answer
<1> QED
  BY <1>1, <1>2, <1>3, CallFrame

LEMMA RefuseStep ==
  ASSUME TypeOK, NEW t \in Threads, pc[t] = "idle", NEW r \in {"error", "eof"},
         Return(t, r, 0), UNCHANGED op, UNCHANGED shared_counter
  PROVE  Abstract!Next
<1>1. AbsCall[t] = Abstract!NoCall
  BY DEF AbsCall, Call, Abstract!NoCall
<1>2. /\ AbsCall' = [AbsCall EXCEPT ![t] = Abstract!NoCall]
      /\ answer' = [answer EXCEPT ![t] = Abstract!Answer(r, 0)]
  BY ReturnStep
<1>3. AbsCall' = AbsCall
  BY <1>1, <1>2 DEF AbsCall
<1>4. Abstract!Refuse(t)
  BY <1>1, <1>2, <1>3 DEF Abstract!Refuse, Abstract!Errors
<1> QED
  BY <1>4 DEF Abstract!Next

\* A call that enters the driver is a call that begins.
LEMMA BeginStep ==
  ASSUME TypeOK, NEW t \in Threads, pc[t] = "idle", Goto(t, "irqsave"), NEW n,
         arg' = [arg EXCEPT ![t] = n], UNCHANGED <<tmp, answer, shared_counter>>,
         \/ op' = [op EXCEPT ![t] = "read"]
         \/ op' = [op EXCEPT ![t] = "write"] /\ n \in Deltas
  PROVE  Abstract!Next
<1>1. pc'[t] = "irqsave" /\ \A s \in Threads \ {t} : Call(s)' = Call(s)
  BY OthersFrame
<1>2. Call(t) = Abstract!NoCall
  BY DEF Call, Abstract!NoCall
<1>3. \/ Call(t)' = [op |-> "get", arg |-> 0]
      \/ n \in Deltas /\ Call(t)' = [op |-> "add", arg |-> n]
  BY <1>1 DEF Call, TypeOK
<1>4. \/ AbsCall' = [AbsCall EXCEPT ![t] = [op |-> "get", arg |-> 0]]
      \/ n \in Deltas /\ AbsCall' = [AbsCall EXCEPT ![t] = [op |-> "add", arg |-> n]]
  BY <1>1, <1>3, CallFrame
<1>5. Abstract!Begin(t)
  BY <1>2, <1>4 DEF AbsCall, Abstract!Begin
<1> QED
  BY <1>5 DEF Abstract!Next

LEMMA RefineNext == IInv /\ [Next]_vars => [Abstract!Next]_(Abstract!vars)
<1> SUFFICES ASSUME IInv, [Next]_vars PROVE [Abstract!Next]_(Abstract!vars)
  OBVIOUS
<1> USE DEF IInv
<1>0. \A t \in Threads : AbsCall[t] = Call(t)
  BY DEF AbsCall
<1>1. CASE my_init
  <2>1. \A t \in Threads : Call(t) = Abstract!NoCall
    BY <1>1, IdleWhenUnloaded DEF my_init, Call, Abstract!NoCall
  <2>2. AbsCall' = AbsCall
    BY <1>1 DEF my_init, AbsCall, Call, user
  <2>3. Abstract!Reset
    BY <1>0, <1>1, <2>1, <2>2 DEF my_init, user, Abstract!Reset
  <2> QED
    BY <2>3 DEF Abstract!Next
<1>2. ASSUME UNCHANGED <<shared_counter, pc, tmp, user>>
      PROVE  UNCHANGED Abstract!vars
  BY <1>2 DEF user, Abstract!vars, AbsCall, Call
<1>3. CASE my_exit \/ UNCHANGED vars
  BY <1>2, <1>3 DEF my_exit, vars
<1>4. ASSUME NEW c \in CPUs, IrqEnter(c) \/ IrqExit(c)
      PROVE  UNCHANGED Abstract!vars
  BY <1>2, <1>4 DEF IrqEnter, IrqExit
<1>5. ASSUME NEW c \in CPUs, NEW t \in Threads \cup {NoThread}, Dispatch(c, t)
      PROVE  UNCHANGED Abstract!vars
  BY <1>2, <1>5 DEF Dispatch
<1>6. ASSUME NEW c \in CPUs, NEW t \in Threads, Open(t, c)
      PROVE  [Abstract!Next]_(Abstract!vars)
  <2>1. CASE registered
    <3>1. UNCHANGED <<op, pc, arg, tmp, answer, shared_counter>>
      BY <1>6, <2>1 DEF Open
    <3> QED
      BY <3>1 DEF Abstract!vars, AbsCall, Call
  <2>2. CASE ~registered
    BY <1>6, <2>2, RefuseStep DEF Open, At
  <2> QED
    BY <2>1, <2>2
<1>7. ASSUME NEW c \in CPUs, NEW t \in Threads, Close(t, c)
      PROVE  UNCHANGED Abstract!vars
  BY <1>7 DEF Close, Abstract!vars, AbsCall, Call
<1>8. ASSUME NEW c \in CPUs, NEW t \in Threads, ReadCall(t, c)
      PROVE  Abstract!Next
  <2>1. CASE pos[t] # 0
    BY <1>8, <2>1, RefuseStep DEF ReadCall, At
  <2>2. CASE pos[t] = 0
    <3>1. PICK n \in Counts : arg' = [arg EXCEPT ![t] = n]
      BY <1>8, <2>2 DEF ReadCall
    <3> QED
      BY <1>8, <2>2, <3>1, BeginStep DEF ReadCall, At
  <2> QED
    BY <2>1, <2>2
<1>9. ASSUME NEW c \in CPUs, NEW t \in Threads, WriteCall(t, c)
      PROVE  Abstract!Next
  <2>1. CASE Return(t, "error", 0) /\ UNCHANGED op
    BY <1>9, <2>1, RefuseStep DEF WriteCall, At
  <2>2. CASE ~(Return(t, "error", 0) /\ UNCHANGED op)
    <3>1. PICK d \in Deltas : arg' = [arg EXCEPT ![t] = d]
      BY <1>9, <2>2 DEF WriteCall
    <3> QED
      BY <1>9, <2>2, <3>1, BeginStep DEF WriteCall, At
  <2> QED
    BY <2>1, <2>2
<1>10. ASSUME NEW c \in CPUs, NEW t \in Threads, IrqSave(t, c)
       PROVE  UNCHANGED Abstract!vars
  <2>1. Goto(t, "spin") /\ pc[t] = "irqsave" /\ UNCHANGED <<op, arg, tmp, answer, shared_counter>>
    BY <1>10 DEF IrqSave, At, user
  <2>2. Call(t)' = Call(t)
    BY <2>1 DEF Call, Goto, TypeOK
  <2> QED
    BY <2>1, <2>2, SilentStep
<1>11. ASSUME NEW c \in CPUs, NEW t \in Threads, Acquire(t, c)
       PROVE  UNCHANGED Abstract!vars
  <2>1. Goto(t, "load") /\ pc[t] = "spin" /\ UNCHANGED <<op, arg, tmp, answer, shared_counter>>
    BY <1>11 DEF Acquire, At, user
  <2>2. Call(t)' = Call(t)
    BY <2>1 DEF Call, Goto, TypeOK
  <2> QED
    BY <2>1, <2>2, SilentStep
<1>12. ASSUME NEW c \in CPUs, NEW t \in Threads, Load(t, c)
       PROVE  [Abstract!Next]_(Abstract!vars)
  <2>1. /\ pc[t] = "load" /\ UNCHANGED <<op, arg, answer, shared_counter>>
        /\ tmp' = [tmp EXCEPT ![t] = shared_counter]
    BY <1>12 DEF Load, At, user
  <2>2. CASE op[t] = "read"
    <3>1. Goto(t, "unlock")
      BY <1>12, <2>2 DEF Load
    <3>2. pc'[t] = "unlock" /\ \A s \in Threads \ {t} : Call(s)' = Call(s)
      BY <2>1, <3>1, OthersFrame
    <3>3. Call(t) = [op |-> "get", arg |-> 0] /\ Call(t)' = [op |-> "got", arg |-> shared_counter]
      BY <2>1, <2>2, <3>2 DEF Call, TypeOK
    <3>4. AbsCall' = [AbsCall EXCEPT ![t] = [op |-> "got", arg |-> shared_counter]]
      BY <3>2, <3>3, CallFrame
    <3>5. Abstract!Get(t)
      BY <1>0, <2>1, <3>3, <3>4 DEF Abstract!Get
    <3> QED
      BY <3>5 DEF Abstract!Next
  <2>3. CASE op[t] = "write"
    <3>1. Goto(t, "store")
      BY <1>12, <2>3 DEF Load
    <3>2. Call(t)' = Call(t)
      BY <2>1, <2>3, <3>1 DEF Call, Goto, TypeOK
    <3> QED
      BY <2>1, <3>1, <3>2, SilentStep
  <2> QED
    BY <2>2, <2>3 DEF TypeOK
<1>13. ASSUME NEW c \in CPUs, NEW t \in Threads, Store(t, c)
       PROVE  Abstract!Next
  <2>1. /\ Goto(t, "unlock") /\ UNCHANGED <<op, arg, tmp, answer>>
        /\ pc[t] = "store" /\ op[t] = "write" /\ tmp[t] = shared_counter
    BY <1>13 DEF Store, At, user, FreshTmp
  <2>2. pc'[t] = "unlock" /\ \A s \in Threads \ {t} : Call(s)' = Call(s)
    BY <2>1, OthersFrame
  <2>3. Call(t) = [op |-> "add", arg |-> arg[t]] /\ Call(t)' = [op |-> "added", arg |-> 0]
    BY <2>1, <2>2 DEF Call
  <2>4. AbsCall' = [AbsCall EXCEPT ![t] = [op |-> "added", arg |-> 0]]
    BY <2>2, <2>3, CallFrame
  <2>5. shared_counter' = Abstract!Wrap(shared_counter + arg[t])
    BY <1>13, <2>1 DEF Store, Updated, Wrap, Abstract!Wrap, Half, Abstract!Half
  <2>6. Abstract!Add(t)
    BY <1>0, <2>1, <2>3, <2>4, <2>5 DEF Abstract!Add
  <2> QED
    BY <2>6 DEF Abstract!Next
<1>14. ASSUME NEW c \in CPUs, NEW t \in Threads, Release(t, c)
       PROVE  UNCHANGED Abstract!vars
  <2>1. Goto(t, "restore") /\ pc[t] = "unlock" /\ UNCHANGED <<op, arg, tmp, answer, shared_counter>>
    BY <1>14 DEF Release, At, user
  <2>2. Call(t)' = Call(t)
    BY <2>1 DEF Call, Goto, TypeOK
  <2> QED
    BY <2>1, <2>2, SilentStep
<1>15. ASSUME NEW c \in CPUs, NEW t \in Threads, IrqRestore(t, c)
       PROVE  [Abstract!Next]_(Abstract!vars)
  <2>1. pc[t] = "restore" /\ UNCHANGED <<op, shared_counter>>
    BY <1>15 DEF IrqRestore, At
  <2>2. CASE op[t] = "read"
    <3>1. Goto(t, "copy") /\ UNCHANGED <<tmp, arg, answer>>
      BY <1>15, <2>2 DEF IrqRestore
    <3>2. Call(t)' = Call(t)
      BY <2>1, <2>2, <3>1 DEF Call, Goto, TypeOK
    <3> QED
      BY <2>1, <3>1, <3>2, SilentStep
  <2>3. CASE op[t] = "write"
    <3>1. Return(t, "ok", 0)
      BY <1>15, <2>3 DEF IrqRestore
    <3>2. AbsCall[t] = [op |-> "added", arg |-> 0]
      BY <1>0, <2>1, <2>3 DEF Call
    <3>3. Abstract!Finish(t)
      BY <2>1, <3>1, <3>2, ReturnStep DEF Abstract!Finish
    <3> QED
      BY <3>3 DEF Abstract!Next
  <2> QED
    BY <2>2, <2>3 DEF TypeOK
<1>16. ASSUME NEW c \in CPUs, NEW t \in Threads, Copy(t, c)
       PROVE  Abstract!Next
  <2>1. pc[t] = "copy" /\ op[t] = "read" /\ UNCHANGED <<op, shared_counter>>
    BY <1>16 DEF Copy, At, FreshTmp
  <2>2. AbsCall[t] = [op |-> "got", arg |-> tmp[t]]
    BY <1>0, <2>1 DEF Call
  <2>3. CASE Return(t, "error", 0)
    BY <2>1, <2>2, <2>3, ReturnStep DEF Abstract!Finish, Abstract!Errors, Abstract!Next
  <2>4. CASE Return(t, "ok", tmp[t])
    BY <2>1, <2>2, <2>4, ReturnStep DEF Abstract!Finish, Abstract!Next
  <2> QED
    BY <1>16, <2>3, <2>4 DEF Copy
<1> QED
  BY <1>1, <1>3, <1>4, <1>5, <1>6, <1>7, <1>8, <1>9, <1>10, <1>11, <1>12, <1>13, <1>14, <1>15, <1>16
     DEF Next, InDriver

\* The spinlock device keeps the promise of the counter device, as the mutex
\* device does: every write counts exactly once, every read answers a value the
\* counter had while the read was in progress.
THEOREM SpinCounterLinearizable == Spec => Linearizable
<1>1. Init => Abstract!Init
  BY DEF Init, Abstract!Init, AbsCall, Call, Abstract!NoCall, Abstract!Answer
<1> QED
  BY <1>1, InitIInv, NextIInv, RefineNext, PTL DEF Spec, Abstract!Spec, Linearizable
=============================================================================
