----------------------------- MODULE SpinCounter -----------------------------
(***************************************************************************)
(* synchronization/spinlock/spinlock_example.c: the counter device again,  *)
(* under spin_lock_irqsave.  A thread runs only while it is on a CPU, and  *)
(* a CPU switches threads or takes an interrupt only while its interrupts  *)
(* are enabled; that is what makes spinning safe.  Each thread has a file  *)
(* of its own, and the module comes and goes.                              *)
(***************************************************************************)
EXTENDS CInt

CONSTANTS
  Threads,
  CPUs,
  Deltas,    \* numbers a user may write
  Counts,    \* sizes of the buffers handed to read()
  NoThread   \* a free lock, an idle CPU

ASSUME SpinAssumption == /\ Deltas \subseteq Int
                         /\ Counts \subseteq Nat
                         /\ NoThread \notin Threads

VARIABLES
  registered,      \* misc_register done, misc_deregister not yet
  running,         \* running[c]: the thread on CPU c
  irqs_on,         \* irqs_on[c]: CPU c accepts interrupts
  in_irq,          \* in_irq[c]: CPU c runs an interrupt handler
  counter_lock,    \* the thread that holds the spinlock
  shared_counter,
  op,              \* op[t]: "read" (my_read) or "write" (my_write)
  pc,
  pos,             \* pos[t]: f_pos of the file of t, Closed when it has none
  arg,             \* arg[t]: `delta` of my_write, `count` of my_read
  tmp,             \* tmp[t]: the value t has loaded
  flags,           \* flags[t]: the interrupt state t has saved
  answer           \* answer[t]: what the last call of t returned

cpu == <<running, irqs_on, in_irq>>
user == <<op, pos, arg, answer>>
vars == <<registered, cpu, counter_lock, shared_counter, pc, tmp, flags, user>>

Closed == -1
Answers == [ret : {"ok", "error", "eof"}, val : CInts]
Owning == {"load", "store", "unlock"}
Atomic == Owning \cup {"spin", "restore"}

TypeOK ==
  /\ registered \in BOOLEAN
  /\ running \in [CPUs -> Threads \cup {NoThread}]
  /\ irqs_on \in [CPUs -> BOOLEAN] /\ in_irq \in [CPUs -> BOOLEAN]
  /\ counter_lock \in Threads \cup {NoThread}
  /\ shared_counter \in CInts
  /\ op \in [Threads -> {"read", "write"}]
  /\ pc \in [Threads -> Atomic \cup {"idle", "irqsave", "copy"}]
  /\ pos \in [Threads -> Nat \cup {Closed}]
  /\ arg \in [Threads -> Int] /\ tmp \in [Threads -> CInts]
  /\ flags \in [Threads -> BOOLEAN]
  /\ answer \in [Threads -> Answers]

Init ==
  /\ registered = FALSE
  /\ running = [c \in CPUs |-> NoThread]
  /\ irqs_on = [c \in CPUs |-> TRUE] /\ in_irq = [c \in CPUs |-> FALSE]
  /\ counter_lock = NoThread
  /\ shared_counter = 0
  /\ op = [t \in Threads |-> "read"] /\ pc = [t \in Threads |-> "idle"]
  /\ pos = [t \in Threads |-> Closed]
  /\ arg = [t \in Threads |-> 0] /\ tmp = [t \in Threads |-> 0]
  /\ flags = [t \in Threads |-> TRUE]
  /\ answer = [t \in Threads |-> [ret |-> "ok", val |-> 0]]

-----------------------------------------------------------------------------
\* The kernel around the driver.
Dispatch(c, t) ==
  /\ irqs_on[c] /\ ~in_irq[c]
  /\ t # NoThread => \A d \in CPUs : running[d] # t
  /\ running' = [running EXCEPT ![c] = t]
  /\ UNCHANGED <<registered, irqs_on, in_irq, counter_lock, shared_counter, pc, tmp, flags, user>>

IrqEnter(c) ==
  /\ irqs_on[c] /\ ~in_irq[c]
  /\ in_irq' = [in_irq EXCEPT ![c] = TRUE]
  /\ UNCHANGED <<registered, running, irqs_on, counter_lock, shared_counter, pc, tmp, flags, user>>

IrqExit(c) ==
  /\ in_irq[c]
  /\ in_irq' = [in_irq EXCEPT ![c] = FALSE]
  /\ UNCHANGED <<registered, running, irqs_on, counter_lock, shared_counter, pc, tmp, flags, user>>

-----------------------------------------------------------------------------
\* Thread t, executing on CPU c, is at statement l.
At(t, c, l) == running[c] = t /\ ~in_irq[c] /\ pc[t] = l
Goto(t, l) == pc' = [pc EXCEPT ![t] = l]
Return(t, r, v) ==
  /\ Goto(t, "idle")
  /\ answer' = [answer EXCEPT ![t] = [ret |-> r, val |-> v]]
  /\ arg' = [arg EXCEPT ![t] = 0]
  /\ tmp' = [tmp EXCEPT ![t] = 0]

\* insmod; misc_register may fail.
my_init ==
  /\ ~registered
  /\ shared_counter' = 0
  /\ registered' \in BOOLEAN
  /\ UNCHANGED <<cpu, counter_lock, pc, tmp, flags, user>>

\* rmmod: open files hold a reference on the module (.owner = THIS_MODULE).
my_exit ==
  /\ registered
  /\ \A t \in Threads : pos[t] = Closed
  /\ registered' = FALSE
  /\ UNCHANGED <<cpu, counter_lock, shared_counter, pc, tmp, flags, user>>

Open(t, c) ==
  /\ At(t, c, "idle") /\ pos[t] = Closed
  /\ IF registered
       THEN pos' = [pos EXCEPT ![t] = 0] /\ UNCHANGED <<pc, arg, tmp, answer>>
       ELSE Return(t, "error", 0) /\ UNCHANGED pos
  /\ UNCHANGED <<registered, cpu, counter_lock, shared_counter, op, flags>>

Close(t, c) ==
  /\ At(t, c, "idle") /\ pos[t] # Closed
  /\ pos' = [pos EXCEPT ![t] = Closed]
  /\ UNCHANGED <<registered, cpu, counter_lock, shared_counter, pc, op, arg, tmp, flags, answer>>

ReadCall(t, c) ==
  /\ At(t, c, "idle") /\ pos[t] # Closed
  /\ IF pos[t] # 0
       THEN Return(t, "eof", 0) /\ UNCHANGED op
       ELSE /\ op' = [op EXCEPT ![t] = "read"]
            /\ \E n \in Counts : arg' = [arg EXCEPT ![t] = n]
            /\ Goto(t, "irqsave") /\ UNCHANGED <<tmp, answer>>
  /\ UNCHANGED <<registered, cpu, counter_lock, shared_counter, pos, flags>>

\* my_write refuses a bad count, buffer or text before it takes the lock.
WriteCall(t, c) ==
  /\ At(t, c, "idle") /\ pos[t] # Closed
  /\ \/ Return(t, "error", 0) /\ UNCHANGED op
     \/ /\ op' = [op EXCEPT ![t] = "write"]
        /\ \E d \in Deltas : arg' = [arg EXCEPT ![t] = d]
        /\ Goto(t, "irqsave") /\ UNCHANGED <<tmp, answer>>
  /\ UNCHANGED <<registered, cpu, counter_lock, shared_counter, pos, flags>>

\* Altered: spin_lock, which leaves interrupts as they are.
local_irq_save_Not(t, c) == UNCHANGED <<flags, irqs_on>>

local_irq_save(t, c) == /\ flags' = [flags EXCEPT ![t] = irqs_on[c]]
                        /\ irqs_on' = [irqs_on EXCEPT ![c] = FALSE]

\* spin_lock_irqsave: interrupts of this CPU off first, then spin for the lock.
IrqSave(t, c) ==
  /\ At(t, c, "irqsave")
  /\ local_irq_save(t, c)
  /\ Goto(t, "spin")
  /\ UNCHANGED <<registered, running, in_irq, counter_lock, shared_counter, tmp, user>>

\* Altered: no spinning.
spin_acquire_Unchecked(t) == counter_lock' = t

spin_acquire(t) == counter_lock = NoThread /\ counter_lock' = t

Acquire(t, c) ==
  /\ At(t, c, "spin")
  /\ spin_acquire(t)
  /\ Goto(t, "load")
  /\ UNCHANGED <<registered, cpu, shared_counter, tmp, flags, user>>

Load(t, c) ==
  /\ At(t, c, "load")
  /\ tmp' = [tmp EXCEPT ![t] = shared_counter]
  /\ Goto(t, IF op[t] = "read" THEN "unlock" ELSE "store")
  /\ UNCHANGED <<registered, cpu, counter_lock, shared_counter, flags, user>>

\* Altered: a counter as wide as delta, a long.
Updated_Long(t) == tmp[t] + arg[t]

Updated(t) == Wrap(tmp[t] + arg[t])

Store(t, c) ==
  /\ At(t, c, "store")
  /\ shared_counter' = Updated(t)
  /\ Goto(t, "unlock")
  /\ UNCHANGED <<registered, cpu, counter_lock, tmp, flags, user>>

\* spin_unlock_irqrestore: the lock first, then the interrupts.
Release(t, c) ==
  /\ At(t, c, "unlock")
  /\ counter_lock' = NoThread
  /\ Goto(t, "restore")
  /\ UNCHANGED <<registered, cpu, shared_counter, tmp, flags, user>>

\* Altered: spin_unlock, which leaves interrupts as they are.
local_irq_restore_Not(t, c) == UNCHANGED irqs_on

local_irq_restore(t, c) == irqs_on' = [irqs_on EXCEPT ![c] = flags[t]]

IrqRestore(t, c) ==
  /\ At(t, c, "restore")
  /\ local_irq_restore(t, c)
  /\ IF op[t] = "read" THEN Goto(t, "copy") /\ UNCHANGED <<tmp, arg, answer>>
                       ELSE Return(t, "ok", 0)
  /\ UNCHANGED <<registered, running, in_irq, counter_lock, shared_counter, flags, op, pos>>

\* Altered: a copy that faults is tried again.
Copy_Retries(t, c) ==
  /\ At(t, c, "copy")
  /\ Goto(t, "irqsave")
  /\ UNCHANGED <<registered, cpu, counter_lock, shared_counter, tmp, flags, user>>

\* copy_to_user is outside the lock; a short buffer or a fault is an error.
Copy(t, c) ==
  LET len == TextLen(tmp[t]) IN
  /\ At(t, c, "copy")
  /\ \/ Return(t, "error", 0) /\ UNCHANGED pos
     \/ arg[t] >= len /\ Return(t, "ok", tmp[t]) /\ pos' = [pos EXCEPT ![t] = @ + len]
  /\ UNCHANGED <<registered, cpu, counter_lock, shared_counter, op, flags>>

-----------------------------------------------------------------------------
InDriver(t, c) ==
  \/ IrqSave(t, c) \/ Acquire(t, c) \/ Load(t, c) \/ Store(t, c)
  \/ Release(t, c) \/ IrqRestore(t, c) \/ Copy(t, c)

Next ==
  \/ my_init \/ my_exit
  \/ \E c \in CPUs :
       \/ IrqEnter(c) \/ IrqExit(c)
       \/ \E t \in Threads \cup {NoThread} : Dispatch(c, t)
       \/ \E t \in Threads : \/ Open(t, c) \/ Close(t, c) \/ ReadCall(t, c) \/ WriteCall(t, c)
                            \/ InDriver(t, c)

Spec == Init /\ [][Next]_vars

\* Interrupt handlers end, the scheduler runs every thread again and again and
\* for long enough to make a step, and spinlocks are queued.
Fairness ==
  /\ \A c \in CPUs : WF_vars(IrqExit(c))
  /\ \A t \in Threads : /\ SF_vars(\E c \in CPUs : Dispatch(c, t))
                        /\ SF_vars(\E c \in CPUs : InDriver(t, c))

FairSpec == Spec /\ Fairness

-----------------------------------------------------------------------------
\* An add happens at the store, a get at the load.
Call(t) ==
  CASE pc[t] = "idle" -> [op |-> "none", arg |-> 0]
    [] op[t] = "write" /\ pc[t] \in {"irqsave", "spin", "load", "store"} -> [op |-> "add", arg |-> arg[t]]
    [] op[t] = "write" /\ pc[t] \in {"unlock", "restore"} -> [op |-> "added", arg |-> 0]
    [] op[t] = "read" /\ pc[t] \in {"irqsave", "spin", "load"} -> [op |-> "get", arg |-> 0]
    [] op[t] = "read" /\ pc[t] \in {"unlock", "restore", "copy"} -> [op |-> "got", arg |-> tmp[t]]

AbsCall == [t \in Threads |-> Call(t)]

Abstract == INSTANCE AtomicCounter WITH value <- shared_counter, call <- AbsCall

\* The spinlock makes each update and each read one atomic operation, just as
\* the mutex of MutexCounter does.
Linearizable == Abstract!Spec

\* A thread that spins for counter_lock or holds it stays on its CPU with
\* interrupts off: nobody spins for a lock whose holder has been preempted, and
\* no handler can interrupt the critical section.
HolderRuns ==
  \A t \in Threads :
    /\ pc[t] \in Atomic => \E c \in CPUs : running[c] = t /\ ~irqs_on[c] /\ ~in_irq[c]
    /\ pc[t] \in Owning <=> counter_lock = t

\* Nothing that may sleep (copy_to_user, or the return to user space) is
\* reached with interrupts off: every path restores what irqsave changed.
NoSleepInAtomic ==
  \A c \in CPUs : running[c] = NoThread \/ pc[running[c]] \notin Atomic => irqs_on[c]

\* Every call returns although spinning disables preemption.
CallsReturn == \A t \in Threads : pc[t] # "idle" ~> pc[t] = "idle"
=============================================================================
