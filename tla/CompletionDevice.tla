--------------------------- MODULE CompletionDevice ---------------------------
(***************************************************************************)
(* synchronization/completion/completion_example.c: write() re-arms        *)
(* my_completion and schedules my_work for two seconds later; the work     *)
(* completes my_completion; read() waits for it.                           *)
(*                                                                         *)
(* complete() and wait_for_completion() (kernel/sched/completion.c) work   *)
(* under the lock inside the completion; reinit_completion() is a bare     *)
(* store to `done` that takes no lock and can fall between their loads and *)
(* their stores.  A delayed work that is still pending is not queued again.*)
(***************************************************************************)
EXTENDS Integers, Sequences, FiniteSets

CONSTANTS
  Threads,       \* user threads; a call is one open, read or write, close
  Work,          \* the worker that runs my_work
  Nobody,        \* the holder of a free lock
  UIntMax,       \* where `done` saturates
  WriteFirst     \* TRUE: a thread reads only after a write of its own

ASSUME CompletionAssumption ==
  /\ Work \notin Threads /\ Nobody \notin Threads \cup {Work}
  /\ UIntMax \in Nat \ {0}
  /\ WriteFirst \in BOOLEAN

\* Thread ids stay below 2^22 (PID_MAX_LIMIT), far from UINT_MAX.
ASSUME ThreadsAssumption == IsFiniteSet(Threads) /\ Cardinality(Threads) <= UIntMax

VARIABLES
  module,        \* "unloaded", "live", or inside my_exit: "cancel", "deregister"
  done, wait,    \* my_completion: the counter and the queue of its waiters
  lock,          \* holder of the lock inside my_completion
  pending,       \* my_work is armed or queued
  pc,            \* of the threads and of Work
  reg,           \* reg[p]: the value of `done` that p has loaded
  started,       \* started[t]: t has written since its last read (if WriteFirst)
  credit         \* ghost: the complete() calls that no wait has used up yet,
                 \* counted as far as UIntMax, where none is used up any more

vars == <<module, done, wait, lock, pending, pc, reg, started, credit>>

Procs == Threads \cup {Work}
Waiting == {"lock", "test", "sleep"}
Queued(t) == \E k \in DOMAIN wait : wait[k] = t
Dequeue(t) == SelectSeq(wait, LAMBDA u : u # t)

TypeOK ==
  /\ module \in {"unloaded", "live", "cancel", "deregister"}
  /\ done \in 0 .. UIntMax
  /\ wait \in Seq(Threads) /\ Len(wait) = Cardinality({t \in Threads : Queued(t)})
  /\ lock \in Procs \cup {Nobody}
  /\ pending \in BOOLEAN
  /\ pc \in [Procs -> Waiting \cup {"idle", "take", "copy", "reinit", "schedule", "start", "store"}]
  /\ reg \in [Procs -> 0 .. UIntMax]
  /\ started \in [Threads -> BOOLEAN]
  /\ credit \in Int

Init ==
  /\ module = "unloaded"
  /\ done = 0 /\ wait = <<>> /\ lock = Nobody
  /\ pending = FALSE
  /\ pc = [p \in Procs |-> "idle"]
  /\ reg = [p \in Procs |-> 0]
  /\ started = [t \in Threads |-> FALSE]
  /\ credit = 0

Goto(p, l) == pc' = [pc EXCEPT ![p] = l]

-----------------------------------------------------------------------------
\* insmod: my_init; misc_register may fail.
my_init ==
  /\ module = "unloaded"
  /\ done' = 0 /\ pending' = FALSE
  /\ module' \in {"unloaded", "live"}
  /\ started' = [t \in Threads |-> FALSE]
  /\ credit' = 0
  /\ UNCHANGED <<wait, lock, pc, reg>>

\* rmmod: refused while a call holds the device open; from here on open() fails.
ExitCall ==
  /\ module = "live"
  /\ \A t \in Threads : pc[t] = "idle"
  /\ module' = "cancel"
  /\ UNCHANGED <<done, wait, lock, pending, pc, reg, started, credit>>

\* Altered: cancel_delayed_work, which does not wait for running work.
CancelWork_NoSync ==
  /\ module = "cancel"
  /\ pending' = FALSE
  /\ module' = "deregister"
  /\ UNCHANGED <<done, wait, lock, pc, reg, started, credit>>

\* cancel_delayed_work_sync: no longer pending, and not running any more.
CancelWork ==
  /\ module = "cancel"
  /\ pc[Work] = "idle"
  /\ pending' = FALSE
  /\ module' = "deregister"
  /\ UNCHANGED <<done, wait, lock, pc, reg, started, credit>>

Deregister ==
  /\ module = "deregister"
  /\ module' = "unloaded"
  /\ UNCHANGED <<done, wait, lock, pending, pc, reg, started, credit>>

-----------------------------------------------------------------------------
\* my_write.
WriteCall(t) ==
  /\ module = "live" /\ pc[t] = "idle"
  /\ Goto(t, "reinit")
  /\ UNCHANGED <<module, done, wait, lock, pending, reg, started, credit>>

Reinit(t) ==
  /\ pc[t] = "reinit"
  /\ done' = 0
  /\ Goto(t, "schedule")
  /\ UNCHANGED <<module, wait, lock, pending, reg, started, credit>>

\* Nothing happens if my_work is pending; my_write ignores that it says so.
Schedule(t) ==
  /\ pc[t] = "schedule"
  /\ pending' = TRUE
  /\ started' = [started EXCEPT ![t] = WriteFirst]
  /\ Goto(t, "idle")
  /\ UNCHANGED <<module, done, wait, lock, reg, credit>>

-----------------------------------------------------------------------------
\* The timer has expired and the worker starts work_func: complete().
WorkStart ==
  /\ pending /\ pc[Work] = "idle"
  /\ pending' = FALSE
  /\ Goto(Work, "start")
  /\ UNCHANGED <<module, done, wait, lock, reg, started, credit>>

CompleteLoad ==
  /\ pc[Work] = "start" /\ lock = Nobody
  /\ lock' = Work
  /\ reg' = [reg EXCEPT ![Work] = done]
  /\ Goto(Work, "store")
  /\ UNCHANGED <<module, done, wait, pending, started, credit>>

\* Altered: complete_all.
Completed_All(d) == UIntMax

\* done++, which saturates.
Completed(d) == IF d = UIntMax THEN UIntMax ELSE d + 1

\* Altered: done is counted but nobody is woken.
wake_first_Missing == UNCHANGED wait

wake_first == wait' = IF wait = <<>> THEN wait ELSE Tail(wait)

CompleteStore ==
  /\ pc[Work] = "store"
  /\ done' = Completed(reg[Work])
  /\ wake_first
  /\ credit' = IF credit = UIntMax THEN credit ELSE credit + 1
  /\ lock' = Nobody
  /\ reg' = [reg EXCEPT ![Work] = 0]
  /\ Goto(Work, "idle")
  /\ UNCHANGED <<module, pending, started>>

-----------------------------------------------------------------------------
\* my_read.
ReadCall(t) ==
  /\ module = "live" /\ pc[t] = "idle"
  /\ WriteFirst => started[t]
  /\ started' = [started EXCEPT ![t] = FALSE]
  /\ Goto(t, "lock")
  /\ UNCHANGED <<module, done, wait, lock, pending, reg, credit>>

WaitLock(t) ==
  /\ pc[t] = "lock" /\ lock = Nobody
  /\ lock' = t
  /\ Goto(t, "test")
  /\ UNCHANGED <<module, done, wait, pending, reg, started, credit>>

\* Sleeps, queued, while done is 0; otherwise off the queue with done loaded.
WaitTest(t) ==
  /\ pc[t] = "test"
  /\ IF done = 0
       THEN /\ wait' = IF Queued(t) THEN wait ELSE Append(wait, t)
            /\ lock' = Nobody
            /\ Goto(t, "sleep") /\ UNCHANGED reg
       ELSE /\ wait' = IF Queued(t) THEN Dequeue(t) ELSE wait
            /\ reg' = [reg EXCEPT ![t] = done]
            /\ Goto(t, "take") /\ UNCHANGED lock
  /\ UNCHANGED <<module, done, pending, started, credit>>

\* Altered: being woken counts as done, which is not tested again.
Wakened_NoRetest(t) ==
  /\ pc[t] = "sleep" /\ ~Queued(t) /\ lock = Nobody
  /\ lock' = t
  /\ Goto(t, "take")
  /\ UNCHANGED <<module, done, wait, pending, reg, started, credit>>

\* schedule() returns once complete() has taken t off the queue.
Wakened(t) ==
  /\ pc[t] = "sleep" /\ ~Queued(t)
  /\ Goto(t, "lock")
  /\ UNCHANGED <<module, done, wait, lock, pending, reg, started, credit>>

\* done-- unless it is UINT_MAX, unlock.
WaitTake(t) ==
  /\ pc[t] = "take"
  /\ done' = IF reg[t] = UIntMax THEN done ELSE reg[t] - 1
  /\ credit' = IF reg[t] = UIntMax THEN credit ELSE credit - 1
  /\ lock' = Nobody
  /\ reg' = [reg EXCEPT ![t] = 0]
  /\ Goto(t, "copy")
  /\ UNCHANGED <<module, wait, pending, started>>

\* copy_to_user: -EFAULT and success alike end the call.
ReadCopy(t) ==
  /\ pc[t] = "copy"
  /\ Goto(t, "idle")
  /\ UNCHANGED <<module, done, wait, lock, pending, reg, started, credit>>

-----------------------------------------------------------------------------
Complete == CompleteLoad \/ CompleteStore
Wait(t) == WaitLock(t) \/ WaitTest(t) \/ Wakened(t) \/ WaitTake(t)

Next ==
  \/ my_init \/ ExitCall \/ CancelWork \/ Deregister
  \/ WorkStart \/ Complete
  \/ \E t \in Threads : WriteCall(t) \/ Reinit(t) \/ Schedule(t) \/ ReadCall(t) \/ Wait(t) \/ ReadCopy(t)

Spec == Init /\ [][Next]_vars

\* Timers expire, the worker and every runnable thread run, the completion's
\* spinlock is fair; nobody is obliged to call read(), write() or rmmod.
Fairness ==
  /\ WF_vars(WorkStart) /\ SF_vars(Complete)
  /\ WF_vars(CancelWork) /\ WF_vars(Deregister)
  /\ \A t \in Threads : /\ WF_vars(Reinit(t)) /\ WF_vars(Schedule(t))
                        /\ SF_vars(Wait(t)) /\ WF_vars(ReadCopy(t))

FairSpec == Spec /\ Fairness

-----------------------------------------------------------------------------
\* my_exit leaves no timer and no running work behind, and no thread is in the
\* driver: nothing can run code or touch data of the unloaded module.
NothingAfterUnload ==
  module \in {"deregister", "unloaded"} =>
    ~pending /\ \A p \in Procs : pc[p] = "idle"

\* The readers in wait_for_completion that run, or have been woken.
Awake == {t \in Threads : \/ pc[t] \in {"lock", "test", "take"}
                          \/ pc[t] = "sleep" /\ ~Queued(t)}

\* Nobody is left asleep over a completion: while waiters sleep, each unit of
\* `done` has a reader that is awake and about to take it, however re-arming
\* and completing interleave.
NoStrandedWaiter == wait # <<>> => done <= Cardinality(Awake)

\* No read returns without a complete() of its own: a completion is taken once,
\* although reinit_completion races with the counter's updates.  Only UIntMax
\* calls that nobody has used up make `done` stick there and end any number.
ReadsBackedByWork == credit >= 0 /\ (done = UIntMax => credit = UIntMax)

\* Writers come to an end: no completion is re-armed any more.  (Without it a
\* write can always fall between the wake-up of a reader and its test of `done`,
\* which then sleeps again: re-arming for ever can starve everybody.)
RearmingStops == <>[](\A t \in Threads : pc[t] # "reinit")

\* However often my_write has re-armed the completion under a reader that was
\* already woken: if re-arming stops, work that was under way while somebody
\* waited has ended a wait, itself or the work started by the last write.
WorkServesAReader ==
  RearmingStops =>
    ((\E t \in Threads : pc[t] \in Waiting) /\ (pending \/ pc[Work] # "idle")
       ~> \E t \in Threads : pc[t] = "copy")

\* A thread that starts a work with write() and then reads is told about it, at
\* least if no write() keeps re-arming the completion.
EveryClientServed ==
  RearmingStops => \A t \in Threads : pc[t] \in Waiting ~> pc[t] = "copy"
=============================================================================
