----------------------------- MODULE MutexCounter -----------------------------
(***************************************************************************)
(* synchronization/mutex/mutex_example.c: a misc device whose counter is   *)
(* read and updated under counter_lock by any number of threads, each with *)
(* an open file of its own (one `cat` or `echo` per thread).               *)
(*                                                                         *)
(* shared_counter += delta is a load and a store, so that a lock that is   *)
(* missing shows.  pc[t] is the next statement of thread t inside my_read  *)
(* or my_write.  The user's count and text, and whether the copy to or     *)
(* from the user faults, are chosen by the environment.                    *)
(***************************************************************************)
EXTENDS CInt

CONSTANTS
  Threads,
  Deltas,    \* numbers a user may write (kstrtol accepts them)
  Counts,    \* sizes of the buffers handed to read()
  NoThread   \* owner of the mutex when it is free

ASSUME CounterAssumption ==
  /\ Deltas \subseteq Int
  /\ Counts \subseteq Nat
  /\ NoThread \notin Threads

VARIABLES
  registered,      \* misc_register done, misc_deregister not yet
  counter_lock,    \* the thread that holds the mutex
  shared_counter,
  pc,
  pos,             \* pos[t]: f_pos of the file of t, Closed when it has none
  arg,             \* arg[t]: `delta` of my_write, `count` of my_read
  tmp,             \* tmp[t]: the value t has loaded
  answer           \* answer[t]: what the last call of t returned

vars == <<registered, counter_lock, shared_counter, pc, pos, arg, tmp, answer>>

Closed == -1
Answers == [ret : {"ok", "error", "eof"}, val : CInts]
ReadPCs == {"r_lock", "r_load", "r_unlock", "r_copy"}
WritePCs == {"w_lock", "w_load", "w_store", "w_unlock"}
Locked == {"r_load", "r_unlock", "w_load", "w_store", "w_unlock"}

TypeOK ==
  /\ registered \in BOOLEAN
  /\ counter_lock \in Threads \cup {NoThread}
  /\ shared_counter \in CInts
  /\ pc \in [Threads -> {"idle"} \cup ReadPCs \cup WritePCs]
  /\ pos \in [Threads -> Nat \cup {Closed}]
  /\ arg \in [Threads -> Int]
  /\ tmp \in [Threads -> CInts]
  /\ answer \in [Threads -> Answers]

Init ==
  /\ registered = FALSE
  /\ counter_lock = NoThread
  /\ shared_counter = 0
  /\ pc = [t \in Threads |-> "idle"]
  /\ pos = [t \in Threads |-> Closed]
  /\ arg = [t \in Threads |-> 0]
  /\ tmp = [t \in Threads |-> 0]
  /\ answer = [t \in Threads |-> [ret |-> "ok", val |-> 0]]

Goto(t, l) == pc' = [pc EXCEPT ![t] = l]

\* A call ends: its locals are gone, its result is what the user sees.
Return(t, r, v) ==
  /\ Goto(t, "idle")
  /\ answer' = [answer EXCEPT ![t] = [ret |-> r, val |-> v]]
  /\ arg' = [arg EXCEPT ![t] = 0]
  /\ tmp' = [tmp EXCEPT ![t] = 0]

-----------------------------------------------------------------------------
\* insmod: my_init; misc_register may fail, and then the module is not loaded.
my_init ==
  /\ ~registered
  /\ shared_counter' = 0
  /\ registered' \in BOOLEAN
  /\ UNCHANGED <<counter_lock, pc, pos, arg, tmp, answer>>

\* Altered: fops without .owner.
my_exit_NoOwner ==
  /\ registered
  /\ registered' = FALSE
  /\ UNCHANGED <<counter_lock, shared_counter, pc, pos, arg, tmp, answer>>

\* rmmod: open files hold a reference on the module (.owner = THIS_MODULE).
my_exit ==
  /\ registered
  /\ \A t \in Threads : pos[t] = Closed
  /\ registered' = FALSE
  /\ UNCHANGED <<counter_lock, shared_counter, pc, pos, arg, tmp, answer>>

Open(t) ==
  /\ pc[t] = "idle" /\ pos[t] = Closed
  /\ IF registered
       THEN pos' = [pos EXCEPT ![t] = 0] /\ UNCHANGED <<pc, arg, tmp, answer>>
       ELSE Return(t, "error", 0) /\ UNCHANGED pos
  /\ UNCHANGED <<registered, counter_lock, shared_counter>>

Close(t) ==
  /\ pc[t] = "idle" /\ pos[t] # Closed
  /\ pos' = [pos EXCEPT ![t] = Closed]
  /\ UNCHANGED <<registered, counter_lock, shared_counter, pc, arg, tmp, answer>>

\* Altered: the result of a mutex_trylock is not looked at.
mutex_lock_Unchecked(t, next) ==
  /\ counter_lock' = IF counter_lock = NoThread THEN t ELSE counter_lock
  /\ Goto(t, next)

mutex_lock(t, next) ==
  /\ counter_lock = NoThread
  /\ counter_lock' = t
  /\ Goto(t, next)

mutex_unlock(t) == counter_lock' = NoThread

-----------------------------------------------------------------------------
\* my_read: end of file at any position but 0.
ReadCall(t) ==
  /\ pc[t] = "idle" /\ pos[t] # Closed
  /\ IF pos[t] # 0
       THEN Return(t, "eof", 0)
       ELSE /\ \E n \in Counts : arg' = [arg EXCEPT ![t] = n]
            /\ Goto(t, "r_lock") /\ UNCHANGED <<tmp, answer>>
  /\ UNCHANGED <<registered, counter_lock, shared_counter, pos>>

ReadLock(t) ==
  /\ pc[t] = "r_lock"
  /\ mutex_lock(t, "r_load")
  /\ UNCHANGED <<registered, shared_counter, pos, arg, tmp, answer>>

ReadLoad(t) ==
  /\ pc[t] = "r_load"
  /\ tmp' = [tmp EXCEPT ![t] = shared_counter]
  /\ Goto(t, "r_unlock")
  /\ UNCHANGED <<registered, counter_lock, shared_counter, pos, arg, answer>>

ReadUnlock(t) ==
  /\ pc[t] = "r_unlock"
  /\ mutex_unlock(t)
  /\ Goto(t, "r_copy")
  /\ UNCHANGED <<registered, shared_counter, pos, arg, tmp, answer>>

\* Altered: a copy that faults is tried again.
ReadCopy_Retries(t) ==
  /\ pc[t] = "r_copy"
  /\ Goto(t, "r_lock")
  /\ UNCHANGED <<registered, counter_lock, shared_counter, pos, arg, tmp, answer>>

\* Formats outside the lock; a short buffer (EINVAL) or a copy that faults
\* (EFAULT) leaves *ppos alone.
ReadCopy(t) ==
  LET len == TextLen(tmp[t]) IN
  /\ pc[t] = "r_copy"
  /\ \/ Return(t, "error", 0) /\ UNCHANGED pos
     \/ arg[t] >= len /\ Return(t, "ok", tmp[t]) /\ pos' = [pos EXCEPT ![t] = @ + len]
  /\ UNCHANGED <<registered, counter_lock, shared_counter>>

-----------------------------------------------------------------------------
\* my_write refuses a count of 0 or of 32 and more, a buffer that faults and a
\* text kstrtol cannot convert, all before it takes the lock.
WriteCall(t) ==
  /\ pc[t] = "idle" /\ pos[t] # Closed
  /\ \/ Return(t, "error", 0)
     \/ /\ \E d \in Deltas : arg' = [arg EXCEPT ![t] = d]
        /\ Goto(t, "w_lock") /\ UNCHANGED <<tmp, answer>>
  /\ UNCHANGED <<registered, counter_lock, shared_counter, pos>>

WriteLock(t) ==
  /\ pc[t] = "w_lock"
  /\ mutex_lock(t, "w_load")
  /\ UNCHANGED <<registered, shared_counter, pos, arg, tmp, answer>>

WriteLoad(t) ==
  /\ pc[t] = "w_load"
  /\ tmp' = [tmp EXCEPT ![t] = shared_counter]
  /\ Goto(t, "w_store")
  /\ UNCHANGED <<registered, counter_lock, shared_counter, pos, arg, answer>>

\* Altered: a counter as wide as delta, a long.
Updated_Long(t) == tmp[t] + arg[t]

\* shared_counter += delta, an int plus a long stored in an int.
Updated(t) == Wrap(tmp[t] + arg[t])

WriteStore(t) ==
  /\ pc[t] = "w_store"
  /\ shared_counter' = Updated(t)
  /\ Goto(t, "w_unlock")
  /\ UNCHANGED <<registered, counter_lock, pos, arg, tmp, answer>>

WriteUnlock(t) ==
  /\ pc[t] = "w_unlock"
  /\ mutex_unlock(t)
  /\ Return(t, "ok", 0)
  /\ UNCHANGED <<registered, shared_counter, pos>>

-----------------------------------------------------------------------------
InDriver(t) ==
  \/ ReadLock(t) \/ ReadLoad(t) \/ ReadUnlock(t) \/ ReadCopy(t)
  \/ WriteLock(t) \/ WriteLoad(t) \/ WriteStore(t) \/ WriteUnlock(t)

Next == \/ my_init \/ my_exit
        \/ \E t \in Threads : Open(t) \/ Close(t) \/ ReadCall(t) \/ WriteCall(t) \/ InDriver(t)

Spec == Init /\ [][Next]_vars

\* The scheduler runs every runnable thread, and a mutex is handed to its
\* waiters in turn, so a waiter is not passed over for ever.
Fairness == \A t \in Threads :
              /\ WF_vars(InDriver(t))
              /\ SF_vars(ReadLock(t)) /\ SF_vars(WriteLock(t))

FairSpec == Spec /\ Fairness

-----------------------------------------------------------------------------
\* The mapping to the abstract counter: an add happens at the store, a get at
\* the load.
Call(t) ==
  CASE pc[t] = "idle"                          -> [op |-> "none", arg |-> 0]
    [] pc[t] \in {"w_lock", "w_load", "w_store"} -> [op |-> "add", arg |-> arg[t]]
    [] pc[t] = "w_unlock"                      -> [op |-> "added", arg |-> 0]
    [] pc[t] \in {"r_lock", "r_load"}           -> [op |-> "get", arg |-> 0]
    [] pc[t] \in {"r_unlock", "r_copy"}         -> [op |-> "got", arg |-> tmp[t]]

AbsCall == [t \in Threads |-> Call(t)]

Abstract == INSTANCE AtomicCounter WITH value <- shared_counter, call <- AbsCall

\* Every update counts once and every read answers a value the counter really
\* had during the call: the locked load and store of my_write and the locked
\* load of my_read behave as single atomic operations.
Linearizable == Abstract!Spec

\* counter_lock covers the whole read-modify-write: the holder is exactly the
\* thread between mutex_lock and mutex_unlock, and the value a writer is about
\* to store is computed from the counter as it still is.
NoLostUpdate ==
  /\ \A t \in Threads : pc[t] \in Locked <=> counter_lock = t
  /\ \A t \in Threads : pc[t] = "w_store" => tmp[t] = shared_counter

\* The module is never unloaded, nor its counter reset, under a thread that
\* is inside my_read or my_write.
NoCallWithoutModule ==
  \A t \in Threads : /\ pc[t] # "idle" => pos[t] # Closed
                     /\ pos[t] # Closed => registered

\* No call is stuck behind the mutex for ever: every call returns.
CallsReturn == \A t \in Threads : pc[t] # "idle" ~> pc[t] = "idle"
=============================================================================
