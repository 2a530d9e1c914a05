------------------------------ MODULE WaitQueue ------------------------------
(***************************************************************************)
(* synchronization/waitqueue/waitqueue_example.c: read() sleeps on my_wq   *)
(* until data_available is not 0, copies the buffer out and resets it;     *)
(* write() fills the buffer, sets data_available and wakes the sleepers.   *)
(* There is no lock: every access to data_available and to each byte of    *)
(* buffer is a step of its own.                                            *)
(*                                                                         *)
(* wait_event is the kernel's loop: test, join the queue, test again,      *)
(* sleep until a wake_up has taken the thread off the queue.               *)
(*                                                                         *)
(* Bytes are tagged with the write() they came from; tags are recycled as  *)
(* soon as no byte carries them, so that writes need not be counted; a     *)
(* write() waits for a free tag, and Tags is chosen so that there is one.  *)
(***************************************************************************)
EXTENDS Integers, Sequences

CONSTANTS
  Readers, Writers,   \* user threads; a call is one open, read or write, close
  Size,               \* sizeof(buffer)
  ReadCounts,         \* counts passed to read()
  WriteCounts,        \* counts passed to write()
  Tags

ASSUME WaitQueueAssumption ==
  /\ Size \in Nat \ {0}
  /\ ReadCounts \subseteq Nat /\ WriteCounts \subseteq Nat
  /\ 0 \notin Tags
  /\ Readers \cap Writers = {}

VARIABLES
  registered,       \* the device exists
  my_wq,            \* the readers queued on my_wq
  buffer,           \* buffer[i]: the tag of byte i, 0 for a zero byte
  data_available,
  pc,
  count,            \* count[t]: the count argument of the call of t
  len,              \* len[t]: the local len
  i,                \* i[t]: bytes already copied by the call
  tag,              \* tag[w]: the message w writes
  user,             \* user[r]: what read() has copied to r's buffer
  quiet,            \* ghost, quiet[r]: since r left wait_event no write has run
                    \* and no other read has reset data_available
  alone,            \* ghost, alone[w]: no other write has overlapped w's so far
  message           \* ghost: the last published message, and whether
                    \* buffer has been left alone since

vars == <<registered, my_wq, buffer, data_available, pc, count, len, i, tag,
          user, quiet, alone, message>>

device == <<registered, my_wq, buffer, data_available>>
Threads == Readers \cup Writers
ReaderPCs == {"idle", "check", "prepare", "recheck", "sched", "len", "copy", "reset"}
WriterPCs == {"idle", "copy", "set", "wake"}

TypeOK ==
  /\ registered \in BOOLEAN
  /\ my_wq \in SUBSET Readers
  /\ buffer \in [1 .. Size -> Tags \cup {0}]
  /\ data_available \in 0 .. Size
  /\ pc \in [Threads -> ReaderPCs \cup WriterPCs]
  /\ \A r \in Readers : pc[r] \in ReaderPCs
  /\ \A w \in Writers : pc[w] \in WriterPCs
  /\ count \in [Threads -> Nat]
  /\ len \in [Threads -> 0 .. Size] /\ i \in [Threads -> 0 .. Size]
  /\ tag \in [Writers -> Tags \cup {0}]
  /\ user \in [Readers -> Seq(Tags \cup {0})]
  /\ quiet \in [Readers -> BOOLEAN]
  /\ alone \in [Writers -> BOOLEAN]
  /\ message \in [tag : Tags \cup {0}, len : 0 .. Size, intact : BOOLEAN]

Init ==
  /\ registered = FALSE
  /\ my_wq = {}
  /\ buffer = [j \in 1 .. Size |-> 0]
  /\ data_available = 0
  /\ pc = [t \in Threads |-> "idle"]
  /\ count = [t \in Threads |-> 0]
  /\ len = [t \in Threads |-> 0]
  /\ i = [t \in Threads |-> 0]
  /\ tag = [w \in Writers |-> 0]
  /\ user = [r \in Readers |-> <<>>]
  /\ quiet = [r \in Readers |-> FALSE]
  /\ alone = [w \in Writers |-> FALSE]
  /\ message = [tag |-> 0, len |-> 0, intact |-> TRUE]

Minimum(a, b) == IF a < b THEN a ELSE b
Goto(t, l) == pc' = [pc EXCEPT ![t] = l]

\* A call ends and its locals with it.
Leave(t) == /\ Goto(t, "idle")
            /\ count' = [count EXCEPT ![t] = 0]
            /\ len' = [len EXCEPT ![t] = 0]
            /\ i' = [i EXCEPT ![t] = 0]

LeaveRead(r) == Leave(r) /\ user' = [user EXCEPT ![r] = <<>>]

-----------------------------------------------------------------------------
\* insmod: my_init; misc_register may fail.  A freshly loaded buffer is zero.
my_init ==
  /\ ~registered
  /\ data_available' = 0
  /\ buffer' = [j \in 1 .. Size |-> 0]
  /\ registered' \in BOOLEAN
  /\ message' = [tag |-> 0, len |-> 0, intact |-> TRUE]
  /\ UNCHANGED <<my_wq, pc, count, len, i, tag, user, quiet, alone>>

\* rmmod: my_exit; impossible while a call keeps the device open.
my_exit ==
  /\ registered
  /\ \A t \in Threads : pc[t] = "idle"
  /\ registered' = FALSE
  /\ UNCHANGED <<my_wq, buffer, data_available, pc, count, len, i, tag, user, quiet, message, alone>>

-----------------------------------------------------------------------------
ReadCall(r) ==
  /\ registered /\ pc[r] = "idle"
  /\ \E n \in ReadCounts : count' = [count EXCEPT ![r] = n]
  /\ Goto(r, "check")
  /\ UNCHANGED <<device, len, i, tag, user, quiet, message, alone>>

\* Altered: the condition is not tested again on the queue.
WaitOver_NoRecheck(r) ==
  /\ Goto(r, IF pc[r] = "recheck" THEN "sched" ELSE IF data_available # 0 THEN "len" ELSE "prepare")
  /\ quiet' = [quiet EXCEPT ![r] = FALSE]
  /\ UNCHANGED my_wq

\* Out of wait_event, if the condition holds.
WaitOver(r) ==
  /\ Goto(r, IF data_available # 0 THEN "len" ELSE IF pc[r] = "check" THEN "prepare" ELSE "sched")
  /\ my_wq' = IF data_available # 0 THEN my_wq \ {r} ELSE my_wq
  /\ quiet' = [quiet EXCEPT ![r] = \A w \in Writers : pc[w] = "idle"]

\* wait_event: the test before anything else, and the one made on the queue.
Check(r) ==
  /\ pc[r] \in {"check", "recheck"}
  /\ WaitOver(r)
  /\ UNCHANGED <<registered, buffer, data_available, count, len, i, tag, user, message, alone>>

\* prepare_to_wait_event: join the queue (once), state TASK_UNINTERRUPTIBLE.
Prepare(r) ==
  /\ pc[r] = "prepare"
  /\ my_wq' = my_wq \cup {r}
  /\ Goto(r, "recheck")
  /\ UNCHANGED <<registered, buffer, data_available, count, len, i, tag, user, quiet, message, alone>>

\* schedule() comes back once a wake_up has removed r from the queue.
Wakened(r) ==
  /\ pc[r] = "sched" /\ r \notin my_wq
  /\ Goto(r, "prepare")
  /\ UNCHANGED <<device, count, len, i, tag, user, quiet, message, alone>>

\* Altered: all of the buffer, whatever was written.
Readable_Whole(n) == Minimum(n, Size)

\* len = min(count, data_available), data_available being read a second time.
Readable(n) == Minimum(n, data_available)

ReadLen(r) ==
  /\ pc[r] = "len"
  /\ len' = [len EXCEPT ![r] = Readable(count[r])]
  /\ Goto(r, "copy")
  /\ UNCHANGED <<device, count, i, tag, user, quiet, message, alone>>

\* copy_to_user, byte by byte; a fault ends the call and leaves the data.
ReadCopy(r) ==
  /\ pc[r] = "copy"
  /\ \/ /\ i[r] < len[r]
        /\ user' = [user EXCEPT ![r] = Append(@, buffer[i[r] + 1])]
        /\ i' = [i EXCEPT ![r] = @ + 1]
        /\ UNCHANGED <<pc, count, len, quiet>>
     \/ i[r] < len[r] /\ LeaveRead(r) /\ quiet' = [quiet EXCEPT ![r] = FALSE]
     \/ i[r] = len[r] /\ Goto(r, "reset") /\ UNCHANGED <<user, i, count, len, quiet>>
  /\ UNCHANGED <<device, tag, message, alone>>

\* data_available = 0, whatever has been written meanwhile; return len.
ReadReset(r) ==
  /\ pc[r] = "reset"
  /\ data_available' = 0
  /\ LeaveRead(r)
  /\ quiet' = [s \in Readers |-> FALSE]
  /\ UNCHANGED <<registered, my_wq, buffer, tag, message, alone>>

-----------------------------------------------------------------------------
InUse == {buffer[j] : j \in 1 .. Size} \cup {tag[w] : w \in Writers} \cup {message.tag}
           \cup UNION {{user[r][j] : j \in DOMAIN user[r]} : r \in Readers}

\* Altered: the count of the user, whatever the size of buffer.
Writable_Unbounded(n) == n

\* len = min(count, sizeof(buffer))
Writable(n) == Minimum(n, Size)

WriteCall(w) ==
  /\ registered /\ pc[w] = "idle"
  /\ \E n \in WriteCounts : /\ count' = [count EXCEPT ![w] = n]
                            /\ len' = [len EXCEPT ![w] = Writable(n)]
  /\ Tags \ InUse # {}
  /\ tag' = [tag EXCEPT ![w] = CHOOSE g \in Tags \ InUse : TRUE]
  /\ quiet' = [r \in Readers |-> FALSE]
  /\ alone' = [v \in Writers |-> v = w /\ \A u \in Writers : pc[u] = "idle"]
  /\ Goto(w, "copy")
  /\ UNCHANGED <<device, i, user, message>>

\* Altered: the result of copy_from_user is not looked at.
WriteFault_Ignored(w) == Goto(w, "set") /\ UNCHANGED <<count, len, i, tag>>

\* return -EFAULT
WriteFault(w) == Leave(w) /\ tag' = [tag EXCEPT ![w] = 0]

\* copy_from_user, byte by byte; a fault zeroes the rest and ends the call
\* with data_available as it was.
WriteCopy(w) ==
  /\ pc[w] = "copy"
  /\ \/ /\ i[w] < len[w]
        /\ buffer' = [buffer EXCEPT ![i[w] + 1] = tag[w]]
        /\ i' = [i EXCEPT ![w] = @ + 1]
        /\ message' = [message EXCEPT !.intact = FALSE]
        /\ UNCHANGED <<pc, count, len, tag>>
     \/ /\ i[w] < len[w]
        /\ buffer' = [j \in 1 .. Size |-> IF j \in i[w] + 1 .. len[w] THEN 0 ELSE buffer[j]]
        /\ message' = [message EXCEPT !.intact = FALSE]
        /\ WriteFault(w)
     \/ i[w] = len[w] /\ Goto(w, "set") /\ UNCHANGED <<buffer, i, count, len, tag, message>>
  /\ UNCHANGED <<registered, my_wq, data_available, user, quiet, alone>>

\* data_available = len publishes the message.
WriteSet(w) ==
  /\ pc[w] = "set"
  /\ data_available' = len[w]
  /\ message' = [tag |-> tag[w], len |-> len[w],
                 intact |-> alone[w]]
  /\ Goto(w, "wake")
  /\ UNCHANGED <<registered, my_wq, buffer, count, len, i, tag, user, quiet, alone>>

\* Altered: no wake_up after the write.
wake_up_Missing == UNCHANGED my_wq

\* wake_up takes every (non-exclusive) waiter off the queue.
wake_up == my_wq' = {}

WakeUp(w) ==
  /\ pc[w] = "wake"
  /\ wake_up
  /\ Leave(w)
  /\ tag' = [tag EXCEPT ![w] = 0]
  /\ UNCHANGED <<registered, buffer, data_available, user, quiet, message, alone>>

-----------------------------------------------------------------------------
ReadStep(r) == Check(r) \/ Prepare(r) \/ Wakened(r) \/ ReadLen(r) \/ ReadCopy(r) \/ ReadReset(r)
WriteStep(w) == WriteCopy(w) \/ WriteSet(w) \/ WakeUp(w)

Next == \/ my_init \/ my_exit
        \/ \E r \in Readers : ReadCall(r) \/ ReadStep(r)
        \/ \E w \in Writers : WriteCall(w) \/ WriteStep(w)

Spec == Init /\ [][Next]_vars

\* Runnable threads run; nobody is obliged to call read() or write().
Fairness == /\ \A r \in Readers : WF_vars(ReadStep(r))
            /\ \A w \in Writers : WF_vars(WriteStep(w))

FairSpec == Spec /\ Fairness

-----------------------------------------------------------------------------
\* wait_event loses no wake-up: a reader is asleep on my_wq with data available
\* only while a writer stands between `data_available = len` and wake_up.
NoLostWakeup ==
  \A r \in Readers :
    pc[r] = "sched" /\ r \in my_wq /\ data_available # 0 => \E w \in Writers : pc[w] = "wake"

\* If no write() runs, and no other read() resets data_available, from the
\* moment a read leaves wait_event until it returns, then it delivers the
\* published message: the right length, every byte from that one write (unless
\* a concurrent or faulting write had already spoilt the buffer).
QuietReadDelivers ==
  \A r \in Readers :
    pc[r] = "reset" /\ quiet[r] /\ message.intact
      => user[r] = [j \in 1 .. Minimum(count[r], message.len) |-> message.tag]

\* A read returns data, it does not return empty-handed.
ReadReturnsData == \A r \in Readers : pc[r] = "reset" /\ count[r] > 0 => len[r] > 0

\* One reader, no empty writes: once data is available its read returns.
ReadServed ==
  \A r \in Readers : pc[r] # "idle" /\ data_available # 0 ~> pc[r] = "idle"
=============================================================================
