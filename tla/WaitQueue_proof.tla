--------------------------- MODULE WaitQueue_proof ---------------------------
(***************************************************************************)
(* Proofs about WaitQueue for any number of readers and writers, any       *)
(* buffer size and any counts.                                             *)
(***************************************************************************)
EXTENDS WaitQueue, TLAPS

\* The copy loops stay inside the length the call has computed.
CopyInBounds ==
  \A t \in Threads : /\ i[t] <= len[t]
                     /\ pc[t] \notin {"copy", "reset", "set", "wake"} => i[t] = 0

\* A thread is on the queue only from prepare_to_wait to the end of wait_event,
\* so that a later wake_up never touches a thread that has moved on.
QueuedMeansWaiting == \A r \in my_wq : pc[r] \in {"recheck", "sched"}

IInv == TypeOK /\ CopyInBounds /\ QueuedMeansWaiting /\ NoLostWakeup

LEMMA MinimumType ==
  ASSUME NEW a \in Nat, NEW b \in 0 .. Size
  PROVE  Minimum(a, b) \in 0 .. Size
  BY WaitQueueAssumption DEF Minimum

LEMMA InitIInv == Init => IInv
<1> SUFFICES ASSUME Init PROVE IInv
  OBVIOUS
<1>1. TypeOK
  <2>1. registered \in BOOLEAN /\ quiet \in [Readers -> BOOLEAN] /\ alone \in [Writers -> BOOLEAN]
    BY Zenon DEF Init
  <2>2. message \in [tag : Tags \cup {0}, len : 0 .. Size, intact : BOOLEAN]
    BY WaitQueueAssumption DEF Init
  <2>3. user \in [Readers -> Seq(Tags \cup {0})]
    BY DEF Init
  <2>4. /\ buffer \in [1 .. Size -> Tags \cup {0}]
        /\ pc \in [Threads -> ReaderPCs \cup WriterPCs]
        /\ \A r \in Readers : pc[r] \in ReaderPCs
        /\ \A w \in Writers : pc[w] \in WriterPCs
    BY DEF Init, ReaderPCs, WriterPCs, Threads
  <2>5. /\ data_available \in 0 .. Size
        /\ count \in [Threads -> Nat]
        /\ len \in [Threads -> 0 .. Size] /\ i \in [Threads -> 0 .. Size]
    BY WaitQueueAssumption DEF Init
  <2> QED
    BY <2>1, <2>2, <2>3, <2>4, <2>5 DEF Init, TypeOK
<1>2. CopyInBounds /\ QueuedMeansWaiting /\ NoLostWakeup
  BY DEF Init, CopyInBounds, QueuedMeansWaiting, NoLostWakeup
<1> QED BY <1>1, <1>2 DEF IInv

LEMMA NextTypeOK == IInv /\ [Next]_vars => TypeOK'
<1> SUFFICES ASSUME IInv, [Next]_vars PROVE TypeOK'
  OBVIOUS
<1> USE WaitQueueAssumption DEF IInv, TypeOK, Threads, ReaderPCs, WriterPCs, Goto, device
<1>1. CASE my_init
  BY <1>1 DEF my_init
<1>2. CASE my_exit
  BY <1>2 DEF my_exit
<1>3. ASSUME NEW r \in Readers, ReadCall(r) PROVE TypeOK'
  BY <1>3 DEF ReadCall
<1>4. ASSUME NEW r \in Readers, Check(r) PROVE TypeOK'
  BY <1>4 DEF Check, WaitOver
<1>5. ASSUME NEW r \in Readers, Prepare(r) PROVE TypeOK'
  BY <1>5 DEF Prepare
<1>6. ASSUME NEW r \in Readers, Wakened(r) PROVE TypeOK'
  BY <1>6 DEF Wakened
<1>7. ASSUME NEW r \in Readers, ReadLen(r) PROVE TypeOK'
  <2>1. Minimum(count[r], data_available) \in 0 .. Size
    BY MinimumType
  <2> QED
    BY <1>7, <2>1 DEF ReadLen, Readable
<1>8. ASSUME NEW r \in Readers, ReadCopy(r) PROVE TypeOK'
  <2>1. CASE i[r] < len[r] /\ user' = [user EXCEPT ![r] = Append(@, buffer[i[r] + 1])]
             /\ i' = [i EXCEPT ![r] = @ + 1] /\ UNCHANGED <<pc, count, len, quiet>>
    <3>1. i[r] + 1 \in 1 .. Size /\ i[r] + 1 \in 0 .. Size
      BY <2>1
    <3>2. Append(user[r], buffer[i[r] + 1]) \in Seq(Tags \cup {0})
      BY <3>1
    <3> QED
      BY <1>8, <2>1, <3>1, <3>2 DEF ReadCopy
  <2>2. CASE LeaveRead(r) /\ quiet' = [quiet EXCEPT ![r] = FALSE]
    BY <1>8, <2>2 DEF ReadCopy, LeaveRead, Leave
  <2>3. CASE Goto(r, "reset") /\ UNCHANGED <<user, i, count, len, quiet>>
    BY <1>8, <2>3 DEF ReadCopy
  <2> QED
    BY <1>8, <2>1, <2>2, <2>3 DEF ReadCopy
<1>9. ASSUME NEW r \in Readers, ReadReset(r) PROVE TypeOK'
  BY <1>9 DEF ReadReset, LeaveRead, Leave
<1>10. ASSUME NEW w \in Writers, WriteCall(w) PROVE TypeOK'
  <2>1. (CHOOSE g \in Tags \ InUse : TRUE) \in Tags
    BY <1>10 DEF WriteCall, Writable
  <2>2. PICK n \in WriteCounts : /\ count' = [count EXCEPT ![w] = n]
                                 /\ len' = [len EXCEPT ![w] = Minimum(n, Size)]
    BY <1>10 DEF WriteCall, Writable
  <2>3. n \in Nat /\ Minimum(n, Size) \in 0 .. Size
    BY MinimumType
  <2>4. alone' \in [Writers -> BOOLEAN] /\ quiet' \in [Readers -> BOOLEAN]
    BY <1>10 DEF WriteCall, Writable
  <2>5. tag' \in [Writers -> Tags \cup {0}]
    BY <1>10, <2>1 DEF WriteCall, Writable
  <2>6. count' \in [Threads -> Nat] /\ len' \in [Threads -> 0 .. Size]
    BY <2>2, <2>3
  <2> QED
    BY <1>10, <2>4, <2>5, <2>6 DEF WriteCall, Writable
<1>11. ASSUME NEW w \in Writers, WriteCopy(w) PROVE TypeOK'
  <2>1. CASE i[w] < len[w] /\ buffer' = [buffer EXCEPT ![i[w] + 1] = tag[w]]
             /\ i' = [i EXCEPT ![w] = @ + 1]
             /\ message' = [message EXCEPT !.intact = FALSE]
             /\ UNCHANGED <<pc, count, len, tag>>
    <3>1. i[w] + 1 \in 1 .. Size /\ i[w] + 1 \in 0 .. Size
      BY <2>1
    <3> QED
      BY <1>11, <2>1, <3>1 DEF WriteCopy, WriteFault
  <2>2. CASE /\ buffer' = [j \in 1 .. Size |-> IF j \in i[w] + 1 .. len[w] THEN 0 ELSE buffer[j]]
             /\ message' = [message EXCEPT !.intact = FALSE]
             /\ Leave(w)
             /\ tag' = [tag EXCEPT ![w] = 0]
    <3>1. buffer' \in [1 .. Size -> Tags \cup {0}]
      BY <2>2
    <3>2. message' \in [tag : Tags \cup {0}, len : 0 .. Size, intact : BOOLEAN]
      BY <2>2
    <3>3. 0 \in 0 .. Size
      BY WaitQueueAssumption
    <3> QED
      BY <1>11, <2>2, <3>1, <3>2, <3>3 DEF WriteCopy, WriteFault, Leave
  <2>3. CASE Goto(w, "set") /\ UNCHANGED <<buffer, i, count, len, tag, message>>
    BY <1>11, <2>3 DEF WriteCopy, WriteFault
  <2> QED
    BY <1>11, <2>1, <2>2, <2>3 DEF WriteCopy, WriteFault
<1>12. ASSUME NEW w \in Writers, WriteSet(w) PROVE TypeOK'
  BY <1>12 DEF WriteSet
<1>13. ASSUME NEW w \in Writers, WakeUp(w) PROVE TypeOK'
  BY <1>13 DEF WakeUp, wake_up, Leave
<1>14. CASE UNCHANGED vars
  BY <1>14 DEF vars
<1> QED
  BY <1>1, <1>2, <1>3, <1>4, <1>5, <1>6, <1>7, <1>8, <1>9, <1>10, <1>11, <1>12, <1>13, <1>14
     DEF Next, ReadStep, WriteStep

LEMMA NextInBounds == IInv /\ [Next]_vars => CopyInBounds'
<1> SUFFICES ASSUME IInv, [Next]_vars PROVE CopyInBounds'
  OBVIOUS
<1> USE WaitQueueAssumption DEF IInv, TypeOK, CopyInBounds, Threads, Goto, device
<1>1. CASE my_init
  BY <1>1 DEF my_init
<1>2. CASE my_exit
  BY <1>2 DEF my_exit
<1>3. ASSUME NEW r \in Readers, ReadCall(r) PROVE CopyInBounds'
  BY <1>3 DEF ReadCall
<1>4. ASSUME NEW r \in Readers, Check(r) PROVE CopyInBounds'
  BY <1>4 DEF Check, WaitOver
<1>5. ASSUME NEW r \in Readers, Prepare(r) PROVE CopyInBounds'
  BY <1>5 DEF Prepare
<1>6. ASSUME NEW r \in Readers, Wakened(r) PROVE CopyInBounds'
  BY <1>6 DEF Wakened
<1>7. ASSUME NEW r \in Readers, ReadLen(r) PROVE CopyInBounds'
  <2>1. Minimum(count[r], data_available) \in 0 .. Size /\ i[r] = 0
    BY <1>7, MinimumType DEF ReadLen, Readable
  <2>2. \A t \in Threads : i[t] <= len'[t]
    BY <1>7, <2>1 DEF ReadLen, Readable
  <2> QED
    BY <1>7, <2>2 DEF ReadLen, Readable
<1>8. ASSUME NEW r \in Readers, ReadCopy(r) PROVE CopyInBounds'
  BY <1>8 DEF ReadCopy, LeaveRead, Leave
<1>9. ASSUME NEW r \in Readers, ReadReset(r) PROVE CopyInBounds'
  BY <1>9 DEF ReadReset, LeaveRead, Leave
<1>10. ASSUME NEW w \in Writers, WriteCall(w) PROVE CopyInBounds'
  <2>1. PICK n \in WriteCounts : len' = [len EXCEPT ![w] = Minimum(n, Size)]
    BY <1>10 DEF WriteCall, Writable
  <2>2. n \in Nat /\ Size \in 0 .. Size
    BY <2>1
  <2>3. i[w] = 0
    BY <1>10 DEF WriteCall, Writable
  <2>4. Minimum(n, Size) \in 0 .. Size
    BY <2>2, MinimumType
  <2>5. \A t \in Threads : i[t] <= len'[t]
    BY <2>1, <2>3, <2>4
  <2> QED
    BY <1>10, <2>5 DEF WriteCall, Writable
<1>11. ASSUME NEW w \in Writers, WriteCopy(w) PROVE CopyInBounds'
  BY <1>11 DEF WriteCopy, WriteFault, Leave
<1>12. ASSUME NEW w \in Writers, WriteSet(w) PROVE CopyInBounds'
  BY <1>12 DEF WriteSet
<1>13. ASSUME NEW w \in Writers, WakeUp(w) PROVE CopyInBounds'
  BY <1>13 DEF WakeUp, wake_up, Leave
<1>14. CASE UNCHANGED vars
  BY <1>14 DEF vars
<1> QED
  BY <1>1, <1>2, <1>3, <1>4, <1>5, <1>6, <1>7, <1>8, <1>9, <1>10, <1>11, <1>12, <1>13, <1>14
     DEF Next, ReadStep, WriteStep

LEMMA NextQueued == IInv /\ [Next]_vars => QueuedMeansWaiting'
<1> SUFFICES ASSUME IInv, [Next]_vars PROVE QueuedMeansWaiting'
  OBVIOUS
<1> USE WaitQueueAssumption DEF IInv, TypeOK, QueuedMeansWaiting, Threads, Goto, device
<1>1. CASE my_init
  BY <1>1 DEF my_init
<1>2. CASE my_exit
  BY <1>2 DEF my_exit
<1>3. ASSUME NEW r \in Readers, ReadCall(r) PROVE QueuedMeansWaiting'
  BY <1>3 DEF ReadCall
<1>4. ASSUME NEW r \in Readers, Check(r) PROVE QueuedMeansWaiting'
  BY <1>4 DEF Check, WaitOver
<1>5. ASSUME NEW r \in Readers, Prepare(r) PROVE QueuedMeansWaiting'
  BY <1>5 DEF Prepare
<1>6. ASSUME NEW r \in Readers, Wakened(r) PROVE QueuedMeansWaiting'
  BY <1>6 DEF Wakened
<1>7. ASSUME NEW r \in Readers, ReadLen(r) PROVE QueuedMeansWaiting'
  BY <1>7 DEF ReadLen, Readable
<1>8. ASSUME NEW r \in Readers, ReadCopy(r) PROVE QueuedMeansWaiting'
  BY <1>8 DEF ReadCopy, LeaveRead, Leave
<1>9. ASSUME NEW r \in Readers, ReadReset(r) PROVE QueuedMeansWaiting'
  BY <1>9 DEF ReadReset, LeaveRead, Leave
<1>10. ASSUME NEW w \in Writers, WriteCall(w) PROVE QueuedMeansWaiting'
  BY <1>10 DEF WriteCall, Writable
<1>11. ASSUME NEW w \in Writers, WriteCopy(w) PROVE QueuedMeansWaiting'
  BY <1>11 DEF WriteCopy, WriteFault, Leave
<1>12. ASSUME NEW w \in Writers, WriteSet(w) PROVE QueuedMeansWaiting'
  BY <1>12 DEF WriteSet
<1>13. ASSUME NEW w \in Writers, WakeUp(w) PROVE QueuedMeansWaiting'
  BY <1>13 DEF WakeUp, wake_up, Leave
<1>14. CASE UNCHANGED vars
  BY <1>14 DEF vars
<1> QED
  BY <1>1, <1>2, <1>3, <1>4, <1>5, <1>6, <1>7, <1>8, <1>9, <1>10, <1>11, <1>12, <1>13, <1>14
     DEF Next, ReadStep, WriteStep

LEMMA NextNoLostWakeup == IInv /\ [Next]_vars => NoLostWakeup'
<1> SUFFICES ASSUME IInv, [Next]_vars PROVE NoLostWakeup'
  OBVIOUS
<1> USE WaitQueueAssumption DEF IInv, TypeOK, NoLostWakeup, Threads, Goto, device
<1>1. CASE my_init
  BY <1>1 DEF my_init
<1>2. CASE my_exit
  BY <1>2 DEF my_exit
<1>3. ASSUME NEW r \in Readers, ReadCall(r) PROVE NoLostWakeup'
  BY <1>3 DEF ReadCall
<1>4. ASSUME NEW r \in Readers, Check(r) PROVE NoLostWakeup'
  BY <1>4 DEF Check, WaitOver
<1>5. ASSUME NEW r \in Readers, Prepare(r) PROVE NoLostWakeup'
  BY <1>5 DEF Prepare
<1>6. ASSUME NEW r \in Readers, Wakened(r) PROVE NoLostWakeup'
  BY <1>6 DEF Wakened
<1>7. ASSUME NEW r \in Readers, ReadLen(r) PROVE NoLostWakeup'
  BY <1>7 DEF ReadLen, Readable
<1>8. ASSUME NEW r \in Readers, ReadCopy(r) PROVE NoLostWakeup'
  BY <1>8 DEF ReadCopy, LeaveRead, Leave
<1>9. ASSUME NEW r \in Readers, ReadReset(r) PROVE NoLostWakeup'
  BY <1>9 DEF ReadReset, LeaveRead, Leave
<1>10. ASSUME NEW w \in Writers, WriteCall(w) PROVE NoLostWakeup'
  BY <1>10 DEF WriteCall, Writable
<1>11. ASSUME NEW w \in Writers, WriteCopy(w) PROVE NoLostWakeup'
  BY <1>11 DEF WriteCopy, WriteFault, Leave
<1>12. ASSUME NEW w \in Writers, WriteSet(w) PROVE NoLostWakeup'
  BY <1>12 DEF WriteSet
<1>13. ASSUME NEW w \in Writers, WakeUp(w) PROVE NoLostWakeup'
  BY <1>13 DEF WakeUp, wake_up, Leave
<1>14. CASE UNCHANGED vars
  BY <1>14 DEF vars
<1> QED
  BY <1>1, <1>2, <1>3, <1>4, <1>5, <1>6, <1>7, <1>8, <1>9, <1>10, <1>11, <1>12, <1>13, <1>14
     DEF Next, ReadStep, WriteStep

LEMMA NextIInv == IInv /\ [Next]_vars => IInv'
  BY NextTypeOK, NextInBounds, NextQueued, NextNoLostWakeup DEF IInv

\* No race makes a copy leave the buffer: data_available, the lengths computed
\* from it and the copy indexes stay within Size.
THEOREM NoOverrun == Spec => [](TypeOK /\ CopyInBounds)
<1>1. IInv => TypeOK /\ CopyInBounds
  BY DEF IInv
<1> QED
  BY <1>1, InitIInv, NextIInv, PTL DEF Spec

\* However many readers and writers race, without any lock, no reader sleeps on
\* my_wq over available data unless a writer's wake_up is still to come.
THEOREM WaitEventLosesNoWakeup == Spec => []NoLostWakeup
<1>1. IInv => NoLostWakeup
  BY DEF IInv
<1> QED
  BY <1>1, InitIInv, NextIInv, PTL DEF Spec

\* A wake_up reaches only threads that are still inside wait_event.
THEOREM OnlyWaitersQueued == Spec => []QueuedMeansWaiting
<1>1. IInv => QueuedMeansWaiting
  BY DEF IInv
<1> QED
  BY <1>1, InitIInv, NextIInv, PTL DEF Spec
-----------------------------------------------------------------------------
(***************************************************************************)
(* What a read delivers.  QuietReadDelivers speaks of the moment before a  *)
(* read returns; the invariant below follows the bytes from the write      *)
(* that put them into buffer to the read that takes them out.              *)
(***************************************************************************)

\* The driver unloads only between calls.
UnloadedIdle == ~registered => \A t \in Threads : pc[t] = "idle"

\* A call leaves its copy loop when the loop is done; user holds what it copied.
CopyProgress ==
  /\ \A t \in Threads : pc[t] \in {"reset", "set"} => i[t] = len[t]
  /\ \A r \in Readers : Len(user[r]) = i[r]

\* A write that overlaps no other has buffer to itself.
AloneFills ==
  \A w \in Writers :
    alone[w] /\ pc[w] \in {"copy", "set"}
      => /\ \A v \in Writers \ {w} : pc[v] = "idle"
         /\ \A j \in 1 .. i[w] : buffer[j] = tag[w]

\* data_available is the length of the published message or 0; an intact
\* message is still in buffer.
Published ==
  /\ data_available \in {0, message.len}
  /\ message.intact => \A j \in 1 .. message.len : buffer[j] = message.tag

\* While a read is quiet no write runs and the message stays available, so
\* that the second read of data_available gives the length the first one saw.
QuietSees ==
  \A r \in Readers :
    quiet[r] /\ pc[r] \in {"len", "copy", "reset"}
      => /\ \A w \in Writers : pc[w] = "idle"
         /\ data_available = message.len
         /\ pc[r] # "len" => len[r] = Minimum(count[r], message.len)
         /\ message.intact => \A j \in 1 .. i[r] : user[r][j] = message.tag

DInv == /\ IInv /\ UnloadedIdle /\ CopyProgress
        /\ AloneFills /\ Published /\ QuietSees

LEMMA InitDInv == Init => DInv
  BY InitIInv, WaitQueueAssumption
     DEF Init, DInv, UnloadedIdle, CopyProgress, AloneFills, Published, QuietSees, Threads

LEMMA NextUnloadedIdle == DInv /\ [Next]_vars => UnloadedIdle'
<1> SUFFICES ASSUME DInv, [Next]_vars PROVE UnloadedIdle'
  OBVIOUS
<1> USE WaitQueueAssumption DEF DInv, IInv, TypeOK, Threads, Goto, device, UnloadedIdle
<1>1. CASE my_init
  BY <1>1 DEF my_init
<1>2. CASE my_exit
  BY <1>2 DEF my_exit
<1>3. ASSUME NEW r \in Readers, ReadCall(r) PROVE UnloadedIdle'
  BY <1>3 DEF ReadCall
<1>4. ASSUME NEW r \in Readers, Check(r) PROVE UnloadedIdle'
  BY <1>4 DEF Check, WaitOver
<1>5. ASSUME NEW r \in Readers, Prepare(r) PROVE UnloadedIdle'
  BY <1>5 DEF Prepare
<1>6. ASSUME NEW r \in Readers, Wakened(r) PROVE UnloadedIdle'
  BY <1>6 DEF Wakened
<1>7. ASSUME NEW r \in Readers, ReadLen(r) PROVE UnloadedIdle'
  BY <1>7 DEF ReadLen, Readable
<1>8. ASSUME NEW r \in Readers, ReadCopy(r) PROVE UnloadedIdle'
  BY <1>8 DEF ReadCopy, LeaveRead, Leave
<1>9. ASSUME NEW r \in Readers, ReadReset(r) PROVE UnloadedIdle'
  BY <1>9 DEF ReadReset, LeaveRead, Leave
<1>10. ASSUME NEW w \in Writers, WriteCall(w) PROVE UnloadedIdle'
  BY <1>10 DEF WriteCall, Writable
<1>11. ASSUME NEW w \in Writers, WriteCopy(w) PROVE UnloadedIdle'
  BY <1>11 DEF WriteCopy, WriteFault, Leave
<1>12. ASSUME NEW w \in Writers, WriteSet(w) PROVE UnloadedIdle'
  BY <1>12 DEF WriteSet
<1>13. ASSUME NEW w \in Writers, WakeUp(w) PROVE UnloadedIdle'
  BY <1>13 DEF WakeUp, wake_up, Leave
<1>14. CASE UNCHANGED vars
  BY <1>14 DEF vars
<1> QED
  BY <1>1, <1>2, <1>3, <1>4, <1>5, <1>6, <1>7, <1>8, <1>9, <1>10, <1>11, <1>12, <1>13, <1>14
     DEF Next, ReadStep, WriteStep

LEMMA NextCopyProgress == DInv /\ [Next]_vars => CopyProgress'
<1> SUFFICES ASSUME DInv, [Next]_vars PROVE CopyProgress'
  OBVIOUS
<1> USE WaitQueueAssumption DEF DInv, IInv, TypeOK, Threads, Goto, device, CopyInBounds, CopyProgress
<1>1. CASE my_init
  BY <1>1 DEF my_init
<1>2. CASE my_exit
  BY <1>2 DEF my_exit
<1>3. ASSUME NEW r \in Readers, ReadCall(r) PROVE CopyProgress'
  BY <1>3 DEF ReadCall
<1>4. ASSUME NEW r \in Readers, Check(r) PROVE CopyProgress'
  BY <1>4 DEF Check, WaitOver
<1>5. ASSUME NEW r \in Readers, Prepare(r) PROVE CopyProgress'
  BY <1>5 DEF Prepare
<1>6. ASSUME NEW r \in Readers, Wakened(r) PROVE CopyProgress'
  BY <1>6 DEF Wakened
<1>7. ASSUME NEW r \in Readers, ReadLen(r) PROVE CopyProgress'
  BY <1>7 DEF ReadLen, Readable
<1>8. ASSUME NEW r \in Readers, ReadCopy(r) PROVE CopyProgress'
  <2>1. CASE /\ i[r] < len[r]
             /\ user' = [user EXCEPT ![r] = Append(user[r], buffer[i[r] + 1])]
             /\ i' = [i EXCEPT ![r] = i[r] + 1]
             /\ UNCHANGED <<pc, count, len, quiet>>
    <3>1. user[r] \in Seq(Tags \cup {0}) /\ i[r] + 1 \in 1 .. Size
      BY <2>1
    <3>2. buffer[i[r] + 1] \in Tags \cup {0}
      BY <3>1
    <3>3. Len(user'[r]) = i'[r]
      BY <2>1, <3>1, <3>2
    <3> QED
      BY <1>8, <2>1, <3>3 DEF ReadCopy
  <2>2. CASE LeaveRead(r) /\ quiet' = [quiet EXCEPT ![r] = FALSE]
    BY <1>8, <2>2 DEF ReadCopy, LeaveRead, Leave
  <2>3. CASE i[r] = len[r] /\ Goto(r, "reset") /\ UNCHANGED <<user, i, count, len, quiet>>
    BY <1>8, <2>3 DEF ReadCopy
  <2> QED
    BY <1>8, <2>1, <2>2, <2>3 DEF ReadCopy
<1>9. ASSUME NEW r \in Readers, ReadReset(r) PROVE CopyProgress'
  BY <1>9 DEF ReadReset, LeaveRead, Leave
<1>10. ASSUME NEW w \in Writers, WriteCall(w) PROVE CopyProgress'
  BY <1>10 DEF WriteCall, Writable
<1>11. ASSUME NEW w \in Writers, WriteCopy(w) PROVE CopyProgress'
  BY <1>11 DEF WriteCopy, WriteFault, Leave
<1>12. ASSUME NEW w \in Writers, WriteSet(w) PROVE CopyProgress'
  BY <1>12 DEF WriteSet
<1>13. ASSUME NEW w \in Writers, WakeUp(w) PROVE CopyProgress'
  BY <1>13 DEF WakeUp, wake_up, Leave
<1>14. CASE UNCHANGED vars
  BY <1>14 DEF vars
<1> QED
  BY <1>1, <1>2, <1>3, <1>4, <1>5, <1>6, <1>7, <1>8, <1>9, <1>10, <1>11, <1>12, <1>13, <1>14
     DEF Next, ReadStep, WriteStep

LEMMA NextAloneFills == DInv /\ [Next]_vars => AloneFills'
<1> SUFFICES ASSUME DInv, [Next]_vars PROVE AloneFills'
  OBVIOUS
<1> USE WaitQueueAssumption DEF DInv, IInv, TypeOK, Threads, Goto, device, CopyInBounds, CopyProgress, UnloadedIdle, AloneFills
<1>1. CASE my_init
  BY <1>1 DEF my_init
<1>2. CASE my_exit
  BY <1>2 DEF my_exit
<1>3. ASSUME NEW r \in Readers, ReadCall(r) PROVE AloneFills'
  BY <1>3 DEF ReadCall
<1>4. ASSUME NEW r \in Readers, Check(r) PROVE AloneFills'
  BY <1>4 DEF Check, WaitOver
<1>5. ASSUME NEW r \in Readers, Prepare(r) PROVE AloneFills'
  BY <1>5 DEF Prepare
<1>6. ASSUME NEW r \in Readers, Wakened(r) PROVE AloneFills'
  BY <1>6 DEF Wakened
<1>7. ASSUME NEW r \in Readers, ReadLen(r) PROVE AloneFills'
  BY <1>7 DEF ReadLen, Readable
<1>8. ASSUME NEW r \in Readers, ReadCopy(r) PROVE AloneFills'
  BY <1>8 DEF ReadCopy, LeaveRead, Leave
<1>9. ASSUME NEW r \in Readers, ReadReset(r) PROVE AloneFills'
  BY <1>9 DEF ReadReset, LeaveRead, Leave
<1>10. ASSUME NEW w \in Writers, WriteCall(w) PROVE AloneFills'
  <2>1. /\ alone' = [v \in Writers |-> v = w /\ \A u \in Writers : pc[u] = "idle"]
        /\ pc' = [pc EXCEPT ![w] = "copy"] /\ i[w] = 0 /\ UNCHANGED <<i, buffer>>
    BY <1>10 DEF WriteCall
  <2> SUFFICES ASSUME NEW v \in Writers, alone'[v]
               PROVE  /\ \A u \in Writers \ {v} : pc'[u] = "idle"
                      /\ i'[v] = 0
    OBVIOUS
  <2>2. v = w /\ \A u \in Writers : pc[u] = "idle"
    BY <2>1
  <2> QED
    BY <2>1, <2>2
<1>11. ASSUME NEW w \in Writers, WriteCopy(w) PROVE AloneFills'
  <2>1. CASE /\ i[w] < len[w]
             /\ buffer' = [buffer EXCEPT ![i[w] + 1] = tag[w]]
             /\ i' = [i EXCEPT ![w] = i[w] + 1]
             /\ UNCHANGED <<pc, count, len, tag>>
    <3>1. i[w] + 1 \in 1 .. Size /\ i[w] \in 0 .. Size
      BY <2>1
    <3>2. UNCHANGED alone
      BY <1>11 DEF WriteCopy
    <3> SUFFICES ASSUME NEW v \in Writers, alone[v], pc[v] \in {"copy", "set"}
                 PROVE  /\ \A u \in Writers \ {v} : pc[u] = "idle"
                        /\ \A j \in 1 .. i'[v] : buffer'[j] = tag[v]
      BY <2>1, <3>2
    <3>3. v = w
      BY <1>11 DEF WriteCopy
    <3>4. \A j \in 1 .. i[w] + 1 : buffer'[j] = tag[w]
      BY <2>1, <3>1, <3>3
    <3> QED
      BY <2>1, <3>3, <3>4
  <2>2. CASE WriteFault(w)
    <3>1. /\ pc' = [pc EXCEPT ![w] = "idle"] /\ i' = [i EXCEPT ![w] = 0]
          /\ tag' = [tag EXCEPT ![w] = 0] /\ UNCHANGED alone
      BY <1>11, <2>2 DEF WriteCopy, WriteFault, Leave
    <3> SUFFICES ASSUME NEW v \in Writers, alone[v], v # w, pc[v] \in {"copy", "set"}
                 PROVE  FALSE
      BY <3>1
    <3> QED
      BY <1>11 DEF WriteCopy
  <2>3. CASE Goto(w, "set") /\ UNCHANGED <<buffer, i, count, len, tag, message>>
    BY <1>11, <2>3 DEF WriteCopy
  <2> QED
    BY <1>11, <2>1, <2>2, <2>3 DEF WriteCopy
<1>12. ASSUME NEW w \in Writers, WriteSet(w) PROVE AloneFills'
  BY <1>12 DEF WriteSet
<1>13. ASSUME NEW w \in Writers, WakeUp(w) PROVE AloneFills'
  BY <1>13 DEF WakeUp, wake_up, Leave
<1>14. CASE UNCHANGED vars
  BY <1>14 DEF vars
<1> QED
  BY <1>1, <1>2, <1>3, <1>4, <1>5, <1>6, <1>7, <1>8, <1>9, <1>10, <1>11, <1>12, <1>13, <1>14
     DEF Next, ReadStep, WriteStep

LEMMA NextPublished == DInv /\ [Next]_vars => Published'
<1> SUFFICES ASSUME DInv, [Next]_vars PROVE Published'
  OBVIOUS
<1> USE WaitQueueAssumption DEF DInv, IInv, TypeOK, Threads, Goto, device, CopyInBounds, CopyProgress, AloneFills, Published
<1>1. CASE my_init
  BY <1>1 DEF my_init
<1>2. CASE my_exit
  BY <1>2 DEF my_exit
<1>3. ASSUME NEW r \in Readers, ReadCall(r) PROVE Published'
  BY <1>3 DEF ReadCall
<1>4. ASSUME NEW r \in Readers, Check(r) PROVE Published'
  BY <1>4 DEF Check, WaitOver
<1>5. ASSUME NEW r \in Readers, Prepare(r) PROVE Published'
  BY <1>5 DEF Prepare
<1>6. ASSUME NEW r \in Readers, Wakened(r) PROVE Published'
  BY <1>6 DEF Wakened
<1>7. ASSUME NEW r \in Readers, ReadLen(r) PROVE Published'
  BY <1>7 DEF ReadLen, Readable
<1>8. ASSUME NEW r \in Readers, ReadCopy(r) PROVE Published'
  BY <1>8 DEF ReadCopy, LeaveRead, Leave
<1>9. ASSUME NEW r \in Readers, ReadReset(r) PROVE Published'
  BY <1>9 DEF ReadReset, LeaveRead, Leave
<1>10. ASSUME NEW w \in Writers, WriteCall(w) PROVE Published'
  BY <1>10 DEF WriteCall, Writable
<1>11. ASSUME NEW w \in Writers, WriteCopy(w) PROVE Published'
  BY <1>11 DEF WriteCopy, WriteFault, Leave
<1>12. ASSUME NEW w \in Writers, WriteSet(w) PROVE Published'
  BY <1>12 DEF WriteSet
<1>13. ASSUME NEW w \in Writers, WakeUp(w) PROVE Published'
  BY <1>13 DEF WakeUp, wake_up, Leave
<1>14. CASE UNCHANGED vars
  BY <1>14 DEF vars
<1> QED
  BY <1>1, <1>2, <1>3, <1>4, <1>5, <1>6, <1>7, <1>8, <1>9, <1>10, <1>11, <1>12, <1>13, <1>14
     DEF Next, ReadStep, WriteStep

LEMMA NextQuietSees == DInv /\ [Next]_vars => QuietSees'
<1> SUFFICES ASSUME DInv, [Next]_vars PROVE QuietSees'
  OBVIOUS
<1> USE WaitQueueAssumption DEF DInv, IInv, TypeOK, Threads, Goto, device, CopyInBounds, CopyProgress, UnloadedIdle, AloneFills, Published, QuietSees
<1>1. CASE my_init
  BY <1>1 DEF my_init
<1>2. CASE my_exit
  BY <1>2 DEF my_exit
<1>3. ASSUME NEW r \in Readers, ReadCall(r) PROVE QuietSees'
  BY <1>3 DEF ReadCall
<1>4. ASSUME NEW r \in Readers, Check(r) PROVE QuietSees'
  <2>1. /\ \A s \in Readers \ {r} : quiet'[s] = quiet[s] /\ pc'[s] = pc[s]
        /\ pc'[r] \in {"len", "prepare", "sched"}
        /\ \A w \in Writers : pc'[w] = pc[w]
        /\ UNCHANGED <<data_available, message, i, len, count, user>>
    BY <1>4 DEF Check, WaitOver
  <2> SUFFICES ASSUME NEW s \in Readers, quiet'[s], pc'[s] \in {"len", "copy", "reset"}
               PROVE  /\ \A w \in Writers : pc'[w] = "idle"
                      /\ data_available' = message'.len
                      /\ pc'[s] # "len" => len'[s] = Minimum(count'[s], message'.len)
                      /\ message'.intact => \A j \in 1 .. i'[s] : user'[s][j] = message'.tag
    OBVIOUS
  <2>2. CASE s = r
    <3>1. data_available # 0 /\ pc'[r] = "len"
      BY <1>4, <2>1, <2>2 DEF Check, WaitOver
    <3>2. \A w \in Writers : pc[w] = "idle"
      BY <1>4, <2>2 DEF Check, WaitOver
    <3>3. i[r] = 0 /\ data_available = message.len
      BY <1>4, <3>1 DEF Check
    <3>4. \A j \in 1 .. i'[r] : user'[r][j] = message'.tag
      BY <2>1, <3>3
    <3> QED
      BY ONLY <2>1, <2>2, <3>1, <3>2, <3>3, <3>4
  <2>3. CASE s # r
    <3>1. quiet[s] /\ pc[s] \in {"len", "copy", "reset"} /\ pc'[s] = pc[s]
      BY <2>1, <2>3
    <3> QED
      BY <2>1, <3>1
  <2> QED
    BY <2>2, <2>3
<1>5. ASSUME NEW r \in Readers, Prepare(r) PROVE QuietSees'
  BY <1>5 DEF Prepare
<1>6. ASSUME NEW r \in Readers, Wakened(r) PROVE QuietSees'
  BY <1>6 DEF Wakened
<1>7. ASSUME NEW r \in Readers, ReadLen(r) PROVE QuietSees'
  BY <1>7 DEF ReadLen, Readable
<1>8. ASSUME NEW r \in Readers, ReadCopy(r) PROVE QuietSees'
  <2>1. CASE /\ i[r] < len[r]
             /\ user' = [user EXCEPT ![r] = Append(user[r], buffer[i[r] + 1])]
             /\ i' = [i EXCEPT ![r] = i[r] + 1]
             /\ UNCHANGED <<pc, count, len, quiet>>
    <3>1. user[r] \in Seq(Tags \cup {0}) /\ i[r] + 1 \in 1 .. Size /\ Len(user[r]) = i[r]
      BY <2>1
    <3>2. buffer[i[r] + 1] \in Tags \cup {0}
      BY <3>1
    <3>3. UNCHANGED <<device, message>>
      BY <1>8 DEF ReadCopy
    <3> SUFFICES ASSUME NEW s \in Readers, quiet[s], pc[s] \in {"len", "copy", "reset"}
                 PROVE  message.intact => \A j \in 1 .. i'[s] : user'[s][j] = message.tag
      BY <2>1, <3>3
    <3>4. CASE s = r
      <4>1. SUFFICES ASSUME message.intact, NEW j \in 1 .. i[r] + 1
                     PROVE  Append(user[r], buffer[i[r] + 1])[j] = message.tag
        BY <2>1, <3>4
      <4>2. pc[r] = "copy" /\ data_available = message.len
        BY <1>8, <3>4 DEF ReadCopy
      <4>3. i[r] + 1 <= message.len
        <5>1. len[r] = Minimum(count[r], message.len)
          BY <3>4, <4>2
        <5>2. /\ i[r] \in Nat /\ len[r] \in Nat /\ count[r] \in Nat /\ message.len \in Nat
              /\ i[r] < len[r]
          BY <2>1
        <5> QED
          BY ONLY <5>1, <5>2 DEF Minimum
      <4>4. buffer[i[r] + 1] = message.tag
        BY <3>1, <4>1, <4>3
      <4>5. \A k \in 1 .. i[r] : user[r][k] = message.tag
        BY <3>4, <4>1
      <4> QED
        BY <3>1, <3>2, <4>4, <4>5
    <3>5. CASE s # r
      BY <2>1, <3>5
    <3> QED
      BY <3>4, <3>5
  <2>2. CASE LeaveRead(r) /\ quiet' = [quiet EXCEPT ![r] = FALSE]
    BY <1>8, <2>2 DEF ReadCopy, LeaveRead, Leave
  <2>3. CASE i[r] = len[r] /\ Goto(r, "reset") /\ UNCHANGED <<user, i, count, len, quiet>>
    BY <1>8, <2>3 DEF ReadCopy
  <2> QED
    BY <1>8, <2>1, <2>2, <2>3 DEF ReadCopy
<1>9. ASSUME NEW r \in Readers, ReadReset(r) PROVE QuietSees'
  BY <1>9 DEF ReadReset, LeaveRead, Leave
<1>10. ASSUME NEW w \in Writers, WriteCall(w) PROVE QuietSees'
  BY <1>10 DEF WriteCall, Writable
<1>11. ASSUME NEW w \in Writers, WriteCopy(w) PROVE QuietSees'
  BY <1>11 DEF WriteCopy, WriteFault, Leave
<1>12. ASSUME NEW w \in Writers, WriteSet(w) PROVE QuietSees'
  BY <1>12 DEF WriteSet
<1>13. ASSUME NEW w \in Writers, WakeUp(w) PROVE QuietSees'
  BY <1>13 DEF WakeUp, wake_up, Leave
<1>14. CASE UNCHANGED vars
  BY <1>14 DEF vars
<1> QED
  BY <1>1, <1>2, <1>3, <1>4, <1>5, <1>6, <1>7, <1>8, <1>9, <1>10, <1>11, <1>12, <1>13, <1>14
     DEF Next, ReadStep, WriteStep

LEMMA NextDInv == DInv /\ [Next]_vars => DInv'
  BY NextIInv, NextUnloadedIdle, NextCopyProgress, NextAloneFills, NextPublished, NextQuietSees DEF DInv

\* A read that nothing disturbs returns the published message, whole or cut at
\* its count, whatever races went before it.
THEOREM QuietReadDeliversAlways == Spec => []QuietReadDelivers
<1>1. DInv => QuietReadDelivers
  <2> SUFFICES ASSUME DInv, NEW r \in Readers, pc[r] = "reset", quiet[r], message.intact
               PROVE  user[r] = [j \in 1 .. Minimum(count[r], message.len) |-> message.tag]
    BY DEF QuietReadDelivers
  <2>1. Len(user[r]) = Minimum(count[r], message.len)
    BY DEF DInv, CopyProgress, QuietSees, Threads
  <2>2. user[r] \in Seq(Tags \cup {0})
    BY DEF DInv, IInv, TypeOK
  <2>3. \A j \in 1 .. Len(user[r]) : user[r][j] = message.tag
    BY DEF DInv, CopyProgress, QuietSees, Threads
  <2> QED
    BY <2>1, <2>2, <2>3
<1> QED
  BY <1>1, InitDInv, NextDInv, PTL DEF Spec
=============================================================================
