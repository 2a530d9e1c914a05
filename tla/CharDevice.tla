----------------------------- MODULE CharDevice -----------------------------
(***************************************************************************)
(* The file operations of kernel/char_device/char_device.c, which are      *)
(* those of kernel/miscdevice/misc_device.c: read() and write() share      *)
(* buffer and buffer_size without a lock.  A read takes nothing away and   *)
(* does not look at the file position.                                     *)
(*                                                                         *)
(* The copies from and to the user go byte by byte.  All bytes of one      *)
(* write carry the value `val` of that write.  Who may call, and when, is  *)
(* said in KernelDrivers.                                                  *)
(***************************************************************************)
EXTENDS Integers, Sequences

CONSTANTS
  Procs,
  Size,         \* sizeof(buffer)
  Counts,       \* counts passed to read() and write()
  Values        \* what is written

ASSUME CharDeviceAssumption ==
  Size \in Nat /\ Counts \subseteq Nat /\ Values \subseteq Nat \ {0}

VARIABLES
  buffer,
  buffer_size,
  call,         \* call[p]: the call p is in, Idle without one
  message       \* ghost: the last write, and whether it ran undisturbed and
                \* the buffer has been left alone since

chardev == <<buffer, buffer_size, call, message>>

Idle == [op |-> "none", count |-> 0, len |-> 0, val |-> 0, done |-> 0, out |-> <<>>,
         quiet |-> FALSE]    \* ghost: no write has overlapped this call so far

Bytes == Values \cup {0}

CharTypeOK ==
  /\ buffer \in [1 .. Size -> Bytes]
  /\ buffer_size \in 0 .. Size
  /\ call \in [Procs -> [op : {"none", "read", "write", "ioctl"}, count : Nat, len : 0 .. Size,
                         val : Bytes, done : 0 .. Size, out : Seq(Bytes), quiet : BOOLEAN]]
  /\ message \in [val : Bytes, len : 0 .. Size, intact : BOOLEAN]

\* Static data of a module just loaded.
CharInit ==
  /\ buffer = [k \in 1 .. Size |-> 0]
  /\ buffer_size = 0
  /\ call = [p \in Procs |-> Idle]
  /\ message = [val |-> 0, len |-> 0, intact |-> TRUE]

Minimum(a, b) == IF a < b THEN a ELSE b
In(p, op) == call[p].op = op
Return(p) == call' = [call EXCEPT ![p] = Idle]
NoOtherWrites(p) == \A q \in Procs \ {p} : ~In(q, "write")

-----------------------------------------------------------------------------
\* Altered: the length is that of the buffer, not of the message.
Readable_All(n) == Minimum(n, Size)

\* len = min(count, buffer_size)
Readable(n) == Minimum(n, buffer_size)

ReadCall(p) ==
  /\ In(p, "none")
  /\ \E n \in Counts :
       call' = [call EXCEPT ![p] = [Idle EXCEPT !.op = "read", !.count = n, !.len = Readable(n),
                                                !.quiet = NoOtherWrites(p)]]
  /\ UNCHANGED <<buffer, buffer_size, message>>

\* copy_to_user: one byte more, or a fault (-EFAULT).
ReadCopy(p) ==
  /\ In(p, "read") /\ call[p].done < call[p].len
  /\ \/ call' = [call EXCEPT ![p].out = Append(@, buffer[call[p].done + 1]), ![p].done = @ + 1]
     \/ Return(p)
  /\ UNCHANGED <<buffer, buffer_size, message>>

ReadReturn(p) ==
  /\ In(p, "read") /\ call[p].done = call[p].len
  /\ Return(p)
  /\ UNCHANGED <<buffer, buffer_size, message>>

\* Altered: as much as the caller has.
Writable_Unbounded(n) == n

\* len = min(count, sizeof(buffer))
Writable(n) == Minimum(n, Size)

WriteCall(p) ==
  /\ In(p, "none")
  /\ \E n \in Counts, v \in Values :
       call' = [q \in Procs |->
                  IF q # p THEN [call[q] EXCEPT !.quiet = FALSE]
                  ELSE [Idle EXCEPT !.op = "write", !.count = n, !.len = Writable(n),
                                    !.val = v, !.quiet = NoOtherWrites(p)]]
  /\ UNCHANGED <<buffer, buffer_size, message>>

\* copy_from_user: one byte more, or a fault, which zeroes the rest of the
\* destination; buffer_size then stays what it was.
WriteCopy(p) ==
  LET c == call[p] IN
  /\ In(p, "write") /\ c.done < c.len
  /\ \/ /\ buffer' = [buffer EXCEPT ![c.done + 1] = c.val]
        /\ call' = [call EXCEPT ![p].done = @ + 1]
     \/ /\ buffer' = [k \in 1 .. Size |-> IF k \in c.done + 1 .. c.len THEN 0 ELSE buffer[k]]
        /\ Return(p)
  /\ message' = [message EXCEPT !.intact = FALSE]
  /\ UNCHANGED buffer_size

\* buffer_size = len
WriteSet(p) ==
  /\ In(p, "write") /\ call[p].done = call[p].len
  /\ buffer_size' = call[p].len
  /\ message' = [val |-> call[p].val, len |-> call[p].len, intact |-> call[p].quiet]
  /\ Return(p)
  /\ UNCHANGED buffer

\* The calls of p; ReadCall and WriteCall start one.
CharStep(p) == ReadCopy(p) \/ ReadReturn(p) \/ WriteCopy(p) \/ WriteSet(p)

-----------------------------------------------------------------------------
\* Every read that no write overlaps, however often it is repeated and by whom,
\* returns the last message written: its length, cut to the count, and its bytes
\* only, unless that write overlapped another or a later one has failed half way.
QuietReadRepeats ==
  \A p \in Procs :
    LET c == call[p] IN
    In(p, "read") /\ c.done = c.len /\ c.quiet /\ message.intact
      => c.out = [k \in 1 .. Minimum(c.count, message.len) |-> message.val]
=============================================================================
