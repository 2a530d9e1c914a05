-------------------------- MODULE MutexCounter_proof --------------------------
(***************************************************************************)
(* Proofs about MutexCounter for every set of threads, every set of deltas *)
(* and every width of int: the inductive invariant TypeOK /\ NoLostUpdate, *)
(* and, from it, that the locked driver implements AtomicCounter.          *)
(***************************************************************************)
EXTENDS MutexCounter, FiniteSetTheorems, TLAPS

LEMMA WrapType == ASSUME NEW x \in Int PROVE Wrap(x) \in CInts
  BY ModulusAssumption DEF Wrap, CInts, Half

LEMMA ZeroType == 0 \in CInts
  BY ModulusAssumption DEF CInts, Half

LEMMA CIntsInt == CInts \subseteq Int
  BY ModulusAssumption DEF CInts, Half

LEMMA TextLenType == ASSUME NEW x PROVE TextLen(x) \in Nat
<1> DEFINE D == {k \in 0 .. 9 : k = 0 \/ 10^k <= Abs(x)}
<1>0. 0 \in Int /\ 9 \in Int
  OBVIOUS
<1>1. IsFiniteSet(0 .. 9)
  BY <1>0, FS_Interval, Zenon
<1>2. Cardinality(D) \in Nat
  BY <1>1, FS_Subset, FS_CardinalityType
<1> QED BY <1>2 DEF TextLen

LEMMA AnswerType ==
  ASSUME NEW r \in {"ok", "error", "eof"}, NEW v \in CInts
  PROVE  [ret |-> r, val |-> v] \in Answers
  BY DEF Answers

\* The inductive invariant: TypeOK gives the ranges the arithmetic needs,
\* NoLostUpdate ties the lock, the pcs and the loaded value to the counter, and
\* NoCallWithoutModule keeps my_init from resetting it under a writer.
IInv == TypeOK /\ NoLostUpdate /\ NoCallWithoutModule

LEMMA IdleWhenUnloaded ==
  NoCallWithoutModule /\ ~registered => \A t \in Threads : pc[t] = "idle"
  BY Zenon DEF NoCallWithoutModule

LEMMA OpenWhenBusy ==
  ASSUME TypeOK, NoCallWithoutModule, NEW t \in Threads, pc[t] # "idle"
  PROVE  registered /\ pos[t] \in Nat
<1>1. registered /\ pos[t] # Closed
  BY DEF NoCallWithoutModule
<1>2. pos[t] \in Nat \cup {Closed}
  BY DEF TypeOK
<1> QED BY <1>1, <1>2

LEMMA InitIInv == Init => IInv
<1> SUFFICES ASSUME Init PROVE IInv
  OBVIOUS
<1>1. TypeOK
  <2>1. pos \in [Threads -> Nat \cup {Closed}] /\ arg \in [Threads -> Int]
    BY DEF Init, Closed
  <2>2. [ret |-> "ok", val |-> 0] \in Answers
    BY ZeroType, AnswerType
  <2> QED
    BY <2>1, <2>2, ZeroType DEF Init, TypeOK
<1>2. NoLostUpdate
  BY CounterAssumption DEF Init, NoLostUpdate, Locked
<1>3. NoCallWithoutModule
  BY DEF Init, NoCallWithoutModule
<1> QED BY <1>1, <1>2, <1>3 DEF IInv

LEMMA NextTypeOK == TypeOK /\ [Next]_vars => TypeOK'
<1> SUFFICES ASSUME TypeOK, [Next]_vars PROVE TypeOK'
  OBVIOUS
<1> USE CounterAssumption, ZeroType, AnswerType
        DEF TypeOK, ReadPCs, WritePCs, Goto
<1>1. CASE my_init
  <2>1. registered' \in BOOLEAN
    BY <1>1, Zenon DEF my_init
  <2> QED
    BY <1>1, <2>1 DEF my_init
<1>2. CASE my_exit
  BY <1>2 DEF my_exit
<1>3. ASSUME NEW t \in Threads, Open(t) PROVE TypeOK'
  BY <1>3 DEF Open, Return
<1>4. ASSUME NEW t \in Threads, Close(t) PROVE TypeOK'
  BY <1>4 DEF Close
<1>5. ASSUME NEW t \in Threads, ReadCall(t) PROVE TypeOK'
  BY <1>5 DEF ReadCall, Return
<1>6. ASSUME NEW t \in Threads, ReadLock(t) PROVE TypeOK'
  BY <1>6 DEF ReadLock, mutex_lock
<1>7. ASSUME NEW t \in Threads, ReadLoad(t) PROVE TypeOK'
  BY <1>7 DEF ReadLoad
<1>8. ASSUME NEW t \in Threads, ReadUnlock(t) PROVE TypeOK'
  BY <1>8 DEF ReadUnlock, mutex_unlock
<1>9. ASSUME NEW t \in Threads, ReadCopy(t) PROVE TypeOK'
  <2>1. pos[t] \in Nat \cup {Closed} /\ TextLen(tmp[t]) \in Nat
    BY TextLenType
  <2>2. pos' \in [Threads -> Nat \cup {Closed}]
    BY <1>9, <2>1 DEF ReadCopy, Closed
  <2> QED
    BY <1>9, <2>2 DEF ReadCopy, Return
<1>10. ASSUME NEW t \in Threads, WriteCall(t) PROVE TypeOK'
  BY <1>10 DEF WriteCall, Return
<1>11. ASSUME NEW t \in Threads, WriteLock(t) PROVE TypeOK'
  BY <1>11 DEF WriteLock, mutex_lock
<1>12. ASSUME NEW t \in Threads, WriteLoad(t) PROVE TypeOK'
  BY <1>12 DEF WriteLoad
<1>13. ASSUME NEW t \in Threads, WriteStore(t) PROVE TypeOK'
  <2>1. tmp[t] \in Int /\ arg[t] \in Int
    BY CIntsInt
  <2>2. Wrap(tmp[t] + arg[t]) \in CInts
    BY <2>1, WrapType
  <2> QED
    BY <1>13, <2>2 DEF WriteStore, Updated
<1>14. ASSUME NEW t \in Threads, WriteUnlock(t) PROVE TypeOK'
  BY <1>14 DEF WriteUnlock, Return, mutex_unlock
<1>15. CASE UNCHANGED vars
  BY <1>15 DEF vars
<1> QED
  BY <1>1, <1>2, <1>3, <1>4, <1>5, <1>6, <1>7, <1>8, <1>9, <1>10, <1>11, <1>12, <1>13, <1>14, <1>15
     DEF Next, InDriver

LEMMA NextNoLostUpdate == IInv /\ [Next]_vars => NoLostUpdate'
<1> SUFFICES ASSUME IInv, [Next]_vars PROVE NoLostUpdate'
  OBVIOUS
<1> USE CounterAssumption
        DEF IInv, TypeOK, NoLostUpdate, Locked, Goto
<1>1. CASE my_init
  <2>1. \A t \in Threads : pc[t] = "idle"
    BY <1>1, IdleWhenUnloaded DEF my_init
  <2> QED
    BY <1>1, <2>1 DEF my_init
<1>2. CASE my_exit
  BY <1>2 DEF my_exit
<1>3. ASSUME NEW t \in Threads, Open(t) PROVE NoLostUpdate'
  BY <1>3 DEF Open, Return
<1>4. ASSUME NEW t \in Threads, Close(t) PROVE NoLostUpdate'
  BY <1>4 DEF Close
<1>5. ASSUME NEW t \in Threads, ReadCall(t) PROVE NoLostUpdate'
  BY <1>5 DEF ReadCall, Return
<1>6. ASSUME NEW t \in Threads, ReadLock(t) PROVE NoLostUpdate'
  BY <1>6 DEF ReadLock, mutex_lock
<1>7. ASSUME NEW t \in Threads, ReadLoad(t) PROVE NoLostUpdate'
  BY <1>7 DEF ReadLoad
<1>8. ASSUME NEW t \in Threads, ReadUnlock(t) PROVE NoLostUpdate'
  BY <1>8 DEF ReadUnlock, mutex_unlock
<1>9. ASSUME NEW t \in Threads, ReadCopy(t) PROVE NoLostUpdate'
  BY <1>9 DEF ReadCopy, Return
<1>10. ASSUME NEW t \in Threads, WriteCall(t) PROVE NoLostUpdate'
  BY <1>10 DEF WriteCall, Return
<1>11. ASSUME NEW t \in Threads, WriteLock(t) PROVE NoLostUpdate'
  BY <1>11 DEF WriteLock, mutex_lock
<1>12. ASSUME NEW t \in Threads, WriteLoad(t) PROVE NoLostUpdate'
  BY <1>12 DEF WriteLoad
<1>13. ASSUME NEW t \in Threads, WriteStore(t) PROVE NoLostUpdate'
  BY <1>13 DEF WriteStore, Updated
<1>14. ASSUME NEW t \in Threads, WriteUnlock(t) PROVE NoLostUpdate'
  BY <1>14 DEF WriteUnlock, Return, mutex_unlock
<1>15. CASE UNCHANGED vars
  BY <1>15 DEF vars
<1> QED
  BY <1>1, <1>2, <1>3, <1>4, <1>5, <1>6, <1>7, <1>8, <1>9, <1>10, <1>11, <1>12, <1>13, <1>14, <1>15
     DEF Next, InDriver

LEMMA NextNoCall == IInv /\ [Next]_vars => NoCallWithoutModule'
<1> SUFFICES ASSUME IInv, [Next]_vars PROVE NoCallWithoutModule'
  OBVIOUS
<1> USE DEF IInv, TypeOK, NoCallWithoutModule, Goto
<1>1. CASE my_init
  BY <1>1 DEF my_init
<1>2. CASE my_exit
  BY <1>2 DEF my_exit
<1>3. ASSUME NEW t \in Threads, Open(t) PROVE NoCallWithoutModule'
  BY <1>3 DEF Closed, Open, Return
<1>4. ASSUME NEW t \in Threads, Close(t) PROVE NoCallWithoutModule'
  BY <1>4 DEF Close
<1>5. ASSUME NEW t \in Threads, ReadCall(t) PROVE NoCallWithoutModule'
  BY <1>5 DEF ReadCall, Return
<1>6. ASSUME NEW t \in Threads, ReadLock(t) PROVE NoCallWithoutModule'
  BY <1>6 DEF ReadLock, mutex_lock
<1>7. ASSUME NEW t \in Threads, ReadLoad(t) PROVE NoCallWithoutModule'
  BY <1>7 DEF ReadLoad
<1>8. ASSUME NEW t \in Threads, ReadUnlock(t) PROVE NoCallWithoutModule'
  BY <1>8 DEF ReadUnlock, mutex_unlock
<1>9. ASSUME NEW t \in Threads, ReadCopy(t) PROVE NoCallWithoutModule'
  <2>1. registered /\ pos[t] \in Nat /\ TextLen(tmp[t]) \in Nat
    BY <1>9, TextLenType, OpenWhenBusy DEF ReadCopy
  <2>2. pos[t] # Closed /\ pos[t] + TextLen(tmp[t]) # Closed
    BY <2>1 DEF Closed
  <2>3. pos' = pos \/ pos' = [pos EXCEPT ![t] = @ + TextLen(tmp[t])]
    BY <1>9 DEF ReadCopy
  <2>4. registered' = registered /\ pc' = [pc EXCEPT ![t] = "idle"]
    BY <1>9 DEF ReadCopy, Return
  <2> QED
    BY <2>1, <2>2, <2>3, <2>4
<1>10. ASSUME NEW t \in Threads, WriteCall(t) PROVE NoCallWithoutModule'
  BY <1>10 DEF WriteCall, Return
<1>11. ASSUME NEW t \in Threads, WriteLock(t) PROVE NoCallWithoutModule'
  BY <1>11 DEF WriteLock, mutex_lock
<1>12. ASSUME NEW t \in Threads, WriteLoad(t) PROVE NoCallWithoutModule'
  BY <1>12 DEF WriteLoad
<1>13. ASSUME NEW t \in Threads, WriteStore(t) PROVE NoCallWithoutModule'
  BY <1>13 DEF WriteStore, Updated
<1>14. ASSUME NEW t \in Threads, WriteUnlock(t) PROVE NoCallWithoutModule'
  BY <1>14 DEF WriteUnlock, Return, mutex_unlock
<1>15. CASE UNCHANGED vars
  BY <1>15 DEF vars
<1> QED
  BY <1>1, <1>2, <1>3, <1>4, <1>5, <1>6, <1>7, <1>8, <1>9, <1>10, <1>11, <1>12, <1>13, <1>14, <1>15
     DEF Next, InDriver

LEMMA NextIInv == IInv /\ [Next]_vars => IInv'
  BY NextTypeOK, NextNoLostUpdate, NextNoCall DEF IInv

\* The counter driver never reaches an ill-typed state: in particular
\* shared_counter is an int whatever is added to it.
THEOREM TypeCorrect == Spec => []TypeOK
<1>1. Init => TypeOK
  BY InitIInv DEF IInv
<1> QED
  BY <1>1, NextTypeOK, PTL DEF Spec

\* my_read and my_write hold counter_lock exactly around their access to
\* shared_counter, and a writer stores a sum of the counter's current value.
THEOREM LockProtectsCounter == Spec => []NoLostUpdate
<1>1. IInv => NoLostUpdate
  BY DEF IInv
<1> QED
  BY <1>1, InitIInv, NextIInv, PTL DEF Spec

\* rmmod waits for every open file, so no thread runs driver code, or has its
\* counter reset by my_init, after misc_deregister.
THEOREM ModulePinned == Spec => []NoCallWithoutModule
<1>1. IInv => NoCallWithoutModule
  BY DEF IInv
<1> QED
  BY <1>1, InitIInv, NextIInv, PTL DEF Spec

-----------------------------------------------------------------------------
\* The refinement.  A step of thread t changes the abstract call of t only.
LEMMA CallFrame ==
  ASSUME NEW t \in Threads, NEW c, Call(t)' = c,
         \A s \in Threads \ {t} : Call(s)' = Call(s)
  PROVE  AbsCall' = [AbsCall EXCEPT ![t] = c]
  BY DEF AbsCall

LEMMA OthersFrame ==
  ASSUME TypeOK, NEW t \in Threads, NEW l, Goto(t, l),
         \/ UNCHANGED <<arg, tmp>>
         \/ (\E n : arg' = [arg EXCEPT ![t] = n]) /\ UNCHANGED tmp
         \/ (\E v : tmp' = [tmp EXCEPT ![t] = v]) /\ UNCHANGED arg
         \/ (\E n, v : arg' = [arg EXCEPT ![t] = n] /\ tmp' = [tmp EXCEPT ![t] = v])
  PROVE  /\ pc'[t] = l
         /\ \A s \in Threads \ {t} : Call(s)' = Call(s)
  BY DEF TypeOK, Goto, Call

\* A call that ends maps to an abstract call that ends, one that ends where it
\* began to an abstract refusal.
LEMMA ReturnStep ==
  ASSUME TypeOK, NEW t \in Threads, NEW r, NEW v, Return(t, r, v)
  PROVE  AbsCall' = [AbsCall EXCEPT ![t] = Abstract!NoCall]
<1>1. pc'[t] = "idle" /\ \A s \in Threads \ {t} : Call(s)' = Call(s)
  BY OthersFrame DEF Return
<1>2. Call(t)' = Abstract!NoCall
  BY <1>1 DEF Call, Abstract!NoCall
<1> QED
  BY <1>1, <1>2, CallFrame

LEMMA RefuseStep ==
  ASSUME TypeOK, NEW t \in Threads, pc[t] = "idle", NEW r \in {"error", "eof"},
         Return(t, r, 0), UNCHANGED shared_counter
  PROVE  Abstract!Next
<1>1. AbsCall[t] = Abstract!NoCall
  BY DEF AbsCall, Call, Abstract!NoCall
<1>2. AbsCall' = [AbsCall EXCEPT ![t] = Abstract!NoCall]
  BY ReturnStep
<1>3. AbsCall' = AbsCall
  BY <1>1, <1>2 DEF AbsCall
<1>4. Abstract!Refuse(t)
  BY <1>1, <1>3 DEF Return, Abstract!Refuse, Abstract!Answer, Abstract!Errors
<1> QED
  BY <1>4 DEF Abstract!Next

LEMMA RefineNext == IInv /\ [Next]_vars => [Abstract!Next]_(Abstract!vars)
<1> SUFFICES ASSUME IInv, [Next]_vars PROVE [Abstract!Next]_(Abstract!vars)
  OBVIOUS
<1> USE DEF IInv
<1>0. \A t \in Threads : AbsCall[t] = Call(t)
  BY DEF AbsCall
<1>1. CASE my_init
  <2>1. \A t \in Threads : Call(t) = Abstract!NoCall
    BY <1>1, IdleWhenUnloaded DEF my_init, Call, Abstract!NoCall
  <2>2. AbsCall' = AbsCall
    BY <1>1 DEF my_init, AbsCall, Call
  <2>3. Abstract!Reset
    BY <1>0, <1>1, <2>1, <2>2 DEF my_init, Abstract!Reset
  <2> QED
    BY <2>3 DEF Abstract!Next
<1>2. CASE my_exit
  BY <1>2 DEF my_exit, Abstract!vars, AbsCall, Call
<1>3. ASSUME NEW t \in Threads, Open(t)
      PROVE  [Abstract!Next]_(Abstract!vars)
  <2>1. CASE registered
    <3>1. UNCHANGED <<pc, arg, tmp, answer, shared_counter>>
      BY <1>3, <2>1 DEF Open
    <3> QED
      BY <3>1 DEF Abstract!vars, AbsCall, Call
  <2>2. CASE ~registered
    <3>1. Return(t, "error", 0) /\ pc[t] = "idle" /\ UNCHANGED shared_counter
      BY <1>3, <2>2 DEF Open
    <3> QED
      BY <3>1, RefuseStep
  <2> QED
    BY <2>1, <2>2
<1>4. ASSUME NEW t \in Threads, Close(t)
      PROVE  UNCHANGED Abstract!vars
  BY <1>4 DEF Close, Abstract!vars, AbsCall, Call
<1>5. ASSUME NEW t \in Threads, ReadCall(t)
      PROVE  Abstract!Next
  <2>1. CASE pos[t] # 0
    <3>1. Return(t, "eof", 0) /\ pc[t] = "idle" /\ UNCHANGED shared_counter
      BY <1>5, <2>1 DEF ReadCall
    <3> QED
      BY <3>1, RefuseStep
  <2>2. CASE pos[t] = 0
    <3>1. Goto(t, "r_lock") /\ UNCHANGED <<shared_counter, answer>>
      BY <1>5, <2>2 DEF ReadCall
    <3>2. pc'[t] = "r_lock" /\ \A s \in Threads \ {t} : Call(s)' = Call(s)
      BY <1>5, <2>2, <3>1, OthersFrame DEF ReadCall
    <3>3. Call(t) = Abstract!NoCall /\ Call(t)' = [op |-> "get", arg |-> 0]
      BY <1>5, <3>2 DEF ReadCall, Call, Abstract!NoCall
    <3>4. AbsCall' = [AbsCall EXCEPT ![t] = [op |-> "get", arg |-> 0]]
      BY <3>2, <3>3, CallFrame
    <3>5. Abstract!Begin(t)
      BY <1>0, <3>1, <3>3, <3>4 DEF Abstract!Begin
    <3> QED
      BY <3>5 DEF Abstract!Next
  <2> QED
    BY <2>1, <2>2
<1>6. ASSUME NEW t \in Threads, ReadLock(t)
      PROVE  UNCHANGED Abstract!vars
  <2>1. Goto(t, "r_load") /\ UNCHANGED <<shared_counter, answer>>
    BY <1>6 DEF ReadLock, mutex_lock
  <2>2. pc'[t] = "r_load" /\ \A s \in Threads \ {t} : Call(s)' = Call(s)
    BY <1>6, <2>1, OthersFrame DEF ReadLock, mutex_lock
  <2>3. Call(t)' = Call(t)
    BY <1>6, <2>2 DEF ReadLock, mutex_lock, Call
  <2> QED
    BY <2>1, <2>2, <2>3 DEF Abstract!vars, AbsCall
<1>7. ASSUME NEW t \in Threads, ReadLoad(t)
      PROVE  Abstract!Next
  <2>1. Goto(t, "r_unlock") /\ UNCHANGED shared_counter /\ UNCHANGED answer
    BY <1>7 DEF ReadLoad
  <2>2. pc'[t] = "r_unlock" /\ \A s \in Threads \ {t} : Call(s)' = Call(s)
    BY <1>7, <2>1, OthersFrame DEF ReadLoad
  <2>3. Call(t) = [op |-> "get", arg |-> 0] /\ Call(t)' = [op |-> "got", arg |-> shared_counter]
    BY <1>7, <2>2 DEF ReadLoad, Call, TypeOK
  <2>4. AbsCall' = [AbsCall EXCEPT ![t] = [op |-> "got", arg |-> shared_counter]]
    BY <2>2, <2>3, CallFrame
  <2>5. Abstract!Get(t)
    BY <1>0, <2>1, <2>3, <2>4 DEF Abstract!Get
  <2> QED
    BY <2>5 DEF Abstract!Next
<1>8. ASSUME NEW t \in Threads, ReadUnlock(t)
      PROVE  UNCHANGED Abstract!vars
  <2>1. Goto(t, "r_copy") /\ UNCHANGED <<shared_counter, answer>>
    BY <1>8 DEF ReadUnlock
  <2>2. pc'[t] = "r_copy" /\ \A s \in Threads \ {t} : Call(s)' = Call(s)
    BY <1>8, <2>1, OthersFrame DEF ReadUnlock
  <2>3. Call(t)' = Call(t)
    BY <1>8, <2>2 DEF ReadUnlock, Call
  <2> QED
    BY <2>1, <2>2, <2>3 DEF Abstract!vars, AbsCall
<1>9. ASSUME NEW t \in Threads, ReadCopy(t)
      PROVE  Abstract!Next
  <2>1. Call(t) = [op |-> "got", arg |-> tmp[t]]
    BY <1>9 DEF ReadCopy, Call
  <2>2. CASE Return(t, "error", 0)
    <3>1. AbsCall' = [AbsCall EXCEPT ![t] = Abstract!NoCall]
      BY <2>2, ReturnStep
    <3>2. /\ answer' = [answer EXCEPT ![t] = Abstract!Answer("error", 0)]
          /\ UNCHANGED shared_counter
      BY <1>9, <2>2 DEF ReadCopy, Return, Abstract!Answer
    <3>3. AbsCall[t].op = "got" /\ "error" \in Abstract!Errors
      BY <1>0, <2>1 DEF Abstract!Errors
    <3>4. Abstract!Finish(t)
      BY <3>1, <3>2, <3>3 DEF Abstract!Finish
    <3> QED
      BY <3>4 DEF Abstract!Next
  <2>3. CASE Return(t, "ok", tmp[t])
    <3>1. AbsCall' = [AbsCall EXCEPT ![t] = Abstract!NoCall]
      BY <2>3, ReturnStep
    <3>2. /\ answer' = [answer EXCEPT ![t] = Abstract!Answer("ok", tmp[t])]
          /\ UNCHANGED shared_counter
      BY <1>9, <2>3 DEF ReadCopy, Return, Abstract!Answer
    <3>3. AbsCall[t].op = "got" /\ AbsCall[t].arg = tmp[t]
      BY <1>0, <2>1
    <3>4. Abstract!Finish(t)
      BY <3>1, <3>2, <3>3 DEF Abstract!Finish
    <3> QED
      BY <3>4 DEF Abstract!Next
  <2> QED
    BY <1>9, <2>2, <2>3 DEF ReadCopy
<1>10. ASSUME NEW t \in Threads, WriteCall(t)
      PROVE  Abstract!Next
  <2>1. CASE Return(t, "error", 0)
    BY <1>10, <2>1, RefuseStep DEF WriteCall
  <2>2. CASE \E d \in Deltas : arg' = [arg EXCEPT ![t] = d] /\ Goto(t, "w_lock") /\ UNCHANGED <<tmp, answer>>
    <3>1. PICK d \in Deltas : arg' = [arg EXCEPT ![t] = d] /\ Goto(t, "w_lock") /\ UNCHANGED <<tmp, answer>>
      BY <2>2
    <3>2. pc'[t] = "w_lock" /\ \A s \in Threads \ {t} : Call(s)' = Call(s)
      BY <3>1, OthersFrame
    <3>3. arg'[t] = d
      BY <3>1 DEF TypeOK
    <3>4. Call(t) = Abstract!NoCall /\ Call(t)' = [op |-> "add", arg |-> d]
      BY <1>10, <3>2, <3>3 DEF WriteCall, Call, Abstract!NoCall
    <3>5. AbsCall' = [AbsCall EXCEPT ![t] = [op |-> "add", arg |-> d]]
      BY <3>2, <3>4, CallFrame
    <3>6. UNCHANGED <<shared_counter, answer>>
      BY <1>10, <3>1 DEF WriteCall
    <3>7. Abstract!Begin(t)
      BY <1>0, <3>4, <3>5, <3>6 DEF Abstract!Begin
    <3> QED
      BY <3>7 DEF Abstract!Next
  <2> QED
    BY <1>10, <2>1, <2>2 DEF WriteCall
<1>11. ASSUME NEW t \in Threads, WriteLock(t)
      PROVE  UNCHANGED Abstract!vars
  <2>1. Goto(t, "w_load") /\ UNCHANGED <<shared_counter, answer>>
    BY <1>11 DEF WriteLock, mutex_lock
  <2>2. pc'[t] = "w_load" /\ \A s \in Threads \ {t} : Call(s)' = Call(s)
    BY <1>11, <2>1, OthersFrame DEF WriteLock, mutex_lock
  <2>3. Call(t)' = Call(t)
    BY <1>11, <2>2 DEF WriteLock, mutex_lock, Call
  <2> QED
    BY <2>1, <2>2, <2>3 DEF Abstract!vars, AbsCall
<1>12. ASSUME NEW t \in Threads, WriteLoad(t)
      PROVE  UNCHANGED Abstract!vars
  <2>1. Goto(t, "w_store") /\ UNCHANGED <<shared_counter, answer>>
    BY <1>12 DEF WriteLoad
  <2>2. pc'[t] = "w_store" /\ \A s \in Threads \ {t} : Call(s)' = Call(s)
    BY <1>12, <2>1, OthersFrame DEF WriteLoad
  <2>3. Call(t)' = Call(t)
    BY <1>12, <2>2 DEF WriteLoad, Call
  <2> QED
    BY <2>1, <2>2, <2>3 DEF Abstract!vars, AbsCall
<1>13. ASSUME NEW t \in Threads, WriteStore(t)
      PROVE  Abstract!Next
  <2>1. Goto(t, "w_unlock") /\ UNCHANGED <<arg, tmp>>
    BY <1>13 DEF WriteStore, Updated
  <2>2. pc'[t] = "w_unlock" /\ \A s \in Threads \ {t} : Call(s)' = Call(s)
    BY <2>1, OthersFrame
  <2>3. Call(t)' = [op |-> "added", arg |-> 0]
    BY <2>2 DEF Call
  <2>4. AbsCall' = [AbsCall EXCEPT ![t] = [op |-> "added", arg |-> 0]]
    BY <2>2, <2>3, CallFrame
  <2>5. Call(t) = [op |-> "add", arg |-> arg[t]]
    BY <1>13 DEF WriteStore, Updated, Call
  <2>6. shared_counter' = Abstract!Wrap(shared_counter + arg[t]) /\ answer' = answer
    BY <1>13 DEF WriteStore, Updated, NoLostUpdate, Wrap, Abstract!Wrap, Half, Abstract!Half
  <2>7. Abstract!Add(t)
    BY <1>0, <2>4, <2>5, <2>6 DEF Abstract!Add
  <2> QED
    BY <2>7 DEF Abstract!Next
<1>14. ASSUME NEW t \in Threads, WriteUnlock(t)
      PROVE  Abstract!Next
  <2>1. Call(t) = [op |-> "added", arg |-> 0] /\ Return(t, "ok", 0)
    BY <1>14 DEF WriteUnlock, Call
  <2>2. AbsCall' = [AbsCall EXCEPT ![t] = Abstract!NoCall]
    BY <2>1, ReturnStep
  <2>3. /\ answer' = [answer EXCEPT ![t] = Abstract!Answer("ok", 0)]
        /\ UNCHANGED shared_counter
    BY <1>14 DEF WriteUnlock, Return, Abstract!Answer
  <2>4. AbsCall[t].op = "added" /\ AbsCall[t].arg = 0
    BY <1>0, <2>1
  <2>5. Abstract!Finish(t)
    BY <2>2, <2>3, <2>4 DEF Abstract!Finish
  <2> QED
    BY <2>5 DEF Abstract!Next
<1>15. CASE UNCHANGED vars
  BY <1>15 DEF vars, Abstract!vars, AbsCall, Call
<1> QED
  BY <1>1, <1>2, <1>3, <1>4, <1>5, <1>6, <1>7, <1>8, <1>9, <1>10, <1>11, <1>12, <1>13, <1>14, <1>15
     DEF Next, InDriver

\* Every write to the mutex-protected counter counts exactly once and every
\* read answers a value the counter had while the read was in progress.
THEOREM MutexCounterLinearizable == Spec => Linearizable
<1>1. Init => Abstract!Init
  BY DEF Init, Abstract!Init, AbsCall, Call, Abstract!NoCall, Abstract!Answer
<1> QED
  BY <1>1, InitIInv, NextIInv, RefineNext, PTL DEF Spec, Abstract!Spec, Linearizable

=============================================================================
