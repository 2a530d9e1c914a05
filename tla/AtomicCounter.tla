---------------------------- MODULE AtomicCounter ----------------------------
(***************************************************************************)
(* What the counter device promises its users: write(delta) adds delta to  *)
(* the counter exactly once, at one instant between call and return, and   *)
(* read() answers the value the counter had at one such instant, or fails. *)
(* A call refused for its arguments changes nothing.  Both drivers         *)
(* (MutexCounter, SpinCounter) are shown to implement this module.         *)
(***************************************************************************)
EXTENDS CInt

CONSTANTS Threads, Deltas

VARIABLES
  value,    \* the counter
  call,     \* call[t]: the call of thread t in progress
  answer    \* answer[t]: what the last finished call of t returned

vars == <<value, call, answer>>

NoCall == [op |-> "none", arg |-> 0]
Answer(ret, val) == [ret |-> ret, val |-> val]
Errors == {"error", "eof"}

Init == /\ value = 0
        /\ call = [t \in Threads |-> NoCall]
        /\ answer = [t \in Threads |-> Answer("ok", 0)]

Begin(t) ==
  /\ call[t] = NoCall
  /\ \/ call' = [call EXCEPT ![t] = [op |-> "get", arg |-> 0]]
     \/ \E d \in Deltas : call' = [call EXCEPT ![t] = [op |-> "add", arg |-> d]]
  /\ UNCHANGED <<value, answer>>

\* A call that fails before it has touched the counter.
Refuse(t) ==
  /\ call[t] = NoCall
  /\ \E e \in Errors : answer' = [answer EXCEPT ![t] = Answer(e, 0)]
  /\ UNCHANGED <<value, call>>

Add(t) ==
  /\ call[t].op = "add"
  /\ value' = Wrap(value + call[t].arg)
  /\ call' = [call EXCEPT ![t] = [op |-> "added", arg |-> 0]]
  /\ UNCHANGED answer

Get(t) ==
  /\ call[t].op = "get"
  /\ call' = [call EXCEPT ![t] = [op |-> "got", arg |-> value]]
  /\ UNCHANGED <<value, answer>>

\* An add always succeeds; a get may still fail to deliver its value.
Finish(t) ==
  /\ \/ call[t].op \in {"added", "got"} /\ answer' = [answer EXCEPT ![t] = Answer("ok", call[t].arg)]
     \/ call[t].op = "got" /\ \E e \in Errors : answer' = [answer EXCEPT ![t] = Answer(e, 0)]
  /\ call' = [call EXCEPT ![t] = NoCall]
  /\ UNCHANGED value

\* The driver is loaded afresh: nobody can be inside it.
Reset ==
  /\ \A t \in Threads : call[t] = NoCall
  /\ value' = 0
  /\ UNCHANGED <<call, answer>>

Next == \/ Reset
        \/ \E t \in Threads : Begin(t) \/ Refuse(t) \/ Add(t) \/ Get(t) \/ Finish(t)

Spec == Init /\ [][Next]_vars
=============================================================================
