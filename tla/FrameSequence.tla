---------------------------- MODULE FrameSequence ----------------------------
(***************************************************************************)
(* What double buffering promises to whoever looks at the screen: the      *)
(* frames 0, 1, ..., LastFrame appear one after the other, each complete,  *)
(* none skipped and none shown again; the show may stop at any frame.      *)
(***************************************************************************)
EXTENDS Integers

CONSTANT LastFrame

Dark == -1    \* nothing is scanned out

VARIABLES shown, ended

vars == <<shown, ended>>

Init == shown = Dark /\ ended = FALSE

Start == shown = Dark /\ ~ended /\ shown' = 0 /\ UNCHANGED ended
Advance == shown \in 0 .. LastFrame - 1 /\ shown' = shown + 1 /\ UNCHANGED ended
Stop == shown # Dark /\ shown' = Dark /\ ended' = TRUE

Next == Start \/ Advance \/ Stop

Spec == Init /\ [][Next]_vars
=============================================================================
