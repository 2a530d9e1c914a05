--------------------------- MODULE NotesIndex_proof ---------------------------
(***************************************************************************)
(* Proof that the runs of the index workflow, however many and however they *)
(* race, keep the history and bring only indexes that fit, for any files.  *)
(*                                                                         *)
(* IndexFits needs one thing more to be inductive: what a run is about to  *)
(* push is the index of the commit it was started for.                     *)
(***************************************************************************)
EXTENDS NotesIndex, SequenceTheorems, TLAPS

RunsGenerate ==
  \A r \in DOMAIN runs : runs[r].state = "generated" => runs[r].index = buildIndex(runs[r].tree)

IInv == TypeOK /\ RunsGenerate /\ IndexFits

Commits == [author : {"human", "bot"}, tree : Trees, index : Indexes]
RunRecords == [base : Nat, tree : Trees, index : Indexes \cup {NoIndex},
               state : Active \cup {"pushed", "rejected", "failed"}]

LEMMA TypeShape ==
  ASSUME TypeOK
  PROVE  /\ main \in Seq(Commits) /\ Len(main) \in Nat \ {0}
         /\ DOMAIN main = 1 .. Len(main) /\ Tip \in Commits
         /\ runs \in Seq(RunRecords) /\ Len(runs) \in Nat /\ DOMAIN runs = 1 .. Len(runs)
<1>1. main \in Seq(Commits) /\ main # <<>> /\ runs \in Seq(RunRecords)
  BY DEF TypeOK, Commits, RunRecords
<1>2. Len(main) \in Nat \ {0} /\ DOMAIN main = 1 .. Len(main)
  BY <1>1, EmptySeq
<1>3. Tip \in Commits
  BY <1>1, <1>2, ElementOfSeq DEF Tip
<1> QED
  BY <1>1, <1>2, <1>3

LEMMA InitIInv == Init => IInv
<1> SUFFICES ASSUME Init PROVE IInv
  OBVIOUS
<1>1. PICK tree \in Trees :
        main = <<[author |-> "human", tree |-> tree, index |-> buildIndex(tree)]>>
  BY DEF Init
<1>2. runs = <<>> /\ pushes = 0
  BY DEF Init
<1>3. buildIndex(tree) \in Indexes
  BY <1>1 DEF Indexes
<1>4. Tip = [author |-> "human", tree |-> tree, index |-> buildIndex(tree)]
  BY <1>1 DEF Tip
<1>5. TypeOK
  <2>1. main[1] \in Commits
    BY <1>1, <1>3 DEF Commits
  <2>2. main \in Seq(Commits) /\ main # <<>>
    BY <1>1, <2>1
  <2> QED
    BY <2>2, <1>2 DEF TypeOK, Commits
<1>6. RunsGenerate
  BY <1>2 DEF RunsGenerate
<1>7. IndexFits
  BY <1>1, <1>2, <1>4 DEF IndexFits, Current
<1> QED
  BY <1>5, <1>6, <1>7 DEF IInv

\* What a commit on top of main leaves alone.
LEMMA AppendCommit ==
  ASSUME TypeOK, NEW c \in Commits, main' = Append(main, c)
  PROVE  /\ main' \in Seq(Commits) /\ main' # <<>>
         /\ DOMAIN main' = 1 .. Len(main) + 1 /\ Len(main') = Len(main) + 1
         /\ \A i \in 1 .. Len(main) : main'[i] = main[i]
         /\ main'[Len(main) + 1] = c /\ Tip' = c
<1> USE TypeShape
<1>1. /\ main' \in Seq(Commits) /\ Len(main') = Len(main) + 1
      /\ \A i \in 1 .. Len(main) : main'[i] = main[i]
      /\ main'[Len(main) + 1] = c
  OBVIOUS
<1>2. DOMAIN main' = 1 .. Len(main) + 1 /\ main' # <<>>
  BY <1>1
<1>3. Tip' = c
  BY <1>1 DEF Tip
<1> QED
  BY <1>1, <1>2, <1>3

LEMMA AppendRun ==
  ASSUME TypeOK, NEW x \in RunRecords, runs' = Append(runs, x)
  PROVE  /\ runs' \in Seq(RunRecords)
         /\ DOMAIN runs' = 1 .. Len(runs) + 1
         /\ \A r \in DOMAIN runs : runs'[r] = runs[r]
         /\ runs'[Len(runs) + 1] = x
<1> USE TypeShape
<1>1. /\ runs' \in Seq(RunRecords) /\ Len(runs') = Len(runs) + 1
      /\ \A r \in 1 .. Len(runs) : runs'[r] = runs[r]
      /\ runs'[Len(runs) + 1] = x
  OBVIOUS
<1> QED
  BY <1>1

\* A run that goes on keeps the commit it was started for.
LEMMA UpdateRun ==
  ASSUME TypeOK, NEW r \in DOMAIN runs, NEW x \in RunRecords, runs' = [runs EXCEPT ![r] = x],
         x.base = runs[r].base, x.tree = runs[r].tree
  PROVE  /\ runs' \in Seq(RunRecords) /\ DOMAIN runs' = DOMAIN runs
         /\ runs'[r] = x /\ \A q \in DOMAIN runs \ {r} : runs'[q] = runs[q]
         /\ \A q \in DOMAIN runs : runs'[q].base = runs[q].base /\ runs'[q].tree = runs[q].tree
<1> USE TypeShape
<1>1. /\ runs' \in Seq(RunRecords) /\ DOMAIN runs' = DOMAIN runs
      /\ \A q \in DOMAIN runs : runs'[q] = IF q = r THEN x ELSE runs[q]
  BY ExceptSeq
<1> QED
  BY <1>1

LEMMA RunFields == ASSUME TypeOK, NEW r \in DOMAIN runs PROVE runs[r] \in RunRecords
  BY TypeShape, ElementOfSeq

LEMMA NewRun ==
  ASSUME NEW n \in Nat, NEW tree \in Trees
  PROVE  /\ Run(n, tree) \in RunRecords /\ Run(n, tree).base = n /\ Run(n, tree).tree = tree
         /\ Run(n, tree).state = "queued"
  BY DEF Run, RunRecords, Active

LEMMA BuiltIsIndex == \A tree \in Trees : buildIndex(tree) \in Indexes
  BY DEF Indexes

LEMMA NextHumanPush == ASSUME IInv, NEW tree \in Trees, HumanPush(tree) PROVE IInv'
<1> DEFINE n == Len(main) + 1
           c == [author |-> "human", tree |-> tree, index |-> Tip.index]
           q == Len(runs) + 1
<1>1. TypeOK /\ Len(main) \in Nat \ {0} /\ n \in Nat /\ q \in Nat
  BY TypeShape DEF IInv
<1>2. c \in Commits
  BY <1>1, TypeShape DEF Commits
<1>3. main' = Append(main, c)
  BY DEF HumanPush
<1>4. /\ main' \in Seq(Commits) /\ main' # <<>>
      /\ DOMAIN main' = 1 .. Len(main) + 1 /\ Len(main') = Len(main) + 1
      /\ \A i \in 1 .. Len(main) : main'[i] = main[i]
      /\ main'[Len(main) + 1] = c /\ Tip' = c
  BY <1>1, <1>2, <1>3, AppendCommit
<1>5. Run(n, tree) \in RunRecords
  BY <1>1, NewRun
<1>6. runs' = Append(runs, Run(n, tree))
  <2>1. runs' = runs \o <<Run(n, tree)>>
    BY DEF HumanPush, Triggered
  <2> QED
    BY <2>1, <1>1, <1>5, TypeShape
<1>7. /\ runs' \in Seq(RunRecords) /\ DOMAIN runs' = 1 .. Len(runs) + 1
      /\ \A r \in DOMAIN runs : runs'[r] = runs[r]
      /\ runs'[q] = Run(n, tree)
  BY <1>1, <1>5, <1>6, AppendRun
<1>8. DOMAIN runs = 1 .. Len(runs) /\ Len(runs) \in Nat /\ DOMAIN main = 1 .. Len(main)
  BY <1>1, TypeShape
<1>9. \A r \in DOMAIN runs' : r \in DOMAIN runs \/ r = q
  BY <1>7, <1>8
<1>10. TypeOK'
  BY <1>1, <1>4, <1>7 DEF TypeOK, HumanPush, Commits, RunRecords
<1>11. RunsGenerate'
  BY <1>1, <1>7, <1>9, NewRun DEF IInv, RunsGenerate
<1>12. IndexFits'
  <2>1. \A i \in DOMAIN main' : main'[i].author = "bot" =>
          i > 1 /\ main'[i].tree = main'[i - 1].tree /\ main'[i].index = buildIndex(main'[i].tree)
    <3> SUFFICES ASSUME NEW i \in DOMAIN main', main'[i].author = "bot"
                 PROVE  /\ i > 1 /\ main'[i].tree = main'[i - 1].tree
                        /\ main'[i].index = buildIndex(main'[i].tree)
      OBVIOUS
    <3>1. i \in DOMAIN main
      BY <1>1, <1>4, <1>8
    <3>2. i > 1 /\ main[i].tree = main[i - 1].tree /\ main[i].index = buildIndex(main[i].tree)
      BY <1>4, <1>8, <3>1 DEF IInv, IndexFits
    <3> QED
      BY <1>4, <1>8, <3>1, <3>2
  <2>2. \A r \in DOMAIN runs' : runs'[r].base \in DOMAIN main' /\ main'[runs'[r].base].tree = runs'[r].tree
    <3>1. \A r \in DOMAIN runs : runs'[r].base \in DOMAIN main' /\ main'[runs'[r].base].tree = runs'[r].tree
      BY <1>1, <1>4, <1>7, <1>8 DEF IInv, IndexFits
    <3>2. runs'[q].base = n /\ runs'[q].tree = tree
      BY <1>1, <1>7, NewRun
    <3> QED
      BY <1>1, <1>4, <1>9, <3>1, <3>2
  <2>3. Pending'
    <3>1. q \in DOMAIN runs' /\ runs'[q].base = Len(main') /\ runs'[q].state = "queued"
      BY <1>1, <1>4, <1>7, <1>8, NewRun
    <3> QED
      BY <3>1 DEF Pending, Active
  <2> QED
    BY <2>1, <2>2, <2>3 DEF IndexFits
<1> QED
  BY <1>10, <1>11, <1>12 DEF IInv

LEMMA NextDispatch == ASSUME IInv, Dispatch PROVE IInv'
<1> DEFINE q == Len(runs) + 1
           x == Run(Len(main), Tip.tree)
<1>1. /\ TypeOK /\ Len(main) \in Nat \ {0} /\ DOMAIN main = 1 .. Len(main) /\ Tip.tree \in Trees
      /\ DOMAIN runs = 1 .. Len(runs) /\ Len(runs) \in Nat
  BY TypeShape DEF IInv, Commits
<1>2. x \in RunRecords /\ x.base = Len(main) /\ x.tree = Tip.tree /\ x.state = "queued"
  BY <1>1, NewRun
<1>3. /\ runs' \in Seq(RunRecords) /\ DOMAIN runs' = 1 .. Len(runs) + 1
      /\ \A r \in DOMAIN runs : runs'[r] = runs[r]
      /\ runs'[q] = x
  BY <1>1, <1>2, AppendRun DEF Dispatch
<1>4. main' = main /\ pushes' = pushes /\ Tip' = Tip
  BY DEF Dispatch, Tip
<1>5. \A r \in DOMAIN runs' : r \in DOMAIN runs \/ r = q
  BY <1>1, <1>3
<1>6. TypeOK'
  BY <1>1, <1>3, <1>4 DEF TypeOK, RunRecords
<1>7. RunsGenerate'
  BY <1>2, <1>3, <1>5 DEF IInv, RunsGenerate
<1>8. \A r \in DOMAIN runs' : runs'[r].base \in DOMAIN main' /\ main'[runs'[r].base].tree = runs'[r].tree
  <2>1. \A r \in DOMAIN runs : runs'[r].base \in DOMAIN main' /\ main'[runs'[r].base].tree = runs'[r].tree
    BY <1>3, <1>4 DEF IInv, IndexFits
  <2>2. runs'[q].base \in DOMAIN main' /\ main'[runs'[q].base].tree = runs'[q].tree
    BY <1>1, <1>2, <1>3, <1>4 DEF Tip
  <2> QED
    BY <1>5, <2>1, <2>2
<1>9. Pending'
  BY <1>1, <1>2, <1>3, <1>4 DEF Pending, Active
<1>10. IndexFits'
  BY <1>4, <1>8, <1>9 DEF IInv, IndexFits
<1> QED
  BY <1>6, <1>7, <1>10 DEF IInv

\* A step of one run that leaves main alone: the run is still pending, or was not
\* one for the last commit.
LEMMA NextRun ==
  ASSUME IInv, NEW r \in DOMAIN runs, NEW x \in RunRecords, runs' = [runs EXCEPT ![r] = x],
         x.base = runs[r].base, x.tree = runs[r].tree, UNCHANGED <<main, pushes>>,
         x.state = "generated" => x.index = buildIndex(x.tree),
         x.state \in Active \cup {"failed"} \/ runs[r].base # Len(main)
  PROVE  IInv'
<1>1. TypeOK
  BY DEF IInv
<1>2. /\ runs' \in Seq(RunRecords) /\ DOMAIN runs' = DOMAIN runs
      /\ runs'[r] = x /\ \A q \in DOMAIN runs \ {r} : runs'[q] = runs[q]
      /\ \A q \in DOMAIN runs : runs'[q].base = runs[q].base /\ runs'[q].tree = runs[q].tree
  BY <1>1, UpdateRun
<1>3. TypeOK'
  BY <1>1, <1>2 DEF TypeOK, RunRecords
<1>4. RunsGenerate'
  BY <1>2 DEF IInv, RunsGenerate
<1>5. Current \/ Pending => (Current \/ Pending)'
  BY <1>2 DEF Current, Pending, Tip
<1>6. IndexFits'
  BY <1>2, <1>5 DEF IInv, IndexFits
<1> QED
  BY <1>3, <1>4, <1>6 DEF IInv

LEMMA NextAccepted ==
  ASSUME IInv, NEW r \in DOMAIN runs, Push(r), runs[r].base = Len(main)
  PROVE  IInv'
<1> DEFINE c == [author |-> "bot", tree |-> runs[r].tree, index |-> runs[r].index]
           x == [runs[r] EXCEPT !.state = "pushed"]
<1>1. /\ TypeOK /\ Len(main) \in Nat \ {0} /\ DOMAIN main = 1 .. Len(main)
      /\ runs[r] \in RunRecords /\ runs[r].state = "generated"
  BY TypeShape, RunFields DEF IInv, Push
<1>2. runs[r].index = buildIndex(runs[r].tree) /\ main[Len(main)].tree = runs[r].tree
  BY <1>1 DEF IInv, RunsGenerate, IndexFits
<1>3. c \in Commits /\ x \in RunRecords /\ x.base = runs[r].base /\ x.tree = runs[r].tree
  BY <1>1, <1>2, BuiltIsIndex DEF Commits, RunRecords
<1>4. main' = Append(main, c) /\ pushes' = pushes
  BY DEF Push, git_push
<1>5. runs' = [runs EXCEPT ![r] = x]
  BY DEF Push, git_push
<1>6. /\ main' \in Seq(Commits) /\ main' # <<>>
      /\ DOMAIN main' = 1 .. Len(main) + 1 /\ Len(main') = Len(main) + 1
      /\ \A i \in 1 .. Len(main) : main'[i] = main[i]
      /\ main'[Len(main) + 1] = c /\ Tip' = c
  BY <1>1, <1>3, <1>4, AppendCommit
<1>7. /\ runs' \in Seq(RunRecords) /\ DOMAIN runs' = DOMAIN runs
      /\ runs'[r] = x /\ \A q \in DOMAIN runs \ {r} : runs'[q] = runs[q]
      /\ \A q \in DOMAIN runs : runs'[q].base = runs[q].base /\ runs'[q].tree = runs[q].tree
  BY <1>1, <1>3, <1>5, UpdateRun
<1>8. TypeOK'
  BY <1>1, <1>4, <1>6, <1>7 DEF TypeOK, Commits, RunRecords
<1>9. RunsGenerate'
  BY <1>1, <1>7 DEF IInv, RunsGenerate, RunRecords
<1>10. \A i \in DOMAIN main' : main'[i].author = "bot" =>
         i > 1 /\ main'[i].tree = main'[i - 1].tree /\ main'[i].index = buildIndex(main'[i].tree)
  <2>1. \A i \in DOMAIN main : main[i].author = "bot" =>
          i > 1 /\ main'[i].tree = main'[i - 1].tree /\ main'[i].index = buildIndex(main'[i].tree)
    BY <1>1, <1>6 DEF IInv, IndexFits
  <2>2. main'[Len(main) + 1].tree = main'[Len(main)].tree
    BY <1>1, <1>2, <1>6
  <2> QED
    BY <1>1, <1>2, <1>6, <2>1, <2>2
<1>11. \A q \in DOMAIN runs' : runs'[q].base \in DOMAIN main' /\ main'[runs'[q].base].tree = runs'[q].tree
  BY <1>1, <1>6, <1>7 DEF IInv, IndexFits
<1>12. Current'
  BY <1>2, <1>6 DEF Current
<1> QED
  BY <1>8, <1>9, <1>10, <1>11, <1>12 DEF IInv, IndexFits

LEMMA NextRejected ==
  ASSUME IInv, NEW r \in DOMAIN runs, Push(r), runs[r].base # Len(main)
  PROVE  IInv'
<1> DEFINE x == [runs[r] EXCEPT !.state = "rejected"]
<1>1. runs[r] \in RunRecords
  BY RunFields DEF IInv
<1>2. x \in RunRecords /\ x.base = runs[r].base /\ x.tree = runs[r].tree /\ x.state = "rejected"
  BY <1>1 DEF RunRecords
<1>3. runs' = [runs EXCEPT ![r] = x] /\ UNCHANGED <<main, pushes>>
  BY DEF Push, git_push
<1> QED
  BY <1>2, <1>3, NextRun

LEMMA NextGenerate == ASSUME IInv, NEW r \in DOMAIN runs, Generate(r) PROVE IInv'
<1> DEFINE x == [runs[r] EXCEPT !.state = "generated", !.index = buildIndex(runs[r].tree)]
<1>1. runs[r] \in RunRecords
  BY RunFields DEF IInv
<1>2. /\ x \in RunRecords /\ x.base = runs[r].base /\ x.tree = runs[r].tree
      /\ x.state = "generated" /\ x.index = buildIndex(x.tree)
  BY <1>1, BuiltIsIndex DEF RunRecords, Active
<1>3. runs' = [runs EXCEPT ![r] = x] /\ UNCHANGED <<main, pushes>>
  BY DEF Generate
<1> QED
  BY <1>2, <1>3, NextRun DEF Active

LEMMA NextOutage == ASSUME IInv, NEW r \in DOMAIN runs, Outage(r) PROVE IInv'
<1> DEFINE x == [runs[r] EXCEPT !.state = "failed"]
<1>1. runs[r] \in RunRecords
  BY RunFields DEF IInv
<1>2. x \in RunRecords /\ x.base = runs[r].base /\ x.tree = runs[r].tree /\ x.state = "failed"
  BY <1>1 DEF RunRecords
<1>3. runs' = [runs EXCEPT ![r] = x] /\ UNCHANGED <<main, pushes>>
  BY DEF Outage
<1> QED
  BY <1>2, <1>3, NextRun

LEMMA NextIInv == IInv /\ [Next]_vars => IInv'
<1> SUFFICES ASSUME IInv, [Next]_vars PROVE IInv'
  OBVIOUS
<1>1. CASE \E tree \in Trees : HumanPush(tree)
  BY <1>1, NextHumanPush
<1>2. CASE Dispatch
  BY <1>2, NextDispatch
<1>3. ASSUME NEW r \in DOMAIN runs, Generate(r) \/ Push(r) \/ Outage(r)
      PROVE  IInv'
  BY <1>3, NextGenerate, NextAccepted, NextRejected, NextOutage
<1>4. CASE UNCHANGED vars
  BY <1>4 DEF vars, IInv, TypeOK, RunsGenerate, IndexFits, Current, Pending, Tip
<1> QED
  BY <1>1, <1>2, <1>3, <1>4 DEF Next

\* The branch and the runs keep their shape.
THEOREM TypeCorrect == Spec => []TypeOK
<1>1. IInv => TypeOK
  BY DEF IInv
<1> QED
  BY <1>1, InitIInv, NextIInv, PTL DEF Spec

\* However many people push and however many runs race for the tip of main, and
\* whichever of them fail, the index commits fit the trees they are put on, no
\* commit is lost, and an index that is out of date has a run pending.
THEOREM IndexAlwaysFits == Spec => []IndexFits
<1>1. IInv => IndexFits
  BY DEF IInv
<1> QED
  BY <1>1, InitIInv, NextIInv, PTL DEF Spec
=============================================================================
