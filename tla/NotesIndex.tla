----------------------------- MODULE NotesIndex -----------------------------
(***************************************************************************)
(* tools/generate_index.js and .github/workflows/generate-index.yml:       *)
(* assets/notes_index.json lists the notes, and a workflow that every push *)
(* to main starts writes it anew and pushes it as a commit of its own.     *)
(* Runs of the workflow are not serialised (it has no `concurrency`), so   *)
(* they race with each other and with people for the tip of main.          *)
(***************************************************************************)
EXTENDS Naturals, Sequences

CONSTANTS
  Files,        \* paths, as sequences of their components
  MaxPushes,    \* bound on the commits people push
  MaxManual     \* bound on workflow_dispatch

ASSUME NotesAssumption ==
  /\ \A f \in Files : f \in Seq(STRING) /\ Len(f) > 1
  /\ MaxPushes \in Nat /\ MaxManual \in Nat

VARIABLES
  main,     \* the commits of the branch, oldest first
  runs,     \* the runs of the workflow, in the order they were started
  pushes    \* how often people have pushed

vars == <<main, runs, pushes>>

TOP_DIRS == {"notes", "cases-study"}

\* notes/<sub>/f and notes/<sub>/<nested>/f; cases-study/f and cases-study/<it>/f.
Listed(f) == \/ f[1] = "notes" /\ Len(f) \in {3, 4}
             \/ f[1] = "cases-study" /\ Len(f) \in {2, 3}

\* A directory at the first two levels is in the index even if nothing in it is;
\* a nested one is there for its files.
buildIndex(tree) ==
  [files |-> {f \in tree : Listed(f)},
   folders |-> UNION {{SubSeq(f, 1, n) : n \in {m \in {1, 2} : m < Len(f)}} :
                        f \in {g \in tree : g[1] \in TOP_DIRS}}]

Trees == SUBSET Files
Indexes == {buildIndex(tree) : tree \in Trees}
NoIndex == [files |-> {}, folders |-> {}]

Tip == main[Len(main)]
Active == {"queued", "generated"}

Init ==
  /\ \E tree \in Trees :
       main = <<[author |-> "human", tree |-> tree, index |-> buildIndex(tree)]>>
  /\ runs = <<>> /\ pushes = 0

\* A run for the commit at position n.
Run(n, tree) == [base |-> n, tree |-> tree, state |-> "queued", index |-> NoIndex]

\* Altered: only a push that changes something under notes.
Triggered_Paths(n, tree) ==
  IF \A f \in (tree \ Tip.tree) \cup (Tip.tree \ tree) : f[1] # "notes" THEN <<>> ELSE <<Run(n, tree)>>

Triggered(n, tree) == <<Run(n, tree)>>

-----------------------------------------------------------------------------
\* Somebody pushes a commit on top of main, which leaves the index alone.
HumanPush(tree) ==
  /\ pushes < MaxPushes
  /\ pushes' = pushes + 1
  /\ main' = Append(main, [author |-> "human", tree |-> tree, index |-> Tip.index])
  /\ runs' = runs \o Triggered(Len(main) + 1, tree)

\* workflow_dispatch
Dispatch ==
  /\ Len(runs) < pushes + MaxManual
  /\ runs' = Append(runs, Run(Len(main), Tip.tree))
  /\ UNCHANGED <<main, pushes>>

\* Checkout of the commit that started the run, the generator, git commit.  There
\* is always something to commit: generated_at is the time.
Generate(r) ==
  /\ runs[r].state = "queued"
  /\ runs' = [runs EXCEPT ![r].state = "generated", ![r].index = buildIndex(runs[r].tree)]
  /\ UNCHANGED <<main, pushes>>

\* Altered: git pull --rebase before the push.
git_push_Rebased(r) ==
  /\ main' = Append(main, [author |-> "bot", tree |-> Tip.tree, index |-> runs[r].index])
  /\ runs' = [runs EXCEPT ![r].state = "pushed"]

\* Refused unless it is a fast-forward.  A push with the token of the workflow
\* starts no run.
git_push(r) ==
  IF runs[r].base = Len(main)
    THEN /\ main' = Append(main, [author |-> "bot", tree |-> runs[r].tree, index |-> runs[r].index])
         /\ runs' = [runs EXCEPT ![r].state = "pushed"]
    ELSE /\ runs' = [runs EXCEPT ![r].state = "rejected"]
         /\ UNCHANGED main

Push(r) ==
  /\ runs[r].state = "generated"
  /\ git_push(r)
  /\ UNCHANGED pushes

\* The runner, the network or one of the actions used fails.
Outage(r) ==
  /\ runs[r].state \in Active
  /\ runs' = [runs EXCEPT ![r].state = "failed"]
  /\ UNCHANGED <<main, pushes>>

Next ==
  \/ \E tree \in Trees : HumanPush(tree)
  \/ Dispatch
  \/ \E r \in DOMAIN runs : Generate(r) \/ Push(r) \/ Outage(r)

Spec == Init /\ [][Next]_vars

\* GitHub starts every run and lets it go on.
Fairness ==
  \A r \in 1 .. MaxPushes + MaxManual : WF_vars(r \in DOMAIN runs /\ (Generate(r) \/ Push(r)))

FairSpec == Spec /\ Fairness

-----------------------------------------------------------------------------
TypeOK ==
  /\ main \in Seq([author : {"human", "bot"}, tree : Trees, index : Indexes]) /\ main # <<>>
  /\ runs \in Seq([base : Nat, tree : Trees, index : Indexes \cup {NoIndex},
                   state : Active \cup {"pushed", "rejected", "failed"}])
  /\ pushes \in Nat

Current == Tip.index = buildIndex(Tip.tree)

\* A run for the last commit is under way, or has failed.
Pending == \E r \in DOMAIN runs : runs[r].base = Len(main) /\ runs[r].state \in Active \cup {"failed"}

\* Whoever wins the race for the tip, the commits of the workflow change nothing
\* but the index, the index they bring is the one of the tree they are put on, and
\* no commit is pushed out of the history: a run finds the one that started it.
\* The index on main is out of date only while a run for the last commit is
\* pending.
IndexFits ==
  /\ \A i \in DOMAIN main : main[i].author = "bot" =>
       i > 1 /\ main[i].tree = main[i - 1].tree /\ main[i].index = buildIndex(main[i].tree)
  /\ \A r \in DOMAIN runs : /\ runs[r].base \in DOMAIN main
                            /\ main[runs[r].base].tree = runs[r].tree
  /\ Current \/ Pending

\* Once people stop pushing the index catches up with the notes, no run being
\* tried a second time, unless one for the last commit fails for outside reasons.
IndexCatchesUp ==
  <>[](Current \/ \E r \in DOMAIN runs : runs[r].base = Len(main) /\ runs[r].state = "failed")
=============================================================================
