---------------------------- MODULE UserSide_proof ----------------------------
(***************************************************************************)
(* Proofs about the two components that are about what processes hold:     *)
(* SharedPage, where the device drivers lend them a page, and UserPrograms,*)
(* where they run a sequence of calls any of which may fail.               *)
(*                                                                         *)
(* SharedPage, for both drivers, any number of processes and physical      *)
(* pages, and mappings of any length: the invariant says what keeps a      *)
(* mapping safe, that page table entries exist only inside a mapping, a    *)
(* mapping keeps the module loaded, and a loaded module has its page.      *)
(*                                                                         *)
(* UserPrograms, for any number of connectors and planes: the state is a   *)
(* program, so that the invariant is about all it may still do.  A         *)
(* configuration is good for a program if it belongs to a set of           *)
(* configurations that no outcome of an instruction leaves and in which    *)
(* each is acceptable.  One rule for each instruction says when code that  *)
(* begins with it is good; the rules are applied to the eight programs     *)
(* from the end to the beginning, and through the loops by induction.      *)
(***************************************************************************)
EXTENDS SharedPage, UserPrograms, FiniteSetTheorems, TLAPS

\* First, SharedPage.
\* A file or a mapping pins the module.
Pinned == InUse => module = "live"

\* The page belongs to the module from my_init to my_exit, and to nothing else.
HasPage == IF module = "out" THEN page = 0 ELSE page \in owned

\* No page table entry without a mapping.
EntriesMapped == \A p \in Procs : vma[p] = 0 => pte[p] = NotPresent

\* At most the page of this load is allocated, unless a load of fault_dev failed.
OwnsOnlyPage == \/ owned \subseteq {page}
                \/ driver = "fault_dev" /\ loadFailed

IInv == TypeOK /\ Pinned /\ HasPage /\ EntriesMapped /\ OwnsOnlyPage /\ MappingsShareThePage

LEMMA InitIInv == Init => IInv
<1> SUFFICES ASSUME Init PROVE IInv
  OBVIOUS
<1> USE SharedPageAssumption DEF Init, Pages, NotPresent
<1>1. TypeOK
  <2>1. vma \in [Procs -> 0 .. MaxLen] /\ pte \in [Procs -> [Pages -> Frames \cup {0}]]
    OBVIOUS
  <2> QED
    BY <2>1 DEF TypeOK
<1>2. Pinned /\ HasPage /\ EntriesMapped /\ OwnsOnlyPage
  BY DEF Pinned, InUse, HasPage, EntriesMapped, OwnsOnlyPage
<1>3. MappingsShareThePage
  BY DEF MappingsShareThePage
<1> QED
  BY <1>1, <1>2, <1>3 DEF IInv

\* Only a request for one page is mapped at once, and it maps the page itself.
LEMMA RemapOnePage ==
  ASSUME NEW n \in 1 .. MaxLen, SizeOK(n), page \in Frames
  PROVE  /\ Remap(n) \in [Pages -> Frames \cup {0}]
         /\ \A k \in Pages : Remap(n)[k] \in {0, page}
  BY SharedPageAssumption DEF SizeOK, Remap, Pages

LEMMA NextIInv == IInv /\ [Next]_vars => IInv'
<1> SUFFICES ASSUME IInv, [Next]_vars PROVE IInv'
  OBVIOUS
<1> USE SharedPageAssumption
    DEF IInv, TypeOK, Pinned, HasPage, EntriesMapped, OwnsOnlyPage, MappingsShareThePage,
        InUse, process, NotPresent
<1>1. CASE my_init
  <2>1. module = "out" /\ UNCHANGED <<driver, process>>
    BY <1>1 DEF my_init
  <2>2. fd = {} /\ \A p \in Procs : vma[p] = 0
    BY <2>1
  <2>3. PICK f \in Frames :
          \/ module' = "live" /\ page' = f /\ owned' = owned \cup {f} /\ loadFailed' = loadFailed /\ driver' = driver
          \/ /\ loadFailed' = TRUE /\ module' = module /\ page' = page
             /\ \/ owned' = owned
                \/ driver = "fault_dev" /\ owned' = owned \cup {f}
    <3>1. CASE driver = "mmap_dev"
      BY <1>1, <3>1 DEF my_init, InitMmapDev
    <3>2. CASE driver = "fault_dev"
      BY <1>1, <3>2 DEF my_init, InitFaultDev
    <3> QED
      BY <3>1, <3>2
  <2>4. TypeOK'
    BY <2>1, <2>3
  <2>5. Pinned' /\ HasPage'
    BY <2>1, <2>2, <2>3
  <2>6. EntriesMapped' /\ MappingsShareThePage'
    BY <2>1, <2>2, <2>3 DEF Pages
  <2>7. OwnsOnlyPage'
    BY <2>1, <2>3
  <2> QED
    BY <2>4, <2>5, <2>6, <2>7
<1>2. CASE Deregister
  BY <1>2 DEF Deregister
<1>3. CASE FreePage
  BY <1>3 DEF FreePage
<1>4. ASSUME NEW p \in Procs, Open(p) PROVE IInv'
  BY <1>4 DEF Open
<1>5. ASSUME NEW p \in Procs, Close(p) PROVE IInv'
  BY <1>5 DEF Close
<1>6. ASSUME NEW p \in Procs, Mmap(p) PROVE IInv'
  <2>1. PICK n \in 1 .. MaxLen :
          /\ vma' = [vma EXCEPT ![p] = n]
          /\ IF driver = "mmap_dev" THEN MmapMmapDev(p, n) ELSE MmapFaultDev(p)
    BY <1>6 DEF Mmap
  <2>2. module = "live" /\ page \in owned /\ page \in Frames
    BY <1>6 DEF Mmap
  <2>3. PICK new \in [Pages -> Frames \cup {0}] :
          /\ pte' = [pte EXCEPT ![p] = new]
          /\ \A k \in Pages : new[k] \in {0, page}
    <3>1. CASE driver = "mmap_dev"
      BY <2>1, <2>2, <3>1, RemapOnePage DEF MmapMmapDev
    <3>2. CASE driver = "fault_dev"
      BY <2>1, <3>2 DEF MmapFaultDev
    <3> QED
      BY <3>1, <3>2
  <2>4. module' = module /\ page' = page /\ owned' = owned /\ fd' = fd
          /\ loadFailed' = loadFailed /\ driver' = driver
    BY <1>6 DEF Mmap
  <2> QED
    BY <2>1, <2>2, <2>3, <2>4
<1>7. ASSUME NEW p \in Procs, Fault(p) PROVE IInv'
  <2>1. PICK k \in 0 .. vma[p] - 1 : page # 0 /\ pte' = [pte EXCEPT ![p][k] = page]
    BY <1>7 DEF Fault, FaultFrame
  <2>2. k \in Pages /\ vma[p] # 0
    BY <2>1 DEF Pages
  <2>3. module = "live"
    BY <2>2
  <2>4. page \in owned /\ page \in Frames
    BY <2>3
  <2> QED
    BY <1>7, <2>1, <2>2, <2>3, <2>4 DEF Fault
<1>8. ASSUME NEW p \in Procs, Munmap(p) PROVE IInv'
  BY <1>8 DEF Munmap
<1>9. ASSUME NEW p \in Procs, NEW q \in Procs, Fork(p, q) PROVE IInv'
  BY <1>9 DEF Fork
<1>10. CASE UNCHANGED vars
  BY <1>10 DEF vars
<1> QED
  BY <1>1, <1>2, <1>3, <1>4, <1>5, <1>6, <1>7, <1>8, <1>9, <1>10 DEF Next

\* The inductive invariant holds in every reachable state.
THEOREM Invariance == Spec => []IInv
  BY InitIInv, NextIInv, PTL DEF Spec

\* The variables stay within their types; in particular no page table ever has
\* a page that alloc_page did not hand out.
THEOREM TypeCorrect == Spec => []TypeOK
<1>1. IInv => TypeOK
  BY DEF IInv
<1> QED
  BY Invariance, <1>1, PTL

\* However processes map, touch, fork, close and unmap while modules come and
\* go, a mapping reaches only the page of the driver that is loaded.
THEOREM NoStaleMapping == Spec => []MappingsShareThePage
<1>1. IInv => MappingsShareThePage
  BY DEF IInv
<1> QED
  BY Invariance, <1>1, PTL

\* After rmmod the page is back with the system; only fault_dev can lose it,
\* and only if misc_register has failed.
THEOREM NothingLost == Spec => []PageReturned
<1>1. IInv => PageReturned
  BY SharedPageAssumption DEF IInv, TypeOK, HasPage, OwnsOnlyPage, PageReturned
<1> QED
  BY Invariance, <1>1, PTL

-----------------------------------------------------------------------------
\* From here on, UserPrograms.
\* A configuration is what a program has still to execute and the state it does
\* so in: <<todo, held, painted, shown, <<measurement, ignored>>, chain, failedAt>>.
IsSeq(t) == \E X : t \in Seq(X)
Then(instr, t) == <<instr>> \o t

\* The configuration after the first instruction of k, if it succeeds,
OnSuccess(k) ==
  LET instr == Head(k[1]) IN
    << Tail(k[1]),
       IF instr.do = "get" THEN k[2] \cup {instr.what}
         ELSE IF instr.do \in {"put", "putif"} THEN k[2] \ Released(instr.what) ELSE k[2],
       IF instr.do = "paint" THEN TRUE ELSE k[3],
       IF instr.do = "show" THEN TRUE
         ELSE IF instr.do \in {"put", "putif"} THEN k[4] /\ "fb" \notin Released(instr.what) ELSE k[4],
       IF instr.do = "measure" THEN <<instr.what, k[5][2]>> ELSE k[5],
       IF instr.do = "extend" THEN Append(k[6], k[5][1]) ELSE k[6],
       k[7] >>

\* if it succeeds without having done all it should, the calls in F having been
\* to no avail,
OnLess(k, F) == << Tail(k[1]), k[2], k[3], k[4], <<k[5][1], k[5][2] \cup F>>, k[6], k[7] >>

Lesser(k) ==
  LET instr == Head(k[1]) IN
  IF instr.do = "try" THEN SUBSET instr.what
  ELSE IF instr.do = "show" /\ instr.what = "atomic_commit" /\ AtomicProps \cap k[5][2] # {}
       THEN {{}} ELSE {}

\* and if it fails.
OnFailure(k) ==
  << Head(k[1]).else, k[2], k[3], k[4], k[5], k[6], Head(k[1]).what >>

MayEnd(p, k) ==
  \/ k[2] = {} /\ ~k[4]
  \/ p = "modeset" /\ k[7] = "setcrtc"
  \/ p = "dumb" /\ k[7] # ""
  \/ p = "fault_user" /\ k[7] = "shared"

MayTell(p, a, b, m, c) ==
  /\ p = "hash_chain" => c = Components
  /\ p \in {"atomic", "modeset"} => a
  /\ p = "atomic" => b \/ AtomicProps \cap m[2] # {}
  /\ p = "modeset" => b

MayExecute(p, instr, k) ==
  /\ instr.do \in Fallible => Needs(instr.what) \subseteq k[2]
  /\ instr.do = "get" => instr.what \notin k[2]
  /\ instr.do \in {"put", "paint", "use"} => instr.what \in k[2]
  /\ instr.do = "try" => \A x \in instr.what : Needs(x) \subseteq k[2]
  /\ instr.do = "tell" => MayTell(p, k[3], k[4], k[5], k[6])

\* What the invariants ask of program p in configuration k,
Acceptable(p, k) ==
  /\ IsSeq(k[1])
  /\ k[1] = <<>> => MayEnd(p, k)
  /\ k[1] # <<>> => MayExecute(p, Head(k[1]), k)

\* of a set of configurations it does not leave,
Within(k, S) ==
  /\ OnSuccess(k) \in S
  /\ Head(k[1]).do \in Fallible => OnFailure(k) \in S
  /\ \A F \in Lesser(k) : OnLess(k, F) \in S

Closed(p, S) == \A k \in S : Acceptable(p, k) /\ (k[1] # <<>> => Within(k, S))

\* and of all it can come to from k on.
Good(p, k) == \E S : k \in S /\ Closed(p, S)

GoodNext(p, k) ==
  /\ Good(p, OnSuccess(k))
  /\ Head(k[1]).do \in Fallible => Good(p, OnFailure(k))
  /\ \A F \in Lesser(k) : Good(p, OnLess(k, F))

\* Good is the largest such set: from a good configuration,
\* all outcomes of the next instruction are good,
LEMMA GoodUnfold ==
  ASSUME NEW p, NEW k, Good(p, k)
  PROVE  Acceptable(p, k) /\ (k[1] # <<>> => GoodNext(p, k))
<1>1. PICK S : k \in S /\ Closed(p, S)
  BY DEF Good
<1>2. Acceptable(p, k) /\ (k[1] # <<>> => Within(k, S))
  BY <1>1 DEF Closed
<1> QED
  BY <1>1, <1>2 DEF Good, GoodNext, Within

\* and where they all are, the configuration is.
LEMMA GoodFold ==
  ASSUME NEW p, NEW k, Acceptable(p, k), k[1] # <<>> => GoodNext(p, k)
  PROVE  Good(p, k)
<1> DEFINE Outcomes == IF k[1] = <<>> THEN {}
                       ELSE {OnSuccess(k)} \cup {OnLess(k, F) : F \in Lesser(k)}
                            \cup (IF Head(k[1]).do \in Fallible THEN {OnFailure(k)} ELSE {})
           Choice(j) == CHOOSE S : j \in S /\ Closed(p, S)
           S == {k} \cup UNION {Choice(j) : j \in Outcomes}
<1>1. \A j \in Outcomes : Good(p, j)
  BY DEF GoodNext
<1>2. \A j \in Outcomes : j \in Choice(j) /\ Closed(p, Choice(j))
  <2> HIDE DEF Outcomes
  <2> TAKE j \in Outcomes
  <2>1. \E T : j \in T /\ Closed(p, T)
    BY <1>1 DEF Good
  <2> QED
    BY ONLY <2>1
<1>3. k[1] # <<>> => /\ OnSuccess(k) \in Outcomes
                     /\ Head(k[1]).do \in Fallible => OnFailure(k) \in Outcomes
                     /\ \A F \in Lesser(k) : OnLess(k, F) \in Outcomes
  OBVIOUS
<1> HIDE DEF Outcomes, Choice
<1>4. k[1] # <<>> => Within(k, S)
  BY <1>2, <1>3 DEF Within
<1>5. ASSUME NEW j \in S, j # k
      PROVE  Acceptable(p, j) /\ (j[1] # <<>> => Within(j, S))
  <2>1. PICK i \in Outcomes : j \in Choice(i)
    BY <1>5
  <2>2. Acceptable(p, j) /\ (j[1] # <<>> => Within(j, Choice(i)))
    BY <1>2, <2>1 DEF Closed
  <2>3. Choice(i) \subseteq S
    BY <2>1
  <2> QED
    BY ONLY <2>2, <2>3 DEF Within
<1>6. k \in S
  OBVIOUS
<1> HIDE DEF S
<1>7. Closed(p, S)
  BY <1>4, <1>5 DEF Closed
<1> QED
  BY <1>6, <1>7 DEF Good

-----------------------------------------------------------------------------
\* Sequences of instructions, whatever the instructions carry.
LEMMA ThenFacts ==
  ASSUME NEW instr, NEW t, IsSeq(t)
  PROVE  /\ IsSeq(Then(instr, t))
         /\ Then(instr, t) # <<>> /\ Head(Then(instr, t)) = instr /\ Tail(Then(instr, t)) = t
<1>1. PICK X : t \in Seq(X)
  BY DEF IsSeq
<1> DEFINE Y == X \cup {instr}
<1>2. t \in Seq(Y) /\ <<instr>> \in Seq(Y)
  BY <1>1
<1> HIDE DEF Y
<1>3. Then(instr, t) \in Seq(Y)
  BY <1>2 DEF Then
<1>4. /\ Len(Then(instr, t)) = 1 + Len(t) /\ Len(t) \in Nat
      /\ Then(instr, t)[1] = instr
      /\ \A n \in 1 .. Len(t) : Then(instr, t)[n + 1] = t[n]
  BY <1>2 DEF Then
<1>5. Then(instr, t) # <<>> /\ Head(Then(instr, t)) = instr
  BY <1>3, <1>4
<1>6. Tail(Then(instr, t)) \in Seq(Y) /\ Len(Tail(Then(instr, t))) = Len(t)
      /\ \A n \in 1 .. Len(t) : Tail(Then(instr, t))[n] = t[n]
  BY <1>3, <1>4
<1>7. Tail(Then(instr, t)) = t
  BY <1>2, <1>4, <1>6
<1> QED
  BY <1>3, <1>5, <1>7 DEF IsSeq

LEMMA EmptySeq == IsSeq(<<>>)
<1>1. <<>> \in Seq({})
  OBVIOUS
<1> QED
  BY <1>1 DEF IsSeq

\* Joining two pieces of code leaves the first instruction first.
LEMMA JoinThen ==
  ASSUME NEW instr, NEW s, NEW t, IsSeq(s), IsSeq(t)
  PROVE  Then(instr, s) \o t = Then(instr, s \o t)
<1>1. PICK X : s \in Seq(X) 
  BY DEF IsSeq
<1>2. PICK Y : t \in Seq(Y)
  BY DEF IsSeq
<1> DEFINE Z == X \cup Y \cup {instr}
<1>3. s \in Seq(Z) /\ t \in Seq(Z) /\ <<instr>> \in Seq(Z)
  BY <1>1, <1>2
<1> HIDE DEF Z
<1> SUFFICES (<<instr>> \o s) \o t = <<instr>> \o (s \o t)
  BY DEF Then
<1> DEFINE u == (<<instr>> \o s) \o t  v == <<instr>> \o (s \o t)
<1>4. <<instr>> \o s \in Seq(Z) /\ Len(<<instr>> \o s) = 1 + Len(s) /\ s \o t \in Seq(Z)
      /\ Len(s \o t) = Len(s) + Len(t) /\ Len(s) \in Nat /\ Len(t) \in Nat
  BY <1>3
<1>5. u \in Seq(Z) /\ v \in Seq(Z) /\ Len(u) = 1 + Len(s) + Len(t) /\ Len(v) = Len(u)
  BY <1>3, <1>4
<1>6. \A n \in 1 .. Len(u) : u[n] = v[n]
  BY <1>3, <1>4
<1> HIDE DEF u, v
<1>7. u = v
  BY <1>5, <1>6
<1> QED
  BY <1>7 DEF u, v

LEMMA JoinEmpty ==
  ASSUME NEW t, IsSeq(t)
  PROVE  <<>> \o t = t /\ t \o <<>> = t
  BY DEF IsSeq

\* The first instruction of a piece of code that is written out.
LEMMA AsThen2 ==
  ASSUME NEW a, NEW b
  PROVE  <<a, b>> = Then(a, <<b>>)
<1>1. <<a>> \in Seq({a, b}) /\ <<b>> \in Seq({a, b}) /\ <<a, b>> \in Seq({a, b})
  OBVIOUS
<1>2. /\ Then(a, <<b>>) \in Seq({a, b}) /\ Len(Then(a, <<b>>)) = 2
      /\ Then(a, <<b>>)[1] = a /\ Then(a, <<b>>)[2] = b
  BY <1>1 DEF Then
<1>3. Len(<<a, b>>) = 2 /\ <<a, b>>[1] = a /\ <<a, b>>[2] = b
  OBVIOUS
<1>4. \A n \in 1 .. 2 : <<a, b>>[n] = Then(a, <<b>>)[n]
  BY <1>2, <1>3
<1> QED
  BY ONLY <1>1, <1>2, <1>3, <1>4

LEMMA AsThen1 ==
  ASSUME NEW a
  PROVE  <<a>> = Then(a, <<>>)
  BY DEF Then

LEMMA AsThen3 ==
  ASSUME NEW a, NEW b, NEW c
  PROVE  <<a, b, c>> = Then(a, <<b, c>>)
  BY DEF Then

LEMMA AsThen4 ==
  ASSUME NEW a, NEW b, NEW c, NEW d
  PROVE  <<a, b, c, d>> = Then(a, <<b, c, d>>)
  BY DEF Then

LEMMA AsThen5 ==
  ASSUME NEW a, NEW b, NEW c, NEW d, NEW e
  PROVE  <<a, b, c, d, e>> = Then(a, <<b, c, d, e>>)
  BY DEF Then

LEMMA AsThen6 ==
  ASSUME NEW a, NEW b, NEW c, NEW d, NEW e, NEW f
  PROVE  <<a, b, c, d, e, f>> = Then(a, <<b, c, d, e, f>>)
  BY DEF Then

LEMMA AsThen7 ==
  ASSUME NEW a, NEW b, NEW c, NEW d, NEW e, NEW f, NEW g
  PROVE  <<a, b, c, d, e, f, g>> = Then(a, <<b, c, d, e, f, g>>)
  BY DEF Then

LEMMA AsThen8 ==
  ASSUME NEW a, NEW b, NEW c, NEW d, NEW e, NEW f, NEW g, NEW h
  PROVE  <<a, b, c, d, e, f, g, h>> = Then(a, <<b, c, d, e, f, g, h>>)
  BY DEF Then

\* What each call needs, read off Needs.
LEMMA NeedsTable ==
  /\ Needs("fd") = {} /\ Needs("fp") = {} /\ Needs("ctx") = {}
  /\ Needs("res") = {"fd"} /\ Needs("planes") = {"fd"} /\ Needs("handle") = {"fd"}
  /\ Needs("blob") = {"fd"} /\ Needs("req") = {"fd"} /\ Needs("shared") = {"fd"}
  /\ Needs("connected") = {"fd"} /\ Needs("possible_crtcs") = {"fd"}
  /\ Needs("primary") = {"fd"} /\ Needs("crtc_index") = {"fd"}
  /\ Needs("conn") = {"fd", "res"} /\ Needs("enc") = {"fd", "conn"}
  /\ Needs("plane") = {"fd", "planes"} /\ Needs("props") = {"fd", "planes"}
  /\ Needs("fb") = {"fd", "handle"} /\ Needs("offset") = {"fd", "handle"}
  /\ Needs("map") = {"fd", "offset"}
  /\ Needs("atomic_commit") = {"fd", "req", "blob", "fb"} /\ Needs("setcrtc") = {"fd", "conn", "fb"}
  /\ Needs("extend") = {"ctx"}
  /\ \A x \in AtomicProps : Needs(x) = {"fd", "req"}
  /\ \A x \in ClientCaps \cup {"RESET", "SET_VAL", "GET_VAL"} : Needs(x) = {"fd"}
  /\ \A n \in DOMAIN Components : Needs(Components[n]) = {"fp", "ctx"}
<1>1. /\ DOMAIN Components = 1 .. 4
      /\ {Components[n] : n \in DOMAIN Components} = {"tfa.bin", "uboot.bin", "Image", "board.dtb"}
  BY DEF Components
<1> QED
  BY <1>1 DEF Needs, AtomicProps, ClientCaps

-----------------------------------------------------------------------------
\* What can be executed to the end from <<instr, t>> on.
LEMMA GoodSeq ==
  ASSUME NEW p, NEW t, NEW h, NEW a, NEW b, NEW m, NEW c, NEW f,
         Good(p, <<t, h, a, b, m, c, f>>)
  PROVE  IsSeq(t)
<1>1. Acceptable(p, <<t, h, a, b, m, c, f>>)
  BY GoodUnfold
<1> QED
  BY <1>1 DEF Acceptable

\* A program may end here,
LEMMA RuleEnd ==
  ASSUME NEW p, NEW h, NEW a, NEW b, NEW m, NEW c, NEW f,
         \/ h = {} /\ ~b
         \/ p = "modeset" /\ f = "setcrtc"
         \/ p = "dumb" /\ f # ""
         \/ p = "fault_user" /\ f = "shared"
  PROVE  Good(p, <<<<>>, h, a, b, m, c, f>>)
<1> DEFINE k == <<<<>>, h, a, b, m, c, f>>
<1>1. k[1] = <<>> /\ k[2] = h /\ k[4] = b /\ k[7] = f
  OBVIOUS
<1> HIDE DEF k
<1>2. Acceptable(p, k)
  BY <1>1, EmptySeq DEF Acceptable, MayEnd
<1>3. Good(p, k)
  BY <1>1, <1>2, GoodFold
<1> QED
  BY <1>3 DEF k

\* The form of all the rules.
LEMMA RuleThen ==
  ASSUME NEW p, NEW instr, NEW t, NEW h, NEW a, NEW b, NEW m, NEW c, NEW f,
         NEW k, k = <<Then(instr, t), h, a, b, m, c, f>>,
         IsSeq(t), MayExecute(p, instr, k),
         Good(p, OnSuccess(k)),
         instr.do \in Fallible => Good(p, OnFailure(k)),
         \A F \in Lesser(k) : Good(p, OnLess(k, F))
  PROVE  Good(p, k)
<1>1. k[1] = Then(instr, t)
  OBVIOUS
<1>2. k[1] # <<>> /\ Head(k[1]) = instr /\ IsSeq(k[1])
  BY <1>1, ThenFacts
<1>3. Acceptable(p, k)
  BY ONLY <1>2, MayExecute(p, instr, k) DEF Acceptable
<1>4. GoodNext(p, k)
  BY ONLY <1>2, Good(p, OnSuccess(k)), instr.do \in Fallible => Good(p, OnFailure(k)),
          \A F \in Lesser(k) : Good(p, OnLess(k, F)) DEF GoodNext
<1> QED
  BY ONLY <1>3, <1>4, GoodFold

\* One rule for each instruction: what has to hold before it, and from which
\* configurations the rest must then be good.
LEMMA RuleGet ==
  ASSUME NEW p, NEW x, NEW e, NEW h2, NEW t, NEW h, NEW a, NEW b, NEW m, NEW c, NEW f,
         Needs(x) \subseteq h,
         x \notin h,
         h2 = h \cup {x},
         Good(p, <<t, h2, a, b, m, c, f>>),
         Good(p, <<e, h, a, b, m, c, x>>)
  PROVE  Good(p, <<Then(Get(x, e), t), h, a, b, m, c, f>>)
<1> DEFINE instr == Get(x, e)
           k == <<Then(instr, t), h, a, b, m, c, f>>
<1>1. instr.do = "get" /\ instr.what = x /\ instr.else = e
  BY DEF Get
<1> HIDE DEF instr
<1>2. /\ IsSeq(t) /\ Head(k[1]) = instr /\ Tail(k[1]) = t
      /\ k[2] = h /\ k[3] = a /\ k[4] = b /\ k[5] = m /\ k[6] = c /\ k[7] = f
  BY GoodSeq, ThenFacts
<1> HIDE DEF k
<1>3. OnSuccess(k) = <<t, h2, a, b, m, c, f>>
  BY <1>1, <1>2 DEF OnSuccess
<1>4. OnFailure(k) = <<e, h, a, b, m, c, x>>
  BY <1>1, <1>2 DEF OnFailure
<1>5. MayExecute(p, instr, k)
  BY <1>1, <1>2 DEF MayExecute, Fallible
<1>6. Good(p, OnSuccess(k))
  BY ONLY <1>3, Good(p, <<t, h2, a, b, m, c, f>>)
<1>7. instr.do \in Fallible => Good(p, OnFailure(k))
  BY ONLY <1>4, Good(p, <<e, h, a, b, m, c, x>>)
<1>10. Lesser(k) = {}
  BY <1>1, <1>2 DEF Lesser
<1>8. k = <<Then(instr, t), h, a, b, m, c, f>>
  BY ONLY TRUE DEF k
<1>9. Good(p, k)
  BY ONLY <1>2, <1>5, <1>6, <1>7, <1>10, <1>8, RuleThen
<1> QED
  BY <1>9 DEF k, instr

LEMMA RuleTest ==
  ASSUME NEW p, NEW x, NEW e, NEW t, NEW h, NEW a, NEW b, NEW m, NEW c, NEW f,
         Needs(x) \subseteq h,
         Good(p, <<t, h, a, b, m, c, f>>),
         Good(p, <<e, h, a, b, m, c, x>>)
  PROVE  Good(p, <<Then(Test(x, e), t), h, a, b, m, c, f>>)
<1> DEFINE instr == Test(x, e)
           k == <<Then(instr, t), h, a, b, m, c, f>>
<1>1. instr.do = "test" /\ instr.what = x /\ instr.else = e
  BY DEF Test
<1> HIDE DEF instr
<1>2. /\ IsSeq(t) /\ Head(k[1]) = instr /\ Tail(k[1]) = t
      /\ k[2] = h /\ k[3] = a /\ k[4] = b /\ k[5] = m /\ k[6] = c /\ k[7] = f
  BY GoodSeq, ThenFacts
<1> HIDE DEF k
<1>3. OnSuccess(k) = <<t, h, a, b, m, c, f>>
  BY <1>1, <1>2 DEF OnSuccess
<1>4. OnFailure(k) = <<e, h, a, b, m, c, x>>
  BY <1>1, <1>2 DEF OnFailure
<1>5. MayExecute(p, instr, k)
  BY <1>1, <1>2 DEF MayExecute, Fallible
<1>6. Good(p, OnSuccess(k))
  BY ONLY <1>3, Good(p, <<t, h, a, b, m, c, f>>)
<1>7. instr.do \in Fallible => Good(p, OnFailure(k))
  BY ONLY <1>4, Good(p, <<e, h, a, b, m, c, x>>)
<1>10. Lesser(k) = {}
  BY <1>1, <1>2 DEF Lesser
<1>8. k = <<Then(instr, t), h, a, b, m, c, f>>
  BY ONLY TRUE DEF k
<1>9. Good(p, k)
  BY ONLY <1>2, <1>5, <1>6, <1>7, <1>10, <1>8, RuleThen
<1> QED
  BY <1>9 DEF k, instr

LEMMA RuleShow ==
  ASSUME NEW p, NEW x, NEW e, NEW t, NEW h, NEW a, NEW b, NEW m, NEW c, NEW f,
         Needs(x) \subseteq h, x # "atomic_commit",
         Good(p, <<t, h, a, TRUE, m, c, f>>),
         Good(p, <<e, h, a, b, m, c, x>>)
  PROVE  Good(p, <<Then(Show(x, e), t), h, a, b, m, c, f>>)
<1> DEFINE instr == Show(x, e)
           k == <<Then(instr, t), h, a, b, m, c, f>>
<1>1. instr.do = "show" /\ instr.what = x /\ instr.else = e
  BY DEF Show
<1> HIDE DEF instr
<1>2. /\ IsSeq(t) /\ Head(k[1]) = instr /\ Tail(k[1]) = t
      /\ k[2] = h /\ k[3] = a /\ k[4] = b /\ k[5] = m /\ k[6] = c /\ k[7] = f
  BY GoodSeq, ThenFacts
<1> HIDE DEF k
<1>3. OnSuccess(k) = <<t, h, a, TRUE, m, c, f>>
  BY <1>1, <1>2 DEF OnSuccess
<1>4. OnFailure(k) = <<e, h, a, b, m, c, x>>
  BY <1>1, <1>2 DEF OnFailure
<1>5. MayExecute(p, instr, k)
  BY <1>1, <1>2 DEF MayExecute, Fallible
<1>6. Good(p, OnSuccess(k))
  BY ONLY <1>3, Good(p, <<t, h, a, TRUE, m, c, f>>)
<1>7. instr.do \in Fallible => Good(p, OnFailure(k))
  BY ONLY <1>4, Good(p, <<e, h, a, b, m, c, x>>)
<1>10. Lesser(k) = {}
  BY <1>1, <1>2 DEF Lesser
<1>8. k = <<Then(instr, t), h, a, b, m, c, f>>
  BY ONLY TRUE DEF k
<1>9. Good(p, k)
  BY ONLY <1>2, <1>5, <1>6, <1>7, <1>10, <1>8, RuleThen
<1> QED
  BY <1>9 DEF k, instr

\* A commit that lacks properties may change nothing.
LEMMA RuleCommit ==
  ASSUME NEW p, NEW x, x = "atomic_commit", NEW e, NEW t, NEW h, NEW a, NEW b,
         NEW d, NEW i, NEW m, m = <<d, i>>, NEW c, NEW f,
         Needs(x) \subseteq h,
         Good(p, <<t, h, a, TRUE, m, c, f>>),
         AtomicProps \cap i # {} => Good(p, <<t, h, a, b, m, c, f>>),
         Good(p, <<e, h, a, b, m, c, x>>)
  PROVE  Good(p, <<Then(Show(x, e), t), h, a, b, m, c, f>>)
<1> DEFINE instr == Show(x, e)
           k == <<Then(instr, t), h, a, b, m, c, f>>
<1>1. instr.do = "show" /\ instr.what = x /\ instr.else = e
  BY DEF Show
<1> HIDE DEF instr
<1>2. /\ IsSeq(t) /\ Head(k[1]) = instr /\ Tail(k[1]) = t
      /\ k[2] = h /\ k[3] = a /\ k[4] = b /\ k[5] = m /\ k[6] = c /\ k[7] = f
  BY GoodSeq, ThenFacts
<1>3. m[1] = d /\ m[2] = i
  OBVIOUS
<1> HIDE DEF k
<1>4. OnSuccess(k) = <<t, h, a, TRUE, m, c, f>> /\ OnFailure(k) = <<e, h, a, b, m, c, x>>
  BY <1>1, <1>2 DEF OnSuccess, OnFailure
<1>5. MayExecute(p, instr, k)
  BY <1>1, <1>2 DEF MayExecute, Fallible
<1>6. Good(p, OnSuccess(k))
  BY ONLY <1>4, Good(p, <<t, h, a, TRUE, m, c, f>>)
<1>7. instr.do \in Fallible => Good(p, OnFailure(k))
  BY ONLY <1>4, Good(p, <<e, h, a, b, m, c, x>>)
<1>8. ASSUME NEW F \in Lesser(k) PROVE Good(p, OnLess(k, F))
  <2>1. F = {} /\ AtomicProps \cap i # {}
    BY <1>1, <1>2, <1>3 DEF Lesser
  <2>2. <<k[5][1], k[5][2] \cup F>> = m
    BY <1>2, <1>3, <2>1
  <2>3. OnLess(k, F) = <<t, h, a, b, m, c, f>>
    BY <1>2, <2>2 DEF OnLess
  <2> QED
    BY <2>1, <2>3
<1>9. k = <<Then(instr, t), h, a, b, m, c, f>>
  BY ONLY TRUE DEF k
<1>10. Good(p, k)
  BY ONLY <1>2, <1>5, <1>6, <1>7, <1>8, <1>9, RuleThen
<1> QED
  BY <1>10 DEF k, instr

\* Whichever of the calls in X fail.
LEMMA RuleTry ==
  ASSUME NEW p, NEW X, NEW t, NEW h, NEW a, NEW b, NEW d, NEW i, NEW c, NEW f,
         \A x \in X : Needs(x) \subseteq h,
         \A j : Good(p, <<t, h, a, b, <<d, j>>, c, f>>)
  PROVE  Good(p, <<Then(Try(X), t), h, a, b, <<d, i>>, c, f>>)
<1> DEFINE instr == Try(X)
           m == <<d, i>>
           k == <<Then(instr, t), h, a, b, m, c, f>>
<1>1. instr.do = "try" /\ instr.what = X
  BY DEF Try
<1> HIDE DEF instr
<1>0. m[1] = d /\ m[2] = i /\ Good(p, <<t, h, a, b, m, c, f>>)
  OBVIOUS
<1> HIDE DEF m
<1>2. /\ IsSeq(t) /\ Head(k[1]) = instr /\ Tail(k[1]) = t
      /\ k[2] = h /\ k[3] = a /\ k[4] = b /\ k[5] = m /\ k[6] = c /\ k[7] = f
  BY <1>0, GoodSeq, ThenFacts
<1> HIDE DEF k
<1>3. OnSuccess(k) = <<t, h, a, b, m, c, f>>
  BY <1>1, <1>2 DEF OnSuccess
<1>4. instr.do \notin Fallible
  BY <1>1 DEF Fallible
<1>5. MayExecute(p, instr, k)
  BY <1>1, <1>2, \A x \in X : Needs(x) \subseteq h DEF MayExecute, Fallible
<1>6. Good(p, OnSuccess(k))
  BY ONLY <1>0, <1>3
<1>7. ASSUME NEW F \in Lesser(k) PROVE Good(p, OnLess(k, F))
  <2>1. OnLess(k, F) = <<t, h, a, b, <<d, i \cup F>>, c, f>>
    BY <1>0, <1>2 DEF OnLess
  <2> QED
    BY ONLY <2>1, \A j : Good(p, <<t, h, a, b, <<d, j>>, c, f>>)
<1>8. k = <<Then(instr, t), h, a, b, m, c, f>>
  BY ONLY TRUE DEF k
<1>9. Good(p, k)
  BY ONLY <1>2, <1>4, <1>5, <1>6, <1>7, <1>8, RuleThen
<1> QED
  BY <1>9 DEF k, m, instr

LEMMA RuleMeasure ==
  ASSUME NEW p, NEW x, NEW e, NEW m2, NEW t, NEW h, NEW a, NEW b, NEW m, NEW c, NEW f,
         Needs(x) \subseteq h, m2 = <<x, m[2]>>,
         Good(p, <<t, h, a, b, m2, c, f>>),
         Good(p, <<e, h, a, b, m, c, x>>)
  PROVE  Good(p, <<Then(Measure(x, e), t), h, a, b, m, c, f>>)
<1> DEFINE instr == Measure(x, e)
           k == <<Then(instr, t), h, a, b, m, c, f>>
<1>1. instr.do = "measure" /\ instr.what = x /\ instr.else = e
  BY DEF Measure
<1> HIDE DEF instr
<1>2. /\ IsSeq(t) /\ Head(k[1]) = instr /\ Tail(k[1]) = t
      /\ k[2] = h /\ k[3] = a /\ k[4] = b /\ k[5] = m /\ k[6] = c /\ k[7] = f
  BY GoodSeq, ThenFacts
<1> HIDE DEF k
<1>3. OnSuccess(k) = <<t, h, a, b, m2, c, f>>
  BY <1>1, <1>2 DEF OnSuccess
<1>4. OnFailure(k) = <<e, h, a, b, m, c, x>>
  BY <1>1, <1>2 DEF OnFailure
<1>5. MayExecute(p, instr, k)
  BY <1>1, <1>2 DEF MayExecute, Fallible
<1>6. Good(p, OnSuccess(k))
  BY ONLY <1>3, Good(p, <<t, h, a, b, m2, c, f>>)
<1>7. instr.do \in Fallible => Good(p, OnFailure(k))
  BY ONLY <1>4, Good(p, <<e, h, a, b, m, c, x>>)
<1>10. Lesser(k) = {}
  BY <1>1, <1>2 DEF Lesser
<1>8. k = <<Then(instr, t), h, a, b, m, c, f>>
  BY ONLY TRUE DEF k
<1>9. Good(p, k)
  BY ONLY <1>2, <1>5, <1>6, <1>7, <1>10, <1>8, RuleThen
<1> QED
  BY <1>9 DEF k, instr

LEMMA RuleExtend ==
  ASSUME NEW p, NEW e, NEW t, NEW h, NEW a, NEW b, NEW m, NEW c, NEW f,
         "ctx" \in h,
         Good(p, <<t, h, a, b, m, Append(c, m[1]), f>>),
         Good(p, <<e, h, a, b, m, c, "extend">>)
  PROVE  Good(p, <<Then(Extend(e), t), h, a, b, m, c, f>>)
<1> DEFINE instr == Extend(e)
           k == <<Then(instr, t), h, a, b, m, c, f>>
<1>1. instr.do = "extend" /\ instr.what = "extend" /\ instr.else = e
  BY DEF Extend
<1> HIDE DEF instr
<1>2. /\ IsSeq(t) /\ Head(k[1]) = instr /\ Tail(k[1]) = t
      /\ k[2] = h /\ k[3] = a /\ k[4] = b /\ k[5] = m /\ k[6] = c /\ k[7] = f
  BY GoodSeq, ThenFacts
<1> HIDE DEF k
<1>3. OnSuccess(k) = <<t, h, a, b, m, Append(c, m[1]), f>>
  BY <1>1, <1>2 DEF OnSuccess
<1>4. OnFailure(k) = <<e, h, a, b, m, c, "extend">>
  BY <1>1, <1>2 DEF OnFailure
<1>5. MayExecute(p, instr, k)
  BY <1>1, <1>2, NeedsTable DEF MayExecute, Fallible
<1>6. Good(p, OnSuccess(k))
  BY ONLY <1>3, Good(p, <<t, h, a, b, m, Append(c, m[1]), f>>)
<1>7. instr.do \in Fallible => Good(p, OnFailure(k))
  BY ONLY <1>4, Good(p, <<e, h, a, b, m, c, "extend">>)
<1>10. Lesser(k) = {}
  BY <1>1, <1>2 DEF Lesser
<1>8. k = <<Then(instr, t), h, a, b, m, c, f>>
  BY ONLY TRUE DEF k
<1>9. Good(p, k)
  BY ONLY <1>2, <1>5, <1>6, <1>7, <1>10, <1>8, RuleThen
<1> QED
  BY <1>9 DEF k, instr

LEMMA RulePut ==
  ASSUME NEW p, NEW x, NEW h2, NEW b2, NEW t, NEW h, NEW a, NEW b, NEW m, NEW c, NEW f,
         x \in h,
         h2 = h \ Released(x),
         b2 = (b /\ "fb" \notin Released(x)),
         Good(p, <<t, h2, a, b2, m, c, f>>)
  PROVE  Good(p, <<Then(Put(x), t), h, a, b, m, c, f>>)
<1> DEFINE instr == Put(x)
           k == <<Then(instr, t), h, a, b, m, c, f>>
<1>1. instr.do = "put" /\ instr.what = x
  BY DEF Put
<1> HIDE DEF instr
<1>2. /\ IsSeq(t) /\ Head(k[1]) = instr /\ Tail(k[1]) = t
      /\ k[2] = h /\ k[3] = a /\ k[4] = b /\ k[5] = m /\ k[6] = c /\ k[7] = f
  BY GoodSeq, ThenFacts
<1> HIDE DEF k
<1>3. OnSuccess(k) = <<t, h2, a, b2, m, c, f>>
  BY <1>1, <1>2 DEF OnSuccess
<1>4. instr.do \notin Fallible
  BY <1>1 DEF Fallible
<1>5. MayExecute(p, instr, k)
  BY <1>1, <1>2 DEF MayExecute, Fallible
<1>6. Good(p, OnSuccess(k))
  BY ONLY <1>3, Good(p, <<t, h2, a, b2, m, c, f>>)
<1>7. instr.do \in Fallible => Good(p, OnFailure(k))
  BY ONLY <1>4
<1>10. Lesser(k) = {}
  BY <1>1, <1>2 DEF Lesser
<1>8. k = <<Then(instr, t), h, a, b, m, c, f>>
  BY ONLY TRUE DEF k
<1>9. Good(p, k)
  BY ONLY <1>2, <1>5, <1>6, <1>7, <1>10, <1>8, RuleThen
<1> QED
  BY <1>9 DEF k, instr

LEMMA RulePutIf ==
  ASSUME NEW p, NEW x, NEW h2, NEW b2, NEW t, NEW h, NEW a, NEW b, NEW m, NEW c, NEW f,
         h2 = h \ Released(x),
         b2 = (b /\ "fb" \notin Released(x)),
         Good(p, <<t, h2, a, b2, m, c, f>>)
  PROVE  Good(p, <<Then(PutIf(x), t), h, a, b, m, c, f>>)
<1> DEFINE instr == PutIf(x)
           k == <<Then(instr, t), h, a, b, m, c, f>>
<1>1. instr.do = "putif" /\ instr.what = x
  BY DEF PutIf
<1> HIDE DEF instr
<1>2. /\ IsSeq(t) /\ Head(k[1]) = instr /\ Tail(k[1]) = t
      /\ k[2] = h /\ k[3] = a /\ k[4] = b /\ k[5] = m /\ k[6] = c /\ k[7] = f
  BY GoodSeq, ThenFacts
<1> HIDE DEF k
<1>3. OnSuccess(k) = <<t, h2, a, b2, m, c, f>>
  BY <1>1, <1>2 DEF OnSuccess
<1>4. instr.do \notin Fallible
  BY <1>1 DEF Fallible
<1>5. MayExecute(p, instr, k)
  BY <1>1, <1>2 DEF MayExecute, Fallible
<1>6. Good(p, OnSuccess(k))
  BY ONLY <1>3, Good(p, <<t, h2, a, b2, m, c, f>>)
<1>7. instr.do \in Fallible => Good(p, OnFailure(k))
  BY ONLY <1>4
<1>10. Lesser(k) = {}
  BY <1>1, <1>2 DEF Lesser
<1>8. k = <<Then(instr, t), h, a, b, m, c, f>>
  BY ONLY TRUE DEF k
<1>9. Good(p, k)
  BY ONLY <1>2, <1>5, <1>6, <1>7, <1>10, <1>8, RuleThen
<1> QED
  BY <1>9 DEF k, instr

LEMMA RulePaint ==
  ASSUME NEW p, NEW t, NEW h, NEW a, NEW b, NEW m, NEW c, NEW f,
         "map" \in h,
         Good(p, <<t, h, TRUE, b, m, c, f>>)
  PROVE  Good(p, <<Then(Paint, t), h, a, b, m, c, f>>)
<1> DEFINE instr == Paint
           k == <<Then(instr, t), h, a, b, m, c, f>>
<1>1. instr.do = "paint" /\ instr.what = "map"
  BY DEF Paint
<1> HIDE DEF instr
<1>2. /\ IsSeq(t) /\ Head(k[1]) = instr /\ Tail(k[1]) = t
      /\ k[2] = h /\ k[3] = a /\ k[4] = b /\ k[5] = m /\ k[6] = c /\ k[7] = f
  BY GoodSeq, ThenFacts
<1> HIDE DEF k
<1>3. OnSuccess(k) = <<t, h, TRUE, b, m, c, f>>
  BY <1>1, <1>2 DEF OnSuccess
<1>4. instr.do \notin Fallible
  BY <1>1 DEF Fallible
<1>5. MayExecute(p, instr, k)
  BY <1>1, <1>2 DEF MayExecute, Fallible
<1>6. Good(p, OnSuccess(k))
  BY ONLY <1>3, Good(p, <<t, h, TRUE, b, m, c, f>>)
<1>7. instr.do \in Fallible => Good(p, OnFailure(k))
  BY ONLY <1>4
<1>10. Lesser(k) = {}
  BY <1>1, <1>2 DEF Lesser
<1>8. k = <<Then(instr, t), h, a, b, m, c, f>>
  BY ONLY TRUE DEF k
<1>9. Good(p, k)
  BY ONLY <1>2, <1>5, <1>6, <1>7, <1>10, <1>8, RuleThen
<1> QED
  BY <1>9 DEF k, instr

LEMMA RuleUse ==
  ASSUME NEW p, NEW x, NEW t, NEW h, NEW a, NEW b, NEW m, NEW c, NEW f,
         x \in h,
         Good(p, <<t, h, a, b, m, c, f>>)
  PROVE  Good(p, <<Then(Use(x), t), h, a, b, m, c, f>>)
<1> DEFINE instr == Use(x)
           k == <<Then(instr, t), h, a, b, m, c, f>>
<1>1. instr.do = "use" /\ instr.what = x
  BY DEF Use
<1> HIDE DEF instr
<1>2. /\ IsSeq(t) /\ Head(k[1]) = instr /\ Tail(k[1]) = t
      /\ k[2] = h /\ k[3] = a /\ k[4] = b /\ k[5] = m /\ k[6] = c /\ k[7] = f
  BY GoodSeq, ThenFacts
<1> HIDE DEF k
<1>3. OnSuccess(k) = <<t, h, a, b, m, c, f>>
  BY <1>1, <1>2 DEF OnSuccess
<1>4. instr.do \notin Fallible
  BY <1>1 DEF Fallible
<1>5. MayExecute(p, instr, k)
  BY <1>1, <1>2 DEF MayExecute, Fallible
<1>6. Good(p, OnSuccess(k))
  BY ONLY <1>3, Good(p, <<t, h, a, b, m, c, f>>)
<1>7. instr.do \in Fallible => Good(p, OnFailure(k))
  BY ONLY <1>4
<1>10. Lesser(k) = {}
  BY <1>1, <1>2 DEF Lesser
<1>8. k = <<Then(instr, t), h, a, b, m, c, f>>
  BY ONLY TRUE DEF k
<1>9. Good(p, k)
  BY ONLY <1>2, <1>5, <1>6, <1>7, <1>10, <1>8, RuleThen
<1> QED
  BY <1>9 DEF k, instr

LEMMA RuleTell ==
  ASSUME NEW p, NEW t, NEW h, NEW a, NEW b, NEW m, NEW c, NEW f,
         MayTell(p, a, b, m, c),
         Good(p, <<t, h, a, b, m, c, f>>)
  PROVE  Good(p, <<Then(Tell, t), h, a, b, m, c, f>>)
<1> DEFINE instr == Tell
           k == <<Then(instr, t), h, a, b, m, c, f>>
<1>1. instr.do = "tell"
  BY DEF Tell
<1> HIDE DEF instr
<1>2. /\ IsSeq(t) /\ Head(k[1]) = instr /\ Tail(k[1]) = t
      /\ k[2] = h /\ k[3] = a /\ k[4] = b /\ k[5] = m /\ k[6] = c /\ k[7] = f
  BY GoodSeq, ThenFacts
<1> HIDE DEF k
<1>3. OnSuccess(k) = <<t, h, a, b, m, c, f>>
  BY <1>1, <1>2 DEF OnSuccess
<1>4. instr.do \notin Fallible
  BY <1>1 DEF Fallible
<1>5. MayExecute(p, instr, k)
  BY <1>1, <1>2 DEF MayExecute, Fallible
<1>6. Good(p, OnSuccess(k))
  BY ONLY <1>3, Good(p, <<t, h, a, b, m, c, f>>)
<1>7. instr.do \in Fallible => Good(p, OnFailure(k))
  BY ONLY <1>4
<1>10. Lesser(k) = {}
  BY <1>1, <1>2 DEF Lesser
<1>8. k = <<Then(instr, t), h, a, b, m, c, f>>
  BY ONLY TRUE DEF k
<1>9. Good(p, k)
  BY ONLY <1>2, <1>5, <1>6, <1>7, <1>10, <1>8, RuleThen
<1> QED
  BY <1>9 DEF k, instr

\* Induction over 0 .. N
LEMMA Induction ==
  ASSUME NEW N \in Nat, NEW T, 0 \in T, \A n \in 0 .. N : n \in T /\ n < N => n + 1 \in T
  PROVE  0 .. N \subseteq T
<1> SUFFICES ASSUME NEW x \in 0 .. N, x \notin T PROVE FALSE
  OBVIOUS
\* Below a number that is not in T lies one less: too many of them.
<1> DEFINE U == {y \in 0 .. x : y \notin T}
           down == [y \in U |-> y - 1]
<1>1. \A y \in U : y - 1 \in U \ {x}
  <2> SUFFICES ASSUME NEW y \in U PROVE y - 1 \in U \ {x}
    OBVIOUS
  <2>1. y # 0 /\ y \in Nat /\ y <= x /\ x <= N /\ x \in Nat
    OBVIOUS
  <2>2. y - 1 \in 0 .. N /\ y - 1 < N /\ (y - 1) + 1 = y
    BY <2>1
  <2>3. y - 1 \notin T
    BY <2>2
  <2> QED
    BY <2>1, <2>3
<1>2. IsFiniteSet(0 .. x) /\ U \subseteq 0 .. x
  BY FS_Interval
<1>3. IsFiniteSet(U) /\ IsFiniteSet(U \ {x})
      /\ Cardinality(U \ {x}) = Cardinality(U) - 1 /\ Cardinality(U) \in Nat
  <2>1. IsFiniteSet(U)
    BY ONLY <1>2, FS_Subset
  <2>2. x \in U
    OBVIOUS
  <2> HIDE DEF U
  <2> QED
    BY <2>1, <2>2, FS_RemoveElement, FS_CardinalityType
<1>4. down \in Injection(U, U \ {x})
  <2>1. \A y \in U : y \in Nat
    OBVIOUS
  <2> HIDE DEF U
  <2> QED
    BY <1>1, <2>1 DEF Injection, IsInjective
<1> HIDE DEF U, down
<1>5. Cardinality(U) <= Cardinality(U \ {x})
  BY ONLY <1>3, <1>4, FS_Injection
<1> QED
  BY <1>3, <1>5
\* The code of the loop with n connectors left to look at.
IsConnectorLoop(loop, found, err) ==
  /\ ConnectorLoop(found, err) = loop[Connectors]
  /\ loop[0] = <<Put("res")>> \o err
  /\ \A n \in 1 .. Connectors :
       loop[n] = <<Get("conn", loop[n - 1]),
                   Test("connected", <<Put("conn")>> \o loop[n - 1])>> \o found

\* ConnectorLoop chooses such a loop; that there is one to choose is shown
\* number by number.
LEMMA ConnectorLoopUnfolds ==
  ASSUME NEW found, NEW err
  PROVE  \E loop : IsConnectorLoop(loop, found, err)
<1> DEFINE Code(g, n) == IF n = 0 THEN <<Put("res")>> \o err
                         ELSE <<Get("conn", g[n - 1]),
                                Test("connected", <<Put("conn")>> \o g[n - 1])>> \o found
           loop == CHOOSE g : g = [n \in 0 .. Connectors |-> Code(g, n)]
           T == {k \in 0 .. Connectors : \E g : g = [n \in 0 .. k |-> Code(g, n)]}
<1>0. Connectors \in Nat
  BY UserProgramsAssumption
<1>1. 0 \in T
  <2> DEFINE g == [n \in 0 .. 0 |-> <<Put("res")>> \o err]
  <2>1. g = [n \in 0 .. 0 |-> Code(g, n)]
    OBVIOUS
  <2> HIDE DEF g, Code
  <2> QED
    BY <1>0, <2>1
<1>2. ASSUME NEW k \in 0 .. Connectors, k \in T, k < Connectors PROVE k + 1 \in T
  <2>1. PICK g : g = [n \in 0 .. k |-> Code(g, n)]
    BY <1>2
  <2> DEFINE h == [n \in 0 .. k + 1 |-> IF n = k + 1 THEN Code(g, n) ELSE g[n]]
  <2>2. \A n \in 0 .. k : h[n] = g[n]
    BY <1>0
  <2>3. ASSUME NEW n \in 0 .. k + 1 PROVE h[n] = Code(h, n)
    <3>0. n = 0 \/ n - 1 \in 0 .. k
      BY <1>0
    <3>1. Code(h, n) = Code(g, n)
      <4>1. n # 0 => h[n - 1] = g[n - 1]
        BY <2>2, <3>0
      <4> HIDE DEF h
      <4> QED
        BY ONLY <4>1
    <3>2. h[n] = Code(g, n)
      <4> HIDE DEF Code
      <4>1. n # k + 1 => n \in 0 .. k
        BY <1>0
      <4>2. h[n] = IF n = k + 1 THEN Code(g, n) ELSE g[n]
        OBVIOUS
      <4> QED
        BY <2>1, <4>1, <4>2
    <3> QED
      BY <3>1, <3>2
  <2>4. h = [n \in 0 .. k + 1 |-> h[n]]
    OBVIOUS
  <2> HIDE DEF h, Code
  <2>5. h = [n \in 0 .. k + 1 |-> Code(h, n)]
    BY <2>3, <2>4
  <2> QED
    BY <1>0, <1>2, <2>5
<1>3. Connectors \in T
  <2> HIDE DEF T
  <2>1. 0 .. Connectors \subseteq T
    BY <1>0, <1>1, <1>2, Induction
  <2> QED
    BY <1>0, <2>1
<1>4. loop = [n \in 0 .. Connectors |-> Code(loop, n)]
  <2> HIDE DEF Code
  <2> QED
    BY <1>3
<1>5. ConnectorLoop(found, err) = loop[Connectors]
  BY DEF ConnectorLoop
<1> HIDE DEF loop, Code
<1>6. loop[0] = Code(loop, 0) /\ \A n \in 1 .. Connectors : loop[n] = Code(loop, n) /\ n # 0
  <2>1. \A n \in 0 .. Connectors : loop[n] = Code(loop, n)
    BY <1>4, Zenon
  <2> QED
    BY <1>0, <2>1
<1>7. IsConnectorLoop(loop, found, err)
  BY <1>5, <1>6 DEF Code, IsConnectorLoop
<1> QED
  BY <1>7
\* The same of the loop over the planes.
IsPlaneLoop(loop, found, err) ==
  /\ PlaneLoop(found, err) = loop[Planes]
  /\ loop[0] = <<Put("planes"), Put("res")>> \o err
  /\ \A n \in 1 .. Planes :
       LET continue == <<Put("plane")>> \o loop[n - 1] IN
       loop[n] = <<Get("plane", loop[n - 1]),
                   Test("possible_crtcs", continue),
                   Get("props", continue),
                   Test("primary", <<Put("props")>> \o continue),
                   Put("props"), Put("plane")>> \o found

LEMMA PlaneLoopUnfolds ==
  ASSUME NEW found, NEW err
  PROVE  \E loop : IsPlaneLoop(loop, found, err)
<1> DEFINE Code(g, n) ==
             IF n = 0 THEN <<Put("planes"), Put("res")>> \o err
             ELSE LET continue == <<Put("plane")>> \o g[n - 1] IN
                  <<Get("plane", g[n - 1]),
                    Test("possible_crtcs", continue),
                    Get("props", continue),
                    Test("primary", <<Put("props")>> \o continue),
                    Put("props"), Put("plane")>> \o found
           loop == CHOOSE g : g = [n \in 0 .. Planes |-> Code(g, n)]
           T == {k \in 0 .. Planes : \E g : g = [n \in 0 .. k |-> Code(g, n)]}
<1>0. Planes \in Nat
  BY UserProgramsAssumption
<1>1. 0 \in T
  <2> DEFINE g == [n \in 0 .. 0 |-> <<Put("planes"), Put("res")>> \o err]
  <2>1. g = [n \in 0 .. 0 |-> Code(g, n)]
    OBVIOUS
  <2> HIDE DEF g, Code
  <2> QED
    BY <1>0, <2>1
<1>2. ASSUME NEW k \in 0 .. Planes, k \in T, k < Planes PROVE k + 1 \in T
  <2>1. PICK g : g = [n \in 0 .. k |-> Code(g, n)]
    BY <1>2
  <2> DEFINE h == [n \in 0 .. k + 1 |-> IF n = k + 1 THEN Code(g, n) ELSE g[n]]
  <2>2. \A n \in 0 .. k : h[n] = g[n]
    BY <1>0
  <2>3. ASSUME NEW n \in 0 .. k + 1 PROVE h[n] = Code(h, n)
    <3>0. n = 0 \/ n - 1 \in 0 .. k
      BY <1>0
    <3>1. Code(h, n) = Code(g, n)
      <4>1. n # 0 => h[n - 1] = g[n - 1]
        BY <2>2, <3>0
      <4> HIDE DEF h
      <4> QED
        BY ONLY <4>1
    <3>2. h[n] = Code(g, n)
      <4> HIDE DEF Code
      <4>1. n # k + 1 => n \in 0 .. k
        BY <1>0
      <4>2. h[n] = IF n = k + 1 THEN Code(g, n) ELSE g[n]
        OBVIOUS
      <4> QED
        BY <2>1, <4>1, <4>2
    <3> QED
      BY <3>1, <3>2
  <2>4. h = [n \in 0 .. k + 1 |-> h[n]]
    OBVIOUS
  <2> HIDE DEF h, Code
  <2>5. h = [n \in 0 .. k + 1 |-> Code(h, n)]
    BY <2>3, <2>4
  <2> QED
    BY <1>0, <1>2, <2>5
<1>3. Planes \in T
  <2> HIDE DEF T
  <2>1. 0 .. Planes \subseteq T
    BY <1>0, <1>1, <1>2, Induction
  <2> QED
    BY <1>0, <2>1
<1>4. loop = [n \in 0 .. Planes |-> Code(loop, n)]
  <2> HIDE DEF Code
  <2> QED
    BY <1>3
<1>5. PlaneLoop(found, err) = loop[Planes]
  BY DEF PlaneLoop
<1> HIDE DEF loop, Code
<1>6. loop[0] = Code(loop, 0) /\ \A n \in 1 .. Planes : loop[n] = Code(loop, n) /\ n # 0
  <2>1. \A n \in 0 .. Planes : loop[n] = Code(loop, n)
    BY <1>4, Zenon
  <2> QED
    BY <1>0, <2>1
<1>7. IsPlaneLoop(loop, found, err)
  BY <1>5, <1>6 DEF Code, IsPlaneLoop
<1> QED
  BY <1>7
\* Code that is written out, joined with what follows it.
LEMMA Join1 ==
  ASSUME NEW a, NEW t, IsSeq(t)
  PROVE  <<a>> \o t = Then(a, t)
  BY DEF Then

LEMMA Join2 ==
  ASSUME NEW a, NEW b, NEW t, IsSeq(t)
  PROVE  <<a, b>> \o t = Then(a, Then(b, t))
<1> DEFINE s == <<b>>
<1>1. <<a, b>> = Then(a, s)
  BY AsThen2
<1>2. IsSeq(s)
  <2>1. s \in Seq({b})
    OBVIOUS
  <2> QED
    BY <2>1 DEF IsSeq
<1>3. s \o t = Then(b, t)
  BY Join1
<1> HIDE DEF s
<1>4. Then(a, s) \o t = Then(a, s \o t)
  BY <1>2, JoinThen
<1> QED
  BY ONLY <1>1, <1>3, <1>4

LEMMA Join3 ==
  ASSUME NEW a, NEW b, NEW c, NEW t, IsSeq(t)
  PROVE  <<a, b, c>> \o t = Then(a, Then(b, Then(c, t)))
<1> DEFINE s == <<b, c>>
<1>1. <<a, b, c>> = Then(a, s)
  BY AsThen3
<1>2. IsSeq(s)
  <2>1. s \in Seq({b, c})
    OBVIOUS
  <2> QED
    BY <2>1 DEF IsSeq
<1>3. s \o t = Then(b, Then(c, t))
  BY Join2
<1> HIDE DEF s
<1>4. Then(a, s) \o t = Then(a, s \o t)
  BY <1>2, JoinThen
<1> QED
  BY ONLY <1>1, <1>3, <1>4

LEMMA Join4 ==
  ASSUME NEW a, NEW b, NEW c, NEW d, NEW t, IsSeq(t)
  PROVE  <<a, b, c, d>> \o t = Then(a, Then(b, Then(c, Then(d, t))))
<1> DEFINE s == <<b, c, d>>
<1>1. <<a, b, c, d>> = Then(a, s)
  BY AsThen4
<1>2. IsSeq(s)
  <2>1. s \in Seq({b, c, d})
    OBVIOUS
  <2> QED
    BY <2>1 DEF IsSeq
<1>3. s \o t = Then(b, Then(c, Then(d, t)))
  BY Join3
<1> HIDE DEF s
<1>4. Then(a, s) \o t = Then(a, s \o t)
  BY <1>2, JoinThen
<1> QED
  BY ONLY <1>1, <1>3, <1>4

LEMMA Join5 ==
  ASSUME NEW a, NEW b, NEW c, NEW d, NEW e, NEW t, IsSeq(t)
  PROVE  <<a, b, c, d, e>> \o t = Then(a, Then(b, Then(c, Then(d, Then(e, t)))))
<1> DEFINE s == <<b, c, d, e>>
<1>1. <<a, b, c, d, e>> = Then(a, s)
  BY AsThen5
<1>2. IsSeq(s)
  <2>1. s \in Seq({b, c, d, e})
    OBVIOUS
  <2> QED
    BY <2>1 DEF IsSeq
<1>3. s \o t = Then(b, Then(c, Then(d, Then(e, t))))
  BY Join4
<1> HIDE DEF s
<1>4. Then(a, s) \o t = Then(a, s \o t)
  BY <1>2, JoinThen
<1> QED
  BY ONLY <1>1, <1>3, <1>4

LEMMA Join6 ==
  ASSUME NEW a, NEW b, NEW c, NEW d, NEW e, NEW f, NEW t, IsSeq(t)
  PROVE  <<a, b, c, d, e, f>> \o t = Then(a, Then(b, Then(c, Then(d, Then(e, Then(f, t))))))
<1> DEFINE s == <<b, c, d, e, f>>
<1>1. <<a, b, c, d, e, f>> = Then(a, s)
  BY AsThen6
<1>2. IsSeq(s)
  <2>1. s \in Seq({b, c, d, e, f})
    OBVIOUS
  <2> QED
    BY <2>1 DEF IsSeq
<1>3. s \o t = Then(b, Then(c, Then(d, Then(e, Then(f, t)))))
  BY Join5
<1> HIDE DEF s
<1>4. Then(a, s) \o t = Then(a, s \o t)
  BY <1>2, JoinThen
<1> QED
  BY ONLY <1>1, <1>3, <1>4

\* The same with nothing to follow.
LEMMA List1 ==
  ASSUME NEW a
  PROVE  <<a>> = Then(a, <<>>)
  BY AsThen1

LEMMA List2 ==
  ASSUME NEW a, NEW b
  PROVE  <<a, b>> = Then(a, Then(b, <<>>))
<1> DEFINE s == <<b>>
<1>1. <<a, b>> = Then(a, s)
  BY AsThen2
<1>2. s = Then(b, <<>>)
  BY List1
<1> HIDE DEF s
<1> QED
  BY ONLY <1>1, <1>2

LEMMA List3 ==
  ASSUME NEW a, NEW b, NEW c
  PROVE  <<a, b, c>> = Then(a, Then(b, Then(c, <<>>)))
<1> DEFINE s == <<b, c>>
<1>1. <<a, b, c>> = Then(a, s)
  BY AsThen3
<1>2. s = Then(b, Then(c, <<>>))
  BY List2
<1> HIDE DEF s
<1> QED
  BY ONLY <1>1, <1>2

LEMMA List4 ==
  ASSUME NEW a, NEW b, NEW c, NEW d
  PROVE  <<a, b, c, d>> = Then(a, Then(b, Then(c, Then(d, <<>>))))
<1> DEFINE s == <<b, c, d>>
<1>1. <<a, b, c, d>> = Then(a, s)
  BY AsThen4
<1>2. s = Then(b, Then(c, Then(d, <<>>)))
  BY List3
<1> HIDE DEF s
<1> QED
  BY ONLY <1>1, <1>2

LEMMA List5 ==
  ASSUME NEW a, NEW b, NEW c, NEW d, NEW e
  PROVE  <<a, b, c, d, e>> = Then(a, Then(b, Then(c, Then(d, Then(e, <<>>)))))
<1> DEFINE s == <<b, c, d, e>>
<1>1. <<a, b, c, d, e>> = Then(a, s)
  BY AsThen5
<1>2. s = Then(b, Then(c, Then(d, Then(e, <<>>))))
  BY List4
<1> HIDE DEF s
<1> QED
  BY ONLY <1>1, <1>2

LEMMA List6 ==
  ASSUME NEW a, NEW b, NEW c, NEW d, NEW e, NEW f
  PROVE  <<a, b, c, d, e, f>> = Then(a, Then(b, Then(c, Then(d, Then(e, Then(f, <<>>))))))
<1> DEFINE s == <<b, c, d, e, f>>
<1>1. <<a, b, c, d, e, f>> = Then(a, s)
  BY AsThen6
<1>2. s = Then(b, Then(c, Then(d, Then(e, Then(f, <<>>)))))
  BY List5
<1> HIDE DEF s
<1> QED
  BY ONLY <1>1, <1>2

LEMMA List7 ==
  ASSUME NEW a, NEW b, NEW c, NEW d, NEW e, NEW f, NEW g
  PROVE  <<a, b, c, d, e, f, g>> = Then(a, Then(b, Then(c, Then(d, Then(e, Then(f, Then(g, <<>>)))))))
<1> DEFINE s == <<b, c, d, e, f, g>>
<1>1. <<a, b, c, d, e, f, g>> = Then(a, s)
  BY AsThen7
<1>2. s = Then(b, Then(c, Then(d, Then(e, Then(f, Then(g, <<>>))))))
  BY List6
<1> HIDE DEF s
<1> QED
  BY ONLY <1>1, <1>2

LEMMA List8 ==
  ASSUME NEW a, NEW b, NEW c, NEW d, NEW e, NEW f, NEW g, NEW h
  PROVE  <<a, b, c, d, e, f, g, h>> = Then(a, Then(b, Then(c, Then(d, Then(e, Then(f, Then(g, Then(h, <<>>))))))))
<1> DEFINE s == <<b, c, d, e, f, g, h>>
<1>1. <<a, b, c, d, e, f, g, h>> = Then(a, s)
  BY AsThen8
<1>2. s = Then(b, Then(c, Then(d, Then(e, Then(f, Then(g, Then(h, <<>>)))))))
  BY List7
<1> HIDE DEF s
<1> QED
  BY ONLY <1>1, <1>2

\* What is freed is no longer held; nothing else changes.
LEMMA RuleFree ==
  ASSUME NEW p, NEW x, NEW h2, NEW t, NEW h, NEW a, NEW b \in BOOLEAN, NEW m, NEW c, NEW f,
         x \in h, x # "fb", x # "fd", h2 = h \ {x},
         Good(p, <<t, h2, a, b, m, c, f>>)
  PROVE  Good(p, <<Then(Put(x), t), h, a, b, m, c, f>>)
<1>1. h2 = h \ Released(x) /\ b = (b /\ "fb" \notin Released(x))
  BY DEF Released
<1> QED
  BY <1>1, RulePut

\* Closing the file as the last thing.
LEMMA RuleClose ==
  ASSUME NEW p, NEW h, NEW a, NEW b, NEW m, NEW c, NEW f,
         "fd" \in h, h \subseteq PerFile \cup {"fd"}
  PROVE  Good(p, <<Then(Put("fd"), <<>>), h, a, b, m, c, f>>)
<1>1. {} = h \ Released("fd")
  BY DEF Released
<1>2. FALSE = (b /\ "fb" \notin Released("fd"))
  BY DEF Released, PerFile
<1>3. Good(p, <<<<>>, {}, a, FALSE, m, c, f>>)
  BY RuleEnd
<1> QED
  BY ONLY <1>1, <1>2, <1>3, "fd" \in h, RulePut

\* The loop over the connectors, however many: found is reached with the
\* connector in hand, err with the file only.
LEMMA ConnectorLoopGood ==
  ASSUME NEW p, NEW found, NEW err, NEW a, NEW b \in BOOLEAN, NEW m, NEW c,
         \A f : Good(p, <<found, {"fd", "res", "conn"}, a, b, m, c, f>>),
         \A f : Good(p, <<err, {"fd"}, a, b, m, c, f>>)
  PROVE  \A f : Good(p, <<ConnectorLoop(found, err), {"fd", "res"}, a, b, m, c, f>>)
<1>1. PICK loop : IsConnectorLoop(loop, found, err)
  BY ConnectorLoopUnfolds
<1> DEFINE H == {"fd", "res"}
           T == {n \in 0 .. Connectors : \A f : Good(p, <<loop[n], H, a, b, m, c, f>>)}
<1>0. Connectors \in Nat
  BY UserProgramsAssumption
<1>2. 0 \in T
  <2> SUFFICES ASSUME NEW f PROVE Good(p, <<loop[0], H, a, b, m, c, f>>)
    BY <1>0
  <2>1. Good(p, <<err, {"fd"}, a, b, m, c, f>>)
    OBVIOUS
  <2>2. Good(p, <<Then(Put("res"), err), H, a, b, m, c, f>>)
    BY ONLY <2>1, RuleFree, b \in BOOLEAN, {"fd"} = H \ {"res"}, "res" \in H
  <2>3. loop[0] = Then(Put("res"), err)
    <3>1. IsSeq(err)
      BY ONLY <2>1, GoodSeq
    <3>2. loop[0] = <<Put("res")>> \o err
      BY <1>1 DEF IsConnectorLoop
    <3> QED
      BY ONLY <3>1, <3>2, Join1
  <2> QED
    BY ONLY <2>2, <2>3
<1>3. ASSUME NEW k \in 0 .. Connectors, k \in T, k < Connectors PROVE k + 1 \in T
  <2> DEFINE rest == loop[k]
             continue == Then(Put("conn"), rest)
             test == Then(Test("connected", continue), found)
             P == H \cup {"conn"}
  <2>1. \A f : Good(p, <<rest, H, a, b, m, c, f>>)
    BY <1>3
  <2>2. k + 1 \in 1 .. Connectors /\ k + 1 \in 0 .. Connectors /\ (k + 1) - 1 = k
    BY <1>0, <1>3
  <2>3. loop[k + 1] = <<Get("conn", rest), Test("connected", <<Put("conn")>> \o rest)>> \o found
    BY <1>1, <2>2 DEF IsConnectorLoop
  <2> HIDE DEF rest
  <2>4. \A f : Good(p, <<found, P, a, b, m, c, f>>)
    <3>1. P = {"fd", "res", "conn"}
      OBVIOUS
    <3> QED
      BY <3>1
  <2>5. loop[k + 1] = Then(Get("conn", rest), test)
    <3>0. Good(p, <<rest, H, a, b, m, c, "any">>) /\ Good(p, <<found, P, a, b, m, c, "any">>)
      BY <2>1, <2>4
    <3>1. IsSeq(rest) /\ IsSeq(found)
      BY ONLY <3>0, GoodSeq
    <3>2. <<Put("conn")>> \o rest = continue
      BY <3>1, Join1
    <3> HIDE DEF continue
    <3>3. <<Get("conn", rest), Test("connected", continue)>> \o found = Then(Get("conn", rest), test)
      BY <3>1, Join2
    <3> QED
      BY ONLY <2>3, <3>2, <3>3
  <2>6. /\ H = P \ {"conn"} /\ "conn" \in P /\ Needs("connected") \subseteq P
        /\ P = H \cup {"conn"} /\ "conn" \notin H /\ Needs("conn") \subseteq H
    BY NeedsTable
  <2> HIDE DEF H, P
  <2>7. \A f : Good(p, <<continue, P, a, b, m, c, f>>)
    BY ONLY <2>1, <2>6, RuleFree, b \in BOOLEAN
  <2> HIDE DEF continue
  <2>8. \A f : Good(p, <<test, P, a, b, m, c, f>>)
    BY ONLY <2>4, <2>6, <2>7, RuleTest
  <2> HIDE DEF test
  <2>9. \A f : Good(p, <<Then(Get("conn", rest), test), H, a, b, m, c, f>>)
    BY ONLY <2>1, <2>6, <2>8, RuleGet
  <2> QED
    BY ONLY <2>2, <2>5, <2>9 DEF T
<1>4. Connectors \in T
  <2> HIDE DEF T
  <2>1. 0 .. Connectors \subseteq T
    BY <1>0, <1>2, <1>3, Induction
  <2> QED
    BY <1>0, <2>1
<1> QED
  BY <1>1, <1>4 DEF IsConnectorLoop

\* The loop over the planes in the same way: neither a plane nor its properties
\* are left over.
LEMMA PlaneLoopGood ==
  ASSUME NEW p, NEW found, NEW err, NEW a, NEW b \in BOOLEAN, NEW m, NEW c,
         \A f : Good(p, <<found, {"fd", "res", "planes"}, a, b, m, c, f>>),
         \A f : Good(p, <<err, {"fd"}, a, b, m, c, f>>)
  PROVE  \A f : Good(p, <<PlaneLoop(found, err), {"fd", "res", "planes"}, a, b, m, c, f>>)
<1>1. PICK loop : IsPlaneLoop(loop, found, err)
  BY PlaneLoopUnfolds
<1> DEFINE H == {"fd", "res", "planes"}
           T == {n \in 0 .. Planes : \A f : Good(p, <<loop[n], H, a, b, m, c, f>>)}
<1>0. Planes \in Nat
  BY UserProgramsAssumption
<1>2. 0 \in T
  <2> SUFFICES ASSUME NEW f PROVE Good(p, <<loop[0], H, a, b, m, c, f>>)
    BY <1>0
  <2>1. Good(p, <<err, {"fd"}, a, b, m, c, f>>)
    OBVIOUS
  <2>2. Good(p, <<Then(Put("res"), err), {"fd", "res"}, a, b, m, c, f>>)
    BY ONLY <2>1, RuleFree, b \in BOOLEAN, {"fd"} = {"fd", "res"} \ {"res"}, "res" \in {"fd", "res"}
  <2>3. Good(p, <<Then(Put("planes"), Then(Put("res"), err)), H, a, b, m, c, f>>)
    BY ONLY <2>2, RuleFree, b \in BOOLEAN, {"fd", "res"} = H \ {"planes"}, "planes" \in H
  <2>4. loop[0] = Then(Put("planes"), Then(Put("res"), err))
    BY <1>1, <2>1, GoodSeq, Join2 DEF IsPlaneLoop
  <2> QED
    BY ONLY <2>3, <2>4
<1>3. ASSUME NEW k \in 0 .. Planes, k \in T, k < Planes PROVE k + 1 \in T
  <2> DEFINE rest == loop[k]
             continue == Then(Put("plane"), rest)
             other == Then(Put("props"), continue)
             t5 == Then(Put("plane"), found)
             t4 == Then(Put("props"), t5)
             t3 == Then(Test("primary", other), t4)
             t2 == Then(Get("props", continue), t3)
             t1 == Then(Test("possible_crtcs", continue), t2)
             code == Then(Get("plane", rest), t1)
             P == H \cup {"plane"}
             Q == P \cup {"props"}
  <2>1. \A f : Good(p, <<rest, H, a, b, m, c, f>>)
    BY <1>3
  <2>2. k + 1 \in 1 .. Planes /\ k + 1 \in 0 .. Planes /\ (k + 1) - 1 = k
    BY <1>0, <1>3
  <2>3. loop[k + 1] = <<Get("plane", rest), Test("possible_crtcs", <<Put("plane")>> \o rest),
                        Get("props", <<Put("plane")>> \o rest),
                        Test("primary", <<Put("props")>> \o (<<Put("plane")>> \o rest)),
                        Put("props"), Put("plane")>> \o found
    BY <1>1, <2>2 DEF IsPlaneLoop
  <2> HIDE DEF rest
  <2>4. loop[k + 1] = code
    <3>0. Good(p, <<rest, H, a, b, m, c, "any">>) /\ Good(p, <<found, H, a, b, m, c, "any">>)
      BY <2>1
    <3>1. IsSeq(rest) /\ IsSeq(found)
      BY ONLY <3>0, GoodSeq
    <3>2. <<Put("plane")>> \o rest = continue /\ IsSeq(continue)
      BY <3>1, ThenFacts, Join1
    <3> HIDE DEF continue
    <3>3. <<Put("props")>> \o continue = other
      BY <3>2, Join1
    <3> HIDE DEF other
    <3>4. <<Get("plane", rest), Test("possible_crtcs", continue), Get("props", continue),
            Test("primary", other), Put("props"), Put("plane")>> \o found = code
      BY <3>1, Join6
    <3> QED
      BY ONLY <2>3, <3>2, <3>3, <3>4
  <2>5. /\ Needs("plane") \subseteq H /\ Needs("possible_crtcs") \subseteq P
        /\ Needs("props") \subseteq P /\ Needs("primary") \subseteq Q
        /\ "plane" \notin H /\ "props" \notin P /\ P = H \cup {"plane"} /\ Q = P \cup {"props"}
        /\ H = P \ {"plane"} /\ "plane" \in P /\ P = Q \ {"props"} /\ "props" \in Q
    BY NeedsTable
  <2>6. \A f : Good(p, <<found, H, a, b, m, c, f>>)
    OBVIOUS
  <2> HIDE DEF H, P, Q
  <2>7. \A f : Good(p, <<continue, P, a, b, m, c, f>>)
    BY ONLY <2>1, <2>5, RuleFree, b \in BOOLEAN
  <2> HIDE DEF continue
  <2>8. \A f : Good(p, <<other, Q, a, b, m, c, f>>)
    BY ONLY <2>5, <2>7, RuleFree, b \in BOOLEAN
  <2> HIDE DEF other
  <2>9. \A f : Good(p, <<t5, P, a, b, m, c, f>>)
    BY ONLY <2>5, <2>6, RuleFree, b \in BOOLEAN
  <2> HIDE DEF t5
  <2>10. \A f : Good(p, <<t4, Q, a, b, m, c, f>>)
    BY ONLY <2>5, <2>9, RuleFree, b \in BOOLEAN
  <2> HIDE DEF t4
  <2>11. \A f : Good(p, <<t3, Q, a, b, m, c, f>>)
    BY ONLY <2>5, <2>8, <2>10, RuleTest
  <2> HIDE DEF t3
  <2>12. \A f : Good(p, <<t2, P, a, b, m, c, f>>)
    BY ONLY <2>5, <2>7, <2>11, RuleGet
  <2> HIDE DEF t2
  <2>13. \A f : Good(p, <<t1, P, a, b, m, c, f>>)
    BY ONLY <2>5, <2>7, <2>12, RuleTest
  <2> HIDE DEF t1
  <2>14. \A f : Good(p, <<code, H, a, b, m, c, f>>)
    BY ONLY <2>1, <2>5, <2>13, RuleGet
  <2> HIDE DEF code
  <2> QED
    BY ONLY <2>2, <2>4, <2>14 DEF T
<1>4. Planes \in T
  <2> HIDE DEF T
  <2>1. 0 .. Planes \subseteq T
    BY <1>0, <1>2, <1>3, Induction
  <2> QED
    BY <1>0, <2>1
<1> QED
  BY <1>1, <1>4 DEF IsPlaneLoop

\* err_close and the labels above it: whatever has been created is on the file,
\* or mapped.
LEMMA ErrCloseGood ==
  ASSUME NEW p, NEW h, NEW a, NEW b, NEW m, NEW c, NEW f,
         "fd" \in h, h \subseteq PerFile \cup {"fd"}
  PROVE  Good(p, <<err_close, h, a, b, m, c, f>>)
<1>1. err_close = Then(Put("fd"), <<>>)
  BY AsThen1 DEF err_close
<1> QED
  BY <1>1, RuleClose

LEMMA ErrDestroyGood ==
  ASSUME NEW p, NEW h, NEW a, NEW b \in BOOLEAN, NEW m, NEW c, NEW f,
         "fd" \in h, h \subseteq PerFile \cup {"fd", "map"}
  PROVE  Good(p, <<err_destroy, h, a, b, m, c, f>>)
<1> DEFINE h1 == h \ {"map"}
           h2 == h1 \ {"fb"}
           b2 == b /\ "fb" \notin Released("fb")
           h3 == h2 \ {"handle"}
<1>1. /\ h1 = h \ Released("map") /\ h2 = h1 \ Released("fb") /\ h3 = h2 \ Released("handle")
      /\ b = (b /\ "fb" \notin Released("map"))
      /\ b2 = (b2 /\ "fb" \notin Released("handle"))
      /\ "fd" \in h3 /\ h3 \subseteq PerFile \cup {"fd"}
  BY DEF Released
<1>2. b2 = (b /\ "fb" \notin Released("fb"))
  OBVIOUS
<1> HIDE DEF h1, h2, h3, b2
<1>3. Good(p, <<err_close, h3, a, b2, m, c, f>>)
  BY ONLY <1>1, ErrCloseGood
<1>4. Good(p, <<Then(PutIf("handle"), err_close), h2, a, b2, m, c, f>>)
  BY ONLY <1>1, <1>3, RulePutIf
<1>5. Good(p, <<Then(PutIf("fb"), Then(PutIf("handle"), err_close)), h1, a, b, m, c, f>>)
  BY ONLY <1>1, <1>2, <1>4, RulePutIf
<1>6. Good(p, <<Then(PutIf("map"), Then(PutIf("fb"), Then(PutIf("handle"), err_close))),
               h, a, b, m, c, f>>)
  BY ONLY <1>1, <1>5, RulePutIf
<1>7. err_destroy = Then(PutIf("map"), Then(PutIf("fb"), Then(PutIf("handle"), err_close)))
  BY <1>3, GoodSeq, Join3 DEF err_destroy
<1> QED
  BY <1>6, <1>7

LEMMA ErrBlobGood ==
  ASSUME NEW p, NEW h, NEW a, NEW b \in BOOLEAN, NEW m, NEW c, NEW f,
         "fd" \in h, h \subseteq PerFile \cup {"fd", "map"}
  PROVE  Good(p, <<err_blob, h, a, b, m, c, f>>)
<1> DEFINE h1 == h \ {"blob"}
<1>1. /\ h1 = h \ Released("blob") /\ b = (b /\ "fb" \notin Released("blob"))
      /\ "fd" \in h1 /\ h1 \subseteq PerFile \cup {"fd", "map"}
  BY DEF Released
<1> HIDE DEF h1
<1>2. Good(p, <<err_destroy, h1, a, b, m, c, f>>)
  BY ONLY <1>1, ErrDestroyGood, b \in BOOLEAN
<1>3. err_blob = Then(PutIf("blob"), err_destroy)
  BY <1>2, GoodSeq, Join1 DEF err_blob
<1> QED
  BY ONLY <1>1, <1>2, <1>3, RulePutIf

\* What a program holds whose buffer is complete.
Buffer == {"handle", "fb", "offset", "map"}

\* From the commit on: whatever fails goes out through the right label, and
\* whatever is dropped, the prompt allows for it.
LEMMA AtomicCommitGood ==
  ASSUME NEW d, NEW i0, NEW c, NEW f
  PROVE  Good("atomic", <<AtomicCommit(err_blob), {"fd"} \cup Buffer, TRUE, FALSE, <<d, i0>>, c, f>>)
<1> DEFINE p == "atomic"
           H == {"fd"} \cup Buffer
           H1 == H \cup {"blob"}
           H2 == H1 \cup {"req"}
           M(i) == <<d, i>>
           undo == Then(Put("req"), err_blob)
           t4 == Then(Put("req"), Then(Tell, err_blob))
           t3 == Then(Show("atomic_commit", undo), t4)
           t2 == Then(Try(AtomicProps), t3)
           t1 == Then(Get("req", err_blob), t2)
           t0 == Then(Get("blob", err_destroy), t1)
<1>1. /\ "fd" \in H /\ H \subseteq PerFile \cup {"fd", "map"}
      /\ "fd" \in H1 /\ H1 \subseteq PerFile \cup {"fd", "map"}
      /\ H1 = H2 \ {"req"} /\ "req" \in H2
      /\ H1 = H \cup {"blob"} /\ H2 = H1 \cup {"req"} /\ "blob" \notin H /\ "req" \notin H1
      /\ Needs("blob") \subseteq H /\ Needs("req") \subseteq H1 /\ Needs("atomic_commit") \subseteq H2
  BY NeedsTable DEF Buffer, PerFile
<1>2. \A x \in AtomicProps : Needs(x) \subseteq H2
  BY NeedsTable
<1> HIDE DEF H, H1, H2
<1>3. \A b \in BOOLEAN : \A m, g : Good(p, <<err_blob, H1, TRUE, b, m, c, g>>)
  BY ONLY <1>1, ErrBlobGood
<1>4. \A b \in BOOLEAN : \A m, g : Good(p, <<undo, H2, TRUE, b, m, c, g>>)
  BY ONLY <1>1, <1>3, RuleFree
<1>5. \A i : M(i) = <<d, i>> /\ M(i)[2] = i
  OBVIOUS
<1> HIDE DEF M, undo
<1>6. \A b \in BOOLEAN : \A i, g :
        b \/ AtomicProps \cap i # {} => Good(p, <<t4, H2, TRUE, b, M(i), c, g>>)
  <2> SUFFICES ASSUME NEW b \in BOOLEAN, NEW i, NEW g, b \/ AtomicProps \cap i # {}
               PROVE  Good(p, <<t4, H2, TRUE, b, M(i), c, g>>)
    OBVIOUS
  <2> DEFINE m == M(i)
  <2>1. MayTell(p, TRUE, b, m, c)
    BY <1>5 DEF MayTell
  <2> HIDE DEF m
  <2>2. Good(p, <<Then(Tell, err_blob), H1, TRUE, b, m, c, g>>)
    BY ONLY <1>3, <2>1, b \in BOOLEAN, RuleTell
  <2>3. Good(p, <<t4, H2, TRUE, b, m, c, g>>)
    BY ONLY <1>1, <2>2, b \in BOOLEAN, RuleFree
  <2> QED
    BY ONLY <2>3 DEF m
<1> HIDE DEF t4
<1>7. \A i, g : Good(p, <<t3, H2, TRUE, FALSE, M(i), c, g>>)
  <2> TAKE i, g
  <2> DEFINE m == M(i)  x == "atomic_commit"
  <2>1. m = <<d, i>>
    BY <1>5
  <2>2. /\ Good(p, <<t4, H2, TRUE, TRUE, m, c, g>>)
        /\ AtomicProps \cap i # {} => Good(p, <<t4, H2, TRUE, FALSE, m, c, g>>)
    BY ONLY <1>6, TRUE \in BOOLEAN, FALSE \in BOOLEAN
  <2> HIDE DEF m
  <2>3. Good(p, <<undo, H2, TRUE, FALSE, m, c, x>>)
    BY ONLY <1>4, FALSE \in BOOLEAN
  <2>4. x = "atomic_commit" /\ Needs(x) \subseteq H2
    BY ONLY <1>1
  <2> HIDE DEF x
  <2>5. Good(p, <<Then(Show(x, undo), t4), H2, TRUE, FALSE, m, c, g>>)
    BY ONLY <2>1, <2>2, <2>3, <2>4, RuleCommit
  <2> QED
    BY ONLY <2>5 DEF m, x
<1> HIDE DEF t3
<1>8. \A i, g : Good(p, <<t2, H2, TRUE, FALSE, M(i), c, g>>)
  <2> TAKE i, g
  <2>1. \A j : Good(p, <<t3, H2, TRUE, FALSE, <<d, j>>, c, g>>)
    BY ONLY <1>5, <1>7
  <2>2. Good(p, <<t2, H2, TRUE, FALSE, <<d, i>>, c, g>>)
    BY ONLY <1>2, <2>1, RuleTry
  <2> QED
    BY ONLY <1>5, <2>2
<1> HIDE DEF t2
<1>9. \A i, g : Good(p, <<t1, H1, TRUE, FALSE, M(i), c, g>>)
  BY ONLY <1>1, <1>3, <1>8, RuleGet, FALSE \in BOOLEAN
<1>10. \A m, g : Good(p, <<err_destroy, H, TRUE, FALSE, m, c, g>>)
  BY ONLY <1>1, ErrDestroyGood, FALSE \in BOOLEAN
<1>11. \A i, g : Good(p, <<t0, H, TRUE, FALSE, M(i), c, g>>)
  BY ONLY <1>1, <1>9, <1>10, RuleGet
<1>12. AtomicCommit(err_blob) = t0
  <2>1. IsSeq(err_blob)
    <3>1. Good(p, <<err_blob, H1, TRUE, FALSE, "", c, "">>)
      BY ONLY <1>3, FALSE \in BOOLEAN
    <3> QED
      BY ONLY <3>1, GoodSeq
  <2>2. <<Put("req")>> \o err_blob = undo
    BY <2>1, Join1 DEF undo
  <2>3. <<Get("blob", err_destroy), Get("req", err_blob), Try(AtomicProps),
          Show("atomic_commit", undo), Put("req"), Tell>> \o err_blob = t0
    BY ONLY <2>1, Join6 DEF t2, t3, t4
  <2> QED
    BY ONLY <2>2, <2>3 DEF AtomicCommit
<1> QED
  BY ONLY <1>5, <1>11, <1>12 DEF H

\* err frees whatever has been added to H before mmap.
Undoes(p, err, H, a, m, c) ==
  \A f : \A h : H \subseteq h /\ h \subseteq (H \cup Buffer) \ {"map"}
               => Good(p, <<err, h, a, FALSE, m, c, f>>)

\* create_dumb_buffer, and err wherever it fails half way.
LEMMA CreateGood ==
  ASSUME NEW p, NEW H, NEW next, NEW err, NEW a, NEW m, NEW c,
         "fd" \in H, H \cap Buffer = {},
         \A f : Good(p, <<next, H \cup Buffer, a, FALSE, m, c, f>>),
         Undoes(p, err, H, a, m, c)
  PROVE  \A f : Good(p, <<Create(err) \o next, H, a, FALSE, m, c, f>>)
<1> DEFINE H1 == H \cup {"handle"}
           H2 == H1 \cup {"fb"}
           H3 == H2 \cup {"offset"}
           H4 == H3 \cup {"map"}
           t3 == Then(Get("map", err), next)
           t2 == Then(Get("offset", err), t3)
           t1 == Then(Get("fb", err), t2)
           t0 == Then(Get("handle", err), t1)
<1>1. /\ H1 = H \cup {"handle"} /\ H2 = H1 \cup {"fb"} /\ H3 = H2 \cup {"offset"} /\ H4 = H3 \cup {"map"}
      /\ "handle" \notin H /\ "fb" \notin H1 /\ "offset" \notin H2 /\ "map" \notin H3
      /\ Needs("handle") \subseteq H /\ Needs("fb") \subseteq H1
      /\ Needs("offset") \subseteq H2 /\ Needs("map") \subseteq H3
  BY NeedsTable DEF Buffer
<1>2. H4 = H \cup Buffer
  BY DEF Buffer
<1>3. \A h \in {H, H1, H2, H3} : H \subseteq h /\ h \subseteq (H \cup Buffer) \ {"map"}
  BY DEF Buffer
<1>4. \A f : /\ Good(p, <<err, H, a, FALSE, m, c, f>>)
             /\ Good(p, <<err, H1, a, FALSE, m, c, f>>)
             /\ Good(p, <<err, H2, a, FALSE, m, c, f>>)
             /\ Good(p, <<err, H3, a, FALSE, m, c, f>>)
  BY <1>3 DEF Undoes
<1>5. \A f : Good(p, <<next, H4, a, FALSE, m, c, f>>)
  BY <1>2
<1> HIDE DEF H1, H2, H3, H4
<1>6. \A f : Good(p, <<t3, H3, a, FALSE, m, c, f>>)
  <2> TAKE f
  <2>1. /\ Good(p, <<next, H4, a, FALSE, m, c, f>>)
        /\ Good(p, <<err, H3, a, FALSE, m, c, "map">>)
    BY ONLY <1>4, <1>5
  <2> QED
    BY ONLY <1>1, <2>1, RuleGet
<1>7. \A f : Good(p, <<t2, H2, a, FALSE, m, c, f>>)
  <2> TAKE f
  <2>1. /\ Good(p, <<t3, H3, a, FALSE, m, c, f>>)
        /\ Good(p, <<err, H2, a, FALSE, m, c, "offset">>)
    BY ONLY <1>4, <1>6
  <2> HIDE DEF t3
  <2> QED
    BY ONLY <1>1, <2>1, RuleGet
<1>8. \A f : Good(p, <<t1, H1, a, FALSE, m, c, f>>)
  <2> TAKE f
  <2>1. /\ Good(p, <<t2, H2, a, FALSE, m, c, f>>)
        /\ Good(p, <<err, H1, a, FALSE, m, c, "fb">>)
    BY ONLY <1>4, <1>7
  <2> HIDE DEF t2
  <2> QED
    BY ONLY <1>1, <2>1, RuleGet
<1>9. \A f : Good(p, <<t0, H, a, FALSE, m, c, f>>)
  <2> TAKE f
  <2>1. /\ Good(p, <<t1, H1, a, FALSE, m, c, f>>)
        /\ Good(p, <<err, H, a, FALSE, m, c, "handle">>)
    BY ONLY <1>4, <1>8
  <2> HIDE DEF t1
  <2> QED
    BY ONLY <1>1, <2>1, RuleGet
<1>10. Create(err) \o next = t0
  <2>1. IsSeq(next)
    BY GoodSeq
  <2>2. <<Get("handle", err), Get("fb", err), Get("offset", err), Get("map", err)>> \o next = t0
    BY <2>1, Join4
  <2> QED
    BY ONLY <2>2 DEF Create
<1> QED
  BY <1>9, <1>10

\* find_connector_crtc leaves with the file only, found or not.
LEMMA FindConnectorGood ==
  ASSUME NEW p, NEW next, NEW err, NEW a, NEW b \in BOOLEAN, NEW m, NEW c,
         \A f : Good(p, <<next, {"fd"}, a, b, m, c, f>>),
         \A f : Good(p, <<err, {"fd"}, a, b, m, c, f>>)
  PROVE  \A f : Good(p, <<FindConnector(next, err), {"fd"}, a, b, m, c, f>>)
<1> DEFINE H == {"fd", "res"}
           H1 == H \cup {"conn"}
           H2 == H1 \cup {"enc"}
           fail == Then(Put("conn"), Then(Put("res"), err))
           t3 == Then(Put("conn"), Then(Put("res"), next))
           t2 == Then(Put("enc"), t3)
           found == Then(Get("enc", fail), t2)
           loop == ConnectorLoop(found, err)
<1>1. /\ {"fd"} = H \ {"res"} /\ H = H1 \ {"conn"} /\ H1 = H2 \ {"enc"} /\ H1 = {"fd", "res", "conn"}
      /\ "res" \in H /\ "conn" \in H1 /\ "enc" \in H2 /\ "enc" \notin H1 /\ "res" \notin {"fd"}
      /\ H2 = H1 \cup {"enc"} /\ H = {"fd"} \cup {"res"}
      /\ Needs("enc") \subseteq H1 /\ Needs("res") \subseteq {"fd"}
  BY NeedsTable
<1> HIDE DEF H, H1, H2
<1>2. \A t : (\A f : Good(p, <<t, {"fd"}, a, b, m, c, f>>))
             => \A f : Good(p, <<Then(Put("conn"), Then(Put("res"), t)), H1, a, b, m, c, f>>)
  <2> SUFFICES ASSUME NEW t, NEW f, Good(p, <<t, {"fd"}, a, b, m, c, f>>)
               PROVE  Good(p, <<Then(Put("conn"), Then(Put("res"), t)), H1, a, b, m, c, f>>)
    OBVIOUS
  <2>1. Good(p, <<Then(Put("res"), t), H, a, b, m, c, f>>)
    BY ONLY <1>1, RuleFree, b \in BOOLEAN, Good(p, <<t, {"fd"}, a, b, m, c, f>>)
  <2>2. H = H1 \ {"conn"} /\ "conn" \in H1
    BY ONLY <1>1
  <2> QED
    BY ONLY <2>1, <2>2, RuleFree, b \in BOOLEAN
<1>3. \A f : Good(p, <<t2, H2, a, b, m, c, f>>)
  <2>1. \A f : Good(p, <<t3, H1, a, b, m, c, f>>)
    BY <1>2
  <2>2. H1 = H2 \ {"enc"} /\ "enc" \in H2
    BY ONLY <1>1
  <2> QED
    BY ONLY <2>1, <2>2, RuleFree, b \in BOOLEAN
<1>4. \A f : Good(p, <<found, H1, a, b, m, c, f>>)
  <2>1. \A f : Good(p, <<fail, H1, a, b, m, c, f>>)
    BY <1>2
  <2> QED
    BY ONLY <1>1, <1>3, <2>1, RuleGet
<1>5. <<Get("enc", <<Put("conn"), Put("res")>> \o err), Put("enc"), Put("conn"), Put("res")>> \o next = found
  <2>1. IsSeq(err) /\ IsSeq(next)
    BY GoodSeq
  <2>2. <<Put("conn"), Put("res")>> \o err = fail
    BY <2>1, Join2
  <2> HIDE DEF fail
  <2>3. <<Get("enc", fail), Put("enc"), Put("conn"), Put("res")>> \o next = found
    BY <2>1, Join4
  <2> QED
    BY ONLY <2>2, <2>3
<1> HIDE DEF found
<1>6. \A f : Good(p, <<loop, H, a, b, m, c, f>>)
  BY <1>1, <1>4, ConnectorLoopGood DEF H
<1>7. \A f : Good(p, <<Then(Get("res", err), loop), {"fd"}, a, b, m, c, f>>)
  BY <1>1, <1>6, RuleGet
<1>8. FindConnector(next, err) = Then(Get("res", err), loop)
  <2>0. Good(p, <<loop, H, a, b, m, c, "">>)
    BY ONLY <1>6
  <2>1. IsSeq(loop)
    BY ONLY <2>0, GoodSeq
  <2>2. <<Get("res", err)>> \o ConnectorLoop(found, err) = Then(Get("res", err), loop)
    BY <2>1, Join1
  <2> QED
    BY ONLY <1>5, <2>2 DEF FindConnector
<1> QED
  BY ONLY <1>7, <1>8

\* find_primary_plane, the same.
LEMMA FindPlaneGood ==
  ASSUME NEW p, NEW next, NEW err, NEW a, NEW b \in BOOLEAN, NEW m, NEW c,
         \A f : Good(p, <<next, {"fd"}, a, b, m, c, f>>),
         \A f : Good(p, <<err, {"fd"}, a, b, m, c, f>>)
  PROVE  \A f : Good(p, <<FindPlane(next, err), {"fd"}, a, b, m, c, f>>)
<1> DEFINE H == {"fd", "res"}
           H1 == H \cup {"planes"}
           fail == Then(Put("res"), err)
           found == Then(Put("planes"), Then(Put("res"), next))
           loop == PlaneLoop(found, err)
           t2 == Then(Get("planes", fail), loop)
           t1 == Then(Test("crtc_index", fail), t2)
           t0 == Then(Get("res", err), t1)
<1>1. /\ {"fd"} = H \ {"res"} /\ "res" \in H /\ H = H1 \ {"planes"} /\ "planes" \in H1
      /\ H = {"fd"} \cup {"res"} /\ "res" \notin {"fd"} /\ Needs("res") \subseteq {"fd"}
      /\ H1 = H \cup {"planes"} /\ "planes" \notin H /\ Needs("planes") \subseteq H
      /\ Needs("crtc_index") \subseteq H /\ H1 = {"fd", "res", "planes"}
  BY NeedsTable
<1> HIDE DEF H, H1
<1>2. \A f : /\ Good(p, <<fail, H, a, b, m, c, f>>)
             /\ Good(p, <<Then(Put("res"), next), H, a, b, m, c, f>>)
  BY <1>1, RuleFree
<1>3. \A f : Good(p, <<found, H1, a, b, m, c, f>>)
  BY ONLY <1>1, <1>2, RuleFree, b \in BOOLEAN
<1> HIDE DEF found
<1>4. \A f : Good(p, <<loop, H1, a, b, m, c, f>>)
  BY <1>1, <1>3, PlaneLoopGood
<1> HIDE DEF loop, fail
<1>5. \A f : Good(p, <<t2, H, a, b, m, c, f>>)
  BY ONLY <1>1, <1>2, <1>4, RuleGet
<1>6. \A f : Good(p, <<t1, H, a, b, m, c, f>>)
  BY ONLY <1>1, <1>2, <1>5, RuleTest
<1>7. \A f : Good(p, <<t0, {"fd"}, a, b, m, c, f>>)
  <2> TAKE f
  <2>1. Good(p, <<t1, H, a, b, m, c, f>>) /\ Good(p, <<err, {"fd"}, a, b, m, c, "res">>)
    BY <1>6
  <2> HIDE DEF t1
  <2> QED
    BY ONLY <1>1, <2>1, RuleGet
<1>8. FindPlane(next, err) = t0
  <2>0. /\ Good(p, <<loop, H1, a, b, m, c, "">>)
        /\ Good(p, <<err, {"fd"}, a, b, m, c, "">>) /\ Good(p, <<next, {"fd"}, a, b, m, c, "">>)
    BY <1>4
  <2>1. IsSeq(err) /\ IsSeq(next) /\ IsSeq(loop)
    BY ONLY <2>0, GoodSeq
  <2>2. <<Put("res")>> \o err = fail /\ <<Put("planes"), Put("res")>> \o next = found
    BY <2>1, Join1, Join2 DEF fail, found
  <2>3. <<Get("res", err), Test("crtc_index", fail), Get("planes", fail)>> \o loop = t0
    BY <2>1, Join3
  <2> QED
    BY ONLY <2>2, <2>3 DEF FindPlane, loop
<1> QED
  BY ONLY <1>7, <1>8

\* main of atomic_modeset_minimal.c.
LEMMA AtomicMainGood ==
  ASSUME NEW a, NEW d, NEW i0, NEW c, NEW f
  PROVE  Good("atomic", <<AtomicMain, {}, a, FALSE, <<d, i0>>, c, f>>)
<1> DEFINE p == "atomic"
           show == Create(err_close) \o AtomicDraw
           plane == FindPlane(show, err_close)
           main == FindConnector(plane, err_close)
<1>1. \A i, g : Good(p, <<main, {"fd"}, a, FALSE, <<d, i>>, c, g>>)
  <2> TAKE i, g0
  <2> DEFINE m == <<d, i>>
  <2>1. \A g : Good(p, <<AtomicDraw, {"fd"} \cup Buffer, a, FALSE, m, c, g>>)
    <3> TAKE g
    <3>1. Good(p, <<AtomicCommit(err_blob), {"fd"} \cup Buffer, TRUE, FALSE, m, c, g>>)
      BY AtomicCommitGood DEF m
    <3>2. AtomicDraw = Then(Paint, AtomicCommit(err_blob))
      BY <3>1, GoodSeq, Join1 DEF AtomicDraw
    <3>3. "map" \in {"fd"} \cup Buffer
      BY DEF Buffer
    <3> QED
      BY ONLY <3>1, <3>2, <3>3, RulePaint
  <2>2. Undoes(p, err_close, {"fd"}, a, m, c)
    <3> SUFFICES ASSUME NEW g, NEW h, {"fd"} \subseteq h, h \subseteq ({"fd"} \cup Buffer) \ {"map"}
                 PROVE  Good(p, <<err_close, h, a, FALSE, m, c, g>>)
      BY DEF Undoes
    <3>1. "fd" \in h /\ h \subseteq PerFile \cup {"fd"}
      BY DEF Buffer, PerFile
    <3> QED
      BY ONLY <3>1, ErrCloseGood
  <2>3. \A g : Good(p, <<show, {"fd"}, a, FALSE, m, c, g>>)
    <3> DEFINE H == {"fd"}
    <3>1. "fd" \in H /\ H \cap Buffer = {}
      BY DEF Buffer
    <3>2. Undoes(p, err_close, H, a, m, c) /\ \A g : Good(p, <<AtomicDraw, H \cup Buffer, a, FALSE, m, c, g>>)
      BY <2>1, <2>2
    <3> HIDE DEF H
    <3>3. \A g : Good(p, <<Create(err_close) \o AtomicDraw, H, a, FALSE, m, c, g>>)
      BY ONLY <3>1, <3>2, CreateGood
    <3> QED
      BY ONLY <3>3 DEF H
  <2>4. \A g : Good(p, <<err_close, {"fd"}, a, FALSE, m, c, g>>)
    BY <2>2 DEF Undoes, Buffer
  <2> HIDE DEF show
  <2>5. \A g : Good(p, <<plane, {"fd"}, a, FALSE, m, c, g>>)
    BY ONLY <2>3, <2>4, FindPlaneGood, FALSE \in BOOLEAN
  <2> HIDE DEF plane
  <2>6. \A g : Good(p, <<main, {"fd"}, a, FALSE, m, c, g>>)
    BY ONLY <2>4, <2>5, FindConnectorGood, FALSE \in BOOLEAN
  <2> HIDE DEF main
  <2> QED
    BY ONLY <2>6 DEF main, m
<1> HIDE DEF main
<1>2. \A g : Good(p, <<Then(Try(ClientCaps), main), {"fd"}, a, FALSE, <<d, i0>>, c, g>>)
  <2> TAKE g
  <2> DEFINE H == {"fd"}
  <2>1. \A x \in ClientCaps : Needs(x) \subseteq H
    BY NeedsTable
  <2>2. \A i : Good(p, <<main, H, a, FALSE, <<d, i>>, c, g>>)
    BY ONLY <1>1
  <2> HIDE DEF H
  <2>3. Good(p, <<Then(Try(ClientCaps), main), H, a, FALSE, <<d, i0>>, c, g>>)
    BY ONLY <2>1, <2>2, RuleTry
  <2> QED
    BY ONLY <2>3 DEF H
<1> DEFINE m0 == <<d, i0>>
<1>3. \A g : Good(p, <<Then(Try(ClientCaps), main), {"fd"}, a, FALSE, m0, c, g>>)
  BY ONLY <1>2
<1> HIDE DEF m0
<1>4. Good(p, <<Then(Get("fd", <<>>), Then(Try(ClientCaps), main)), {}, a, FALSE, m0, c, f>>)
  <2> DEFINE t == Then(Try(ClientCaps), main)
  <2>1. Needs("fd") \subseteq {} /\ "fd" \notin {} /\ {"fd"} = {} \cup {"fd"}
    BY NeedsTable
  <2>2. Good(p, <<<<>>, {}, a, FALSE, m0, c, "fd">>)
    BY RuleEnd
  <2>3. \A g : Good(p, <<t, {"fd"}, a, FALSE, m0, c, g>>)
    BY ONLY <1>3
  <2> HIDE DEF t
  <2>4. Good(p, <<Then(Get("fd", <<>>), t), {}, a, FALSE, m0, c, f>>)
    BY ONLY <2>1, <2>2, <2>3, RuleGet
  <2> QED
    BY ONLY <2>4 DEF t
<1>5. AtomicMain = Then(Get("fd", <<>>), Then(Try(ClientCaps), main))
  <2>1. IsSeq(main)
    <3> DEFINE m == <<d, i0>>
    <3>1. Good(p, <<main, {"fd"}, a, FALSE, m, c, "">>)
      BY ONLY <1>1
    <3> HIDE DEF m
    <3> QED
      BY ONLY <3>1, GoodSeq
  <2>2. <<Get("fd", <<>>), Try(ClientCaps)>> \o main = Then(Get("fd", <<>>), Then(Try(ClientCaps), main))
    BY ONLY <2>1, Join2
  <2> QED
    BY ONLY <2>2 DEF AtomicMain, main, plane, show
<1> QED
  BY ONLY <1>4, <1>5 DEF m0

\* Joining three pieces of code from either end.
Associates(s, t, u) == (s \o t) \o u = s \o (t \o u)

LEMMA JoinAssoc ==
  ASSUME NEW s, NEW t, NEW u, IsSeq(s), IsSeq(t), IsSeq(u)
  PROVE  Associates(s, t, u)
<1>1. PICK X : s \in Seq(X)
  BY DEF IsSeq
<1>2. PICK Y : t \in Seq(Y)
  BY DEF IsSeq
<1>3. PICK W : u \in Seq(W)
  BY DEF IsSeq
<1> DEFINE Z == X \cup Y \cup W
<1>4. s \in Seq(Z) /\ t \in Seq(Z) /\ u \in Seq(Z)
  BY <1>1, <1>2, <1>3
<1> HIDE DEF Z
<1> DEFINE v == (s \o t) \o u
           w == s \o (t \o u)
<1>5. /\ s \o t \in Seq(Z) /\ t \o u \in Seq(Z)
      /\ Len(s \o t) = Len(s) + Len(t) /\ Len(t \o u) = Len(t) + Len(u)
      /\ Len(s) \in Nat /\ Len(t) \in Nat /\ Len(u) \in Nat
  BY <1>4
<1>6. v \in Seq(Z) /\ w \in Seq(Z) /\ Len(v) = Len(s) + Len(t) + Len(u) /\ Len(w) = Len(v)
  BY <1>4, <1>5
<1>7. \A n \in 1 .. Len(v) : v[n] = w[n]
  BY <1>4, <1>5
<1> HIDE DEF v, w
<1>8. v = w
  BY <1>6, <1>7
<1> QED
  BY <1>8 DEF v, w, Associates

\* The explicit tuples.
LEMMA TuplesAreSeqs ==
  ASSUME NEW a, NEW b, NEW c, NEW d, NEW e, NEW f
  PROVE  IsSeq(<<a>>) /\ IsSeq(<<a, b, c, d>>) /\ IsSeq(<<a, b, c, d, e, f>>)
<1> DEFINE S == {a, b, c, d, e, f}
<1>1. <<a>> \in Seq(S)
  OBVIOUS
<1>2. <<a, b, c, d>> \in Seq(S)
  OBVIOUS
<1>3. <<a, b, c, d, e, f>> \in Seq(S)
  OBVIOUS
<1> QED
  BY ONLY <1>1, <1>2, <1>3 DEF IsSeq

\* The first call of every program.
LEMMA RuleOpen ==
  ASSUME NEW p, NEW t, NEW a, NEW m, NEW c, NEW f,
         \A g : Good(p, <<t, {"fd"}, a, FALSE, m, c, g>>)
  PROVE  Good(p, <<Then(Get("fd", <<>>), t), {}, a, FALSE, m, c, f>>)
<1>1. Needs("fd") \subseteq {} /\ "fd" \notin {} /\ {"fd"} = {} \cup {"fd"}
  BY NeedsTable
<1>2. Good(p, <<<<>>, {}, a, FALSE, m, c, "fd">>)
  BY RuleEnd
<1>3. Good(p, <<t, {"fd"}, a, FALSE, m, c, f>>)
  OBVIOUS
<1> QED
  BY ONLY <1>1, <1>2, <1>3, RuleGet

\* prime_fd_notes.c, mmap_user.c, fault_user.c and ioctl_user.c.
LEMMA PrimeMainGood ==
  ASSUME NEW a, NEW m, NEW c, NEW f
  PROVE  Good("prime", <<PrimeMain, {}, a, FALSE, m, c, f>>)
<1>1. \A g : Good("prime", <<Then(Put("fd"), <<>>), {"fd"}, a, FALSE, m, c, g>>)
  BY RuleClose
<1>2. PrimeMain = Then(Get("fd", <<>>), Then(Put("fd"), <<>>))
  BY AsThen1, AsThen2 DEF PrimeMain
<1> QED
  BY ONLY <1>1, <1>2, RuleOpen

LEMMA IoctlUserMainGood ==
  ASSUME NEW a, NEW d, NEW i, NEW c, NEW f
  PROVE  Good("ioctl_user", <<IoctlUserMain, {}, a, FALSE, <<d, i>>, c, f>>)
<1> DEFINE p == "ioctl_user"
           X == {"RESET", "SET_VAL", "GET_VAL"}
           H == {"fd"}
           t2 == Then(Put("fd"), <<>>)
           t1 == Then(Tell, t2)
           t0 == Then(Try(X), t1)
<1>1. IoctlUserMain = Then(Get("fd", <<>>), t0)
  <2>1. <<Get("fd", <<>>), Try(X), Tell, Put("fd")>> = Then(Get("fd", <<>>), t0)
    BY ONLY List4
  <2> QED
    BY ONLY <2>1 DEF IoctlUserMain
<1>2. \A x \in X : Needs(x) \subseteq H
  BY NeedsTable
<1>3. \A m, g : Good(p, <<t2, H, a, FALSE, m, c, g>>)
  BY RuleClose
<1> HIDE DEF H, X, t2
<1>4. \A m, g : Good(p, <<t1, H, a, FALSE, m, c, g>>)
  <2>1. \A m : MayTell(p, a, FALSE, m, c)
    BY ONLY TRUE DEF MayTell
  <2> QED
    BY ONLY <1>3, <2>1, RuleTell
<1> HIDE DEF t1
<1>5. \A g : Good(p, <<t0, H, a, FALSE, <<d, i>>, c, g>>)
  <2> TAKE g
  <2>1. \A j : Good(p, <<t1, H, a, FALSE, <<d, j>>, c, g>>)
    BY ONLY <1>4
  <2> QED
    BY ONLY <1>2, <2>1, RuleTry
<1> HIDE DEF t0
<1> DEFINE m == <<d, i>>
<1>6. \A g : Good(p, <<t0, H, a, FALSE, m, c, g>>)
  BY ONLY <1>5
<1> HIDE DEF m
<1>7. Good(p, <<IoctlUserMain, {}, a, FALSE, m, c, f>>)
  BY ONLY <1>1, <1>6, RuleOpen DEF H
<1> QED
  BY ONLY <1>7 DEF m

\* The client of mmap_dev and that of fault_dev from mmap on.
LEMMA SharedUse ==
  ASSUME NEW p, NEW a, NEW m, NEW c
  PROVE  \A f : Good(p, <<Then(Use("shared"), Then(Put("shared"), Then(Put("fd"), <<>>))),
                         {"fd", "shared"}, a, FALSE, m, c, f>>)
<1> DEFINE H == {"fd"}
           H1 == {"fd", "shared"}
           t2 == Then(Put("fd"), <<>>)
           t1 == Then(Put("shared"), t2)
<1>1. H = H1 \ {"shared"} /\ "shared" \in H1
  OBVIOUS
<1>2. \A f : Good(p, <<t2, H, a, FALSE, m, c, f>>)
  BY RuleClose
<1> HIDE DEF H, H1, t2
<1>3. \A f : Good(p, <<t1, H1, a, FALSE, m, c, f>>)
  BY ONLY <1>1, <1>2, RuleFree, FALSE \in BOOLEAN
<1> HIDE DEF t1
<1>4. \A f : Good(p, <<Then(Use("shared"), t1), H1, a, FALSE, m, c, f>>)
  BY ONLY <1>1, <1>3, RuleUse
<1> QED
  BY ONLY <1>4 DEF t1, t2, H1

LEMMA SharedGet ==
  ASSUME NEW p, NEW err, NEW a, NEW m, NEW c,
         \A f : f = "shared" => Good(p, <<err, {"fd"}, a, FALSE, m, c, f>>)
  PROVE  \A f : Good(p, <<Then(Get("shared", err),
                            Then(Use("shared"), Then(Put("shared"), Then(Put("fd"), <<>>)))),
                         {"fd"}, a, FALSE, m, c, f>>)
<1> DEFINE t == Then(Use("shared"), Then(Put("shared"), Then(Put("fd"), <<>>)))
           H == {"fd"}
           H1 == {"fd", "shared"}
<1>1. Needs("shared") \subseteq H /\ "shared" \notin H /\ H1 = H \cup {"shared"}
  BY NeedsTable
<1>2. \A f : Good(p, <<t, H1, a, FALSE, m, c, f>>)
  BY SharedUse
<1>3. Good(p, <<err, H, a, FALSE, m, c, "shared">>)
  OBVIOUS
<1> HIDE DEF t, H, H1
<1>4. \A f : Good(p, <<Then(Get("shared", err), t), H, a, FALSE, m, c, f>>)
  BY ONLY <1>1, <1>2, <1>3, RuleGet
<1> QED
  BY ONLY <1>4 DEF t, H

\* mmap_user.c closes the file if mmap fails,
LEMMA MmapUserMainGood ==
  ASSUME NEW a, NEW m, NEW c, NEW f
  PROVE  Good("mmap_user", <<MmapUserMain, {}, a, FALSE, m, c, f>>)
<1> DEFINE p == "mmap_user"
           close == Then(Put("fd"), <<>>)
           t == Then(Get("shared", close), Then(Use("shared"), Then(Put("shared"), close)))
<1>1. MmapUserMain = Then(Get("fd", <<>>), t)
  <2>1. <<Put("fd")>> = close
    BY ONLY List1
  <2> HIDE DEF close
  <2>2. <<Get("fd", <<>>), Get("shared", close), Use("shared"), Put("shared"), Put("fd")>>
          = Then(Get("fd", <<>>), Then(Get("shared", close), Then(Use("shared"), Then(Put("shared"),
              Then(Put("fd"), <<>>)))))
    BY ONLY List5
  <2> QED
    BY ONLY <2>1, <2>2 DEF MmapUserMain, close
<1>2. \A g : Good(p, <<close, {"fd"}, a, FALSE, m, c, g>>)
  BY RuleClose
<1>3. \A g : Good(p, <<t, {"fd"}, a, FALSE, m, c, g>>)
  BY ONLY <1>2, SharedGet
<1> HIDE DEF t
<1> QED
  BY ONLY <1>1, <1>3, RuleOpen

\* fault_user.c returns at once.
LEMMA FaultUserMainGood ==
  ASSUME NEW a, NEW m, NEW c, NEW f
  PROVE  Good("fault_user", <<FaultUserMain, {}, a, FALSE, m, c, f>>)
<1> DEFINE p == "fault_user"
           t == Then(Get("shared", <<>>),
                  Then(Use("shared"), Then(Put("shared"), Then(Put("fd"), <<>>))))
<1>1. FaultUserMain = Then(Get("fd", <<>>), t)
  BY ONLY List5 DEF FaultUserMain
<1>2. \A g : g = "shared" => Good(p, <<<<>>, {"fd"}, a, FALSE, m, c, g>>)
  BY RuleEnd
<1>3. \A g : Good(p, <<t, {"fd"}, a, FALSE, m, c, g>>)
  BY ONLY <1>2, SharedGet
<1> HIDE DEF t
<1> QED
  BY ONLY <1>1, <1>3, RuleOpen

\* dumb_buffer.c returns at once whenever a call fails.
LEMMA DumbMainGood ==
  ASSUME NEW a, NEW m, NEW c, NEW f
  PROVE  Good("dumb", <<DumbMain, {}, a, FALSE, m, c, f>>)
<1> DEFINE p == "dumb"
           H == {"fd"}
           H1 == H \cup {"handle"}
           H2 == H1 \cup {"offset"}
           H3 == H2 \cup {"map"}
           H4 == H3 \cup {"fb"}
           H5 == H4 \ {"map"}
           t6 == Then(Put("fd"), <<>>)
           t5 == Then(Put("map"), t6)
           t4 == Then(Get("fb", <<>>), t5)
           t3 == Then(Paint, t4)
           t2 == Then(Get("map", <<>>), t3)
           t1 == Then(Get("offset", <<>>), t2)
           t0 == Then(Get("handle", <<>>), t1)
<1>1. DumbMain = Then(Get("fd", <<>>), t0)
  BY ONLY List8 DEF DumbMain
<1>2. /\ H1 = H \cup {"handle"} /\ "handle" \notin H /\ Needs("handle") \subseteq H
      /\ H2 = H1 \cup {"offset"} /\ "offset" \notin H1 /\ Needs("offset") \subseteq H1
      /\ H3 = H2 \cup {"map"} /\ "map" \notin H2 /\ Needs("map") \subseteq H2 /\ "map" \in H3
      /\ H4 = H3 \cup {"fb"} /\ "fb" \notin H3 /\ Needs("fb") \subseteq H3
      /\ H5 = H4 \ {"map"} /\ "map" \in H4
  BY NeedsTable
<1>3. "fd" \in H5 /\ H5 \subseteq PerFile \cup {"fd"}
  BY DEF PerFile
<1> HIDE DEF H, H1, H2, H3, H4, H5
<1>4. \A h, x, g : g # "" => Good(p, <<<<>>, h, x, FALSE, m, c, g>>)
  BY RuleEnd
<1>5. Good(p, <<t6, H5, TRUE, FALSE, m, c, f>>)
  BY ONLY <1>3, RuleClose
<1> HIDE DEF t6
<1>6. Good(p, <<t5, H4, TRUE, FALSE, m, c, f>>)
  BY ONLY <1>2, <1>5, RuleFree, FALSE \in BOOLEAN
<1> HIDE DEF t5
<1>7. Good(p, <<t4, H3, TRUE, FALSE, m, c, f>>)
  <2>1. Good(p, <<<<>>, H3, TRUE, FALSE, m, c, "fb">>)
    BY ONLY <1>4
  <2> QED
    BY ONLY <1>2, <1>6, <2>1, RuleGet
<1> HIDE DEF t4
<1>8. Good(p, <<t3, H3, a, FALSE, m, c, f>>)
  BY ONLY <1>2, <1>7, RulePaint
<1> HIDE DEF t3
<1>9. Good(p, <<t2, H2, a, FALSE, m, c, f>>)
  <2>1. Good(p, <<<<>>, H2, a, FALSE, m, c, "map">>)
    BY ONLY <1>4
  <2> QED
    BY ONLY <1>2, <1>8, <2>1, RuleGet
<1> HIDE DEF t2
<1>10. Good(p, <<t1, H1, a, FALSE, m, c, f>>)
  <2>1. Good(p, <<<<>>, H1, a, FALSE, m, c, "offset">>)
    BY ONLY <1>4
  <2> QED
    BY ONLY <1>2, <1>9, <2>1, RuleGet
<1> HIDE DEF t1
<1>11. Good(p, <<t0, H, a, FALSE, m, c, f>>)
  <2>1. Good(p, <<<<>>, H, a, FALSE, m, c, "handle">>)
    BY ONLY <1>4
  <2> QED
    BY ONLY <1>2, <1>10, <2>1, RuleGet
<1> HIDE DEF t0
<1>12. Good(p, <<Then(Get("fd", <<>>), t0), {}, a, FALSE, m, c, f>>)
  <2>1. Good(p, <<<<>>, {}, a, FALSE, m, c, "fd">>)
    BY ONLY <1>4
  <2>2. Needs("fd") \subseteq {} /\ "fd" \notin {} /\ H = {} \cup {"fd"}
    BY NeedsTable DEF H
  <2> QED
    BY ONLY <1>11, <2>1, <2>2, RuleGet
<1> QED
  BY ONLY <1>1, <1>12

\* free_enc of modeset_minimal.c, from wherever it is reached.
FreeRes == Then(Put("res"), Then(Put("fd"), <<>>))
FreeConn == Then(Put("conn"), FreeRes)
FreeEnc == Then(Put("enc"), FreeConn)

LEMMA FreeConnGood ==
  ASSUME NEW p, NEW h, NEW a, NEW b \in BOOLEAN, NEW m, NEW c, NEW f,
         {"fd", "res", "conn"} \subseteq h, h \subseteq PerFile \cup {"fd", "res", "conn"}
  PROVE  Good(p, <<FreeConn, h, a, b, m, c, f>>)
<1> DEFINE h1 == h \ {"conn"}
           h2 == h1 \ {"res"}
<1>1. h1 = h \ {"conn"} /\ "conn" \in h /\ h2 = h1 \ {"res"} /\ "res" \in h1
  OBVIOUS
<1>2. "fd" \in h2 /\ h2 \subseteq PerFile \cup {"fd"}
  BY DEF PerFile
<1> HIDE DEF h1, h2
<1>3. Good(p, <<Then(Put("fd"), <<>>), h2, a, b, m, c, f>>)
  BY ONLY <1>2, RuleClose
<1>4. Good(p, <<FreeRes, h1, a, b, m, c, f>>)
  BY ONLY <1>1, <1>3, RuleFree, b \in BOOLEAN DEF FreeRes
<1> QED
  BY ONLY <1>1, <1>4, RuleFree, b \in BOOLEAN DEF FreeConn

LEMMA FreeEncGood ==
  ASSUME NEW p, NEW h, NEW a, NEW b \in BOOLEAN, NEW m, NEW c, NEW f,
         {"fd", "res", "conn", "enc"} \subseteq h,
         h \subseteq PerFile \cup {"fd", "res", "conn", "enc"}
  PROVE  Good(p, <<FreeEnc, h, a, b, m, c, f>>)
<1> DEFINE h1 == h \ {"enc"}
<1>1. h1 = h \ {"enc"} /\ "enc" \in h
  OBVIOUS
<1>2. {"fd", "res", "conn"} \subseteq h1 /\ h1 \subseteq PerFile \cup {"fd", "res", "conn"}
  BY DEF PerFile
<1> HIDE DEF h1
<1>3. Good(p, <<FreeConn, h1, a, b, m, c, f>>)
  BY ONLY <1>2, FreeConnGood, b \in BOOLEAN
<1> QED
  BY ONLY <1>1, <1>3, RuleFree, b \in BOOLEAN DEF FreeEnc

ModesetShow == <<Paint, Show("setcrtc", <<>>), Tell, Put("map"), Put("fb"), Put("handle")>> \o FreeEnc

\* From the painting on: SetCrtc may fail and return at once, and otherwise the
\* prompt is true.
LEMMA ModesetShowGood ==
  ASSUME NEW a, NEW m, NEW c
  PROVE  \A f : Good("modeset", <<ModesetShow, {"fd", "res", "conn", "enc"} \cup Buffer, a, FALSE, m, c, f>>)
<1> DEFINE p == "modeset"
           G == {"fd", "res", "conn", "enc"}
           H == G \cup Buffer
           H1 == H \ {"map"}
           H2 == H1 \ {"fb"}
           H3 == H2 \ {"handle"}
           t5 == Then(Put("handle"), FreeEnc)
           t4 == Then(Put("fb"), t5)
           t3 == Then(Put("map"), t4)
           t2 == Then(Tell, t3)
           t1 == Then(Show("setcrtc", <<>>), t2)
           t0 == Then(Paint, t1)
<1>1. /\ "map" \in H /\ "fb" \in H1 /\ "handle" \in H2
      /\ H1 = H \ {"map"} /\ H2 = H1 \ Released("fb") /\ H3 = H2 \ {"handle"}
  BY DEF Buffer, Released
<1>2. Needs("setcrtc") \subseteq H
  BY NeedsTable DEF Buffer
<1>3. G \subseteq H3 /\ H3 \subseteq PerFile \cup G
  BY DEF Buffer, PerFile
<1>4. FALSE = (TRUE /\ "fb" \notin Released("fb"))
  BY DEF Released
<1>5. \A f : Good(p, <<FreeEnc, H3, TRUE, FALSE, m, c, f>>)
  BY <1>3, FreeEncGood
<1>6. \A f : Good(p, <<<<>>, H, TRUE, FALSE, m, c, "setcrtc">>)
  BY RuleEnd
<1> HIDE DEF H, H1, H2, H3
<1>7. \A f : Good(p, <<t5, H2, TRUE, FALSE, m, c, f>>)
  BY ONLY <1>1, <1>5, RuleFree, FALSE \in BOOLEAN
<1> HIDE DEF t5
<1>8. \A f : Good(p, <<t4, H1, TRUE, TRUE, m, c, f>>)
  BY ONLY <1>1, <1>4, <1>7, RulePut
<1> HIDE DEF t4
<1>9. \A f : Good(p, <<t3, H, TRUE, TRUE, m, c, f>>)
  BY ONLY <1>1, <1>8, RuleFree, TRUE \in BOOLEAN
<1> HIDE DEF t3
<1>10. \A f : Good(p, <<t2, H, TRUE, TRUE, m, c, f>>)
  <2>1. MayTell(p, TRUE, TRUE, m, c)
    BY ONLY TRUE DEF MayTell
  <2> QED
    BY ONLY <1>9, <2>1, RuleTell
<1> HIDE DEF t2
<1>11. \A f : Good(p, <<t1, H, TRUE, FALSE, m, c, f>>)
  BY ONLY <1>2, <1>6, <1>10, "setcrtc" # "atomic_commit", RuleShow
<1> HIDE DEF t1
<1>12. \A f : Good(p, <<t0, H, a, FALSE, m, c, f>>)
  BY ONLY <1>1, <1>11, RulePaint
<1>13. ModesetShow = t0
  <2>1. Good(p, <<FreeEnc, H3, TRUE, FALSE, m, c, "">>)
    BY ONLY <1>5
  <2>2. IsSeq(FreeEnc)
    BY ONLY <2>1, GoodSeq
  <2> QED
    BY ONLY <2>2, Join6 DEF ModesetShow, t1, t2, t3, t4, t5
<1> QED
  BY ONLY <1>12, <1>13 DEF H

\* Joined code is code.
LEMMA JoinIsSeq ==
  ASSUME NEW s, NEW t, IsSeq(s), IsSeq(t)
  PROVE  IsSeq(s \o t)
<1>1. PICK X : s \in Seq(X)
  BY DEF IsSeq
<1>2. PICK Y : t \in Seq(Y)
  BY DEF IsSeq
<1> DEFINE Z == X \cup Y
<1>3. s \in Seq(Z) /\ t \in Seq(Z)
  BY <1>1, <1>2
<1> HIDE DEF Z
<1>4. s \o t \in Seq(Z)
  BY <1>3
<1> QED
  BY <1>4 DEF IsSeq

\* Four pieces of code, joined from either end.
Reassociates(s, t, u, v) == s \o (t \o (u \o v)) = ((s \o t) \o u) \o v

LEMMA JoinAssoc4 ==
  ASSUME NEW s, NEW t, NEW u, NEW v, IsSeq(s), IsSeq(t), IsSeq(u), IsSeq(v)
  PROVE  Reassociates(s, t, u, v)
<1> DEFINE uv == u \o v
           st == s \o t
<1>1. IsSeq(uv) /\ IsSeq(st)
  BY JoinIsSeq
<1> HIDE DEF uv, st
<1>2. Associates(s, t, uv)
  BY ONLY <1>1, JoinAssoc, IsSeq(s), IsSeq(t)
<1>3. Associates(st, u, v)
  BY ONLY <1>1, JoinAssoc, IsSeq(u), IsSeq(v)
<1> QED
  BY ONLY <1>2, <1>3 DEF uv, st, Associates, Reassociates

\* The code between the connector and the labels.
ModesetDraw == Then(Get("enc", FreeConn), Create(FreeEnc) \o ModesetShow)

\* From the encoder on.
LEMMA ModesetDrawGood ==
  ASSUME NEW a, NEW m, NEW c
  PROVE  \A f : Good("modeset", <<ModesetDraw, {"fd", "res", "conn"}, a, FALSE, m, c, f>>)
<1> DEFINE p == "modeset"
           H == {"fd", "res", "conn"}
           G == {"fd", "res", "conn", "enc"}
           t == Create(FreeEnc) \o ModesetShow
<1>1. /\ Needs("enc") \subseteq H /\ "enc" \notin H /\ G = H \cup {"enc"}
      /\ "fd" \in G /\ G \cap Buffer = {}
  BY NeedsTable DEF Buffer
<1>2. Undoes(p, FreeEnc, G, a, m, c)
  <2> SUFFICES ASSUME NEW g, NEW h, G \subseteq h, h \subseteq (G \cup Buffer) \ {"map"}
               PROVE  Good(p, <<FreeEnc, h, a, FALSE, m, c, g>>)
    BY DEF Undoes
  <2>1. {"fd", "res", "conn", "enc"} \subseteq h /\ h \subseteq PerFile \cup {"fd", "res", "conn", "enc"}
    BY DEF Buffer, PerFile
  <2> QED
    BY ONLY <2>1, FreeEncGood, FALSE \in BOOLEAN
<1>3. \A g : Good(p, <<ModesetShow, G \cup Buffer, a, FALSE, m, c, g>>)
  BY ModesetShowGood
<1>4. \A g : Good(p, <<FreeConn, H, a, FALSE, m, c, g>>)
  <2>1. {"fd", "res", "conn"} \subseteq H /\ H \subseteq PerFile \cup {"fd", "res", "conn"}
    OBVIOUS
  <2> HIDE DEF H
  <2> QED
    BY ONLY <2>1, FreeConnGood, FALSE \in BOOLEAN
<1> HIDE DEF G, H
<1>5. \A g : Good(p, <<t, G, a, FALSE, m, c, g>>)
  BY ONLY <1>1, <1>2, <1>3, CreateGood
<1> HIDE DEF t
<1>6. \A g : Good(p, <<Then(Get("enc", FreeConn), t), H, a, FALSE, m, c, g>>)
  <2> TAKE g
  <2>1. Good(p, <<t, G, a, FALSE, m, c, g>>) /\ Good(p, <<FreeConn, H, a, FALSE, m, c, "enc">>)
    BY ONLY <1>4, <1>5
  <2> QED
    BY ONLY <1>1, <2>1, RuleGet
<1> QED
  BY ONLY <1>6 DEF t, H, ModesetDraw

\* The labels as the model writes them.
LEMMA ModesetLabels ==
  /\ FreeRes = <<Put("res"), Put("fd")>>
  /\ FreeConn = <<Put("conn")>> \o FreeRes
  /\ FreeEnc = <<Put("enc")>> \o FreeConn
  /\ IsSeq(FreeRes) /\ IsSeq(FreeConn) /\ IsSeq(FreeEnc)
<1>1. FreeRes = <<Put("res"), Put("fd")>>
  BY ONLY List2 DEF FreeRes
<1>2. IsSeq(FreeRes)
  BY EmptySeq, ThenFacts DEF FreeRes
<1>3. FreeConn = <<Put("conn")>> \o FreeRes /\ IsSeq(FreeConn)
  BY <1>2, ThenFacts, Join1 DEF FreeConn
<1>4. FreeEnc = <<Put("enc")>> \o FreeConn /\ IsSeq(FreeEnc)
  BY <1>3, ThenFacts, Join1 DEF FreeEnc
<1> QED
  BY <1>1, <1>2, <1>3, <1>4

\* And the code itself.
LEMMA ModesetDrawIs ==
  ModesetDraw = <<Get("enc", FreeConn)>> \o Create(FreeEnc)
                \o <<Paint, Show("setcrtc", <<>>), Tell, Put("map"), Put("fb"), Put("handle")>>
                \o FreeEnc
<1> DEFINE get == <<Get("enc", FreeConn)>>
           create == Create(FreeEnc)
           show == <<Paint, Show("setcrtc", <<>>), Tell, Put("map"), Put("fb"), Put("handle")>>
<1>1. IsSeq(get) /\ IsSeq(show)
  BY TuplesAreSeqs
<1>2. IsSeq(create)
  <2> DEFINE e == FreeEnc
  <2> HIDE DEF e
  <2>1. IsSeq(<<Get("handle", e), Get("fb", e), Get("offset", e), Get("map", e)>>)
    BY ONLY TuplesAreSeqs
  <2> QED
    BY ONLY <2>1 DEF Create, e
<1>3. ModesetDraw = get \o (create \o (show \o FreeEnc))
  BY ONLY TRUE DEF ModesetDraw, ModesetShow, Then
<1>4. IsSeq(FreeEnc)
  BY ModesetLabels
<1> HIDE DEF get, create, show
<1>5. get \o (create \o (show \o FreeEnc)) = ((get \o create) \o show) \o FreeEnc
  <2>1. Reassociates(get, create, show, FreeEnc)
    BY ONLY <1>1, <1>2, <1>4, JoinAssoc4
  <2> QED
    BY ONLY <2>1 DEF Reassociates
<1> QED
  BY ONLY <1>3, <1>5 DEF get, create, show

\* main of modeset_minimal.c.
LEMMA ModesetMainGood ==
  ASSUME NEW a, NEW m, NEW c, NEW f
  PROVE  Good("modeset", <<ModesetMain, {}, a, FALSE, m, c, f>>)
<1> DEFINE p == "modeset"
           close == Then(Put("fd"), <<>>)
           loop == ConnectorLoop(ModesetDraw, close)
           H == {"fd"}
           H1 == {"fd", "res"}
           t == Then(Get("res", close), loop)
<1>1. Needs("res") \subseteq H /\ "res" \notin H /\ H1 = H \cup {"res"}
  BY NeedsTable
<1>2. \A g : Good(p, <<close, H, a, FALSE, m, c, g>>)
  BY RuleClose
<1>3. \A g : Good(p, <<ModesetDraw, {"fd", "res", "conn"}, a, FALSE, m, c, g>>)
  BY ModesetDrawGood
<1>4. \A g : Good(p, <<loop, H1, a, FALSE, m, c, g>>)
  <2> HIDE DEF close
  <2> QED
    BY ONLY <1>2, <1>3, ConnectorLoopGood, FALSE \in BOOLEAN
<1>5. ModesetMain = Then(Get("fd", <<>>), t)
  <2>1. <<Put("fd")>> = close
    BY ONLY List1
  <2>2. IsSeq(loop)
    <3>1. Good(p, <<loop, H1, a, FALSE, m, c, "">>)
      BY ONLY <1>4
    <3> QED
      BY ONLY <3>1, GoodSeq
  <2> HIDE DEF close
  <2>3. ModesetMain = <<Get("fd", <<>>), Get("res", close)>> \o loop
    BY ONLY <2>1, ModesetLabels, ModesetDrawIs DEF ModesetMain
  <2> HIDE DEF loop
  <2>4. <<Get("fd", <<>>), Get("res", close)>> \o loop = Then(Get("fd", <<>>), t)
    BY ONLY <2>2, Join2
  <2> QED
    BY ONLY <2>3, <2>4
<1> HIDE DEF close, loop, H, H1
<1>6. \A g : Good(p, <<t, H, a, FALSE, m, c, g>>)
  <2> TAKE g
  <2>1. Good(p, <<loop, H1, a, FALSE, m, c, g>>) /\ Good(p, <<close, H, a, FALSE, m, c, "res">>)
    BY ONLY <1>2, <1>4
  <2> QED
    BY ONLY <1>1, <2>1, RuleGet
<1> HIDE DEF t
<1> QED
  BY ONLY <1>5, <1>6, RuleOpen DEF H

\* JoinThen with the joined rest at hand.
LEMMA JoinTo ==
  ASSUME NEW instr, NEW s, NEW t, NEW u, IsSeq(s), IsSeq(t), s \o t = u
  PROVE  Then(instr, s) \o t = Then(instr, u)
<1>1. Then(instr, s) \o t = Then(instr, s \o t)
  BY ONLY JoinThen, IsSeq(s), IsSeq(t)
<1> QED
  BY ONLY <1>1, s \o t = u

LEMMA JoinOne ==
  ASSUME NEW instr, NEW t, IsSeq(t)
  PROVE  Then(instr, <<>>) \o t = Then(instr, t)
<1> DEFINE E == <<>>
<1>1. IsSeq(E) /\ E \o t = t
  BY EmptySeq, JoinEmpty
<1> HIDE DEF E
<1>2. Then(instr, E) \o t = Then(instr, t)
  BY <1>1, JoinTo
<1> QED
  BY <1>2 DEF E

\* sha256_file and extend_chain, followed by t.
OutClose == Then(Put("fp"), <<>>)
OutFree == Then(Put("ctx"), OutClose)

LEMMA Sha256Then ==
  ASSUME NEW x, NEW t, IsSeq(t)
  PROVE  /\ IsSeq(sha256_file(x, <<>>))
         /\ sha256_file(x, <<>>) \o t
              = Then(Get("fp", <<>>), Then(Get("ctx", OutClose), Then(Measure(x, OutFree),
                  Then(Put("ctx"), Then(Put("fp"), t)))))
<1> DEFINE s1 == Then(Measure(x, OutFree), OutFree)
           s2 == Then(Get("ctx", OutClose), s1)
           s3 == Then(Get("fp", <<>>), s2)
           u1 == Then(Put("fp"), t)
           u2 == Then(Put("ctx"), u1)
           u3 == Then(Measure(x, OutFree), u2)
           u4 == Then(Get("ctx", OutClose), u3)
           u5 == Then(Get("fp", <<>>), u4)
<1>1. IsSeq(OutClose) /\ IsSeq(OutFree)
  BY EmptySeq, ThenFacts DEF OutClose, OutFree
<1>2. IsSeq(s1) /\ IsSeq(s2) /\ IsSeq(s3)
  BY <1>1, ThenFacts
<1>3. sha256_file(x, <<>>) = s3
  <2>1. <<Put("fp")>> = OutClose
    BY ONLY List1 DEF OutClose
  <2>2. <<Put("ctx")>> \o OutClose = OutFree
    BY <1>1, Join1 DEF OutFree
  <2>3. OutClose \o <<>> = OutClose /\ OutFree \o <<>> = OutFree
    BY ONLY <1>1, JoinEmpty
  <2>4. <<Get("fp", <<>>), Get("ctx", OutClose), Measure(x, OutFree)>> \o OutFree = s3
    BY ONLY <1>1, Join3
  <2> QED
    BY ONLY <2>1, <2>2, <2>3, <2>4 DEF sha256_file
<1>4. OutClose \o t = u1
  BY JoinOne DEF OutClose
<1> HIDE DEF u1
<1>5. OutFree \o t = u2
  <2>1. Then(Put("ctx"), OutClose) \o t = Then(Put("ctx"), u1)
    BY <1>1, <1>4, JoinTo
  <2> QED
    BY ONLY <2>1 DEF OutFree
<1> HIDE DEF u2
<1>6. s1 \o t = u3
  BY <1>1, <1>5, JoinTo
<1> HIDE DEF s1, u3
<1>7. s2 \o t = u4
  BY <1>2, <1>6, JoinTo
<1> HIDE DEF s2, u4
<1>8. s3 \o t = u5
  BY <1>2, <1>7, JoinTo
<1> QED
  BY ONLY <1>2, <1>3, <1>8 DEF u1, u2, u3, u4

Freed == Then(Put("ctx"), <<>>)

\* extend_chain, followed by t.
LEMMA ExtendThen ==
  ASSUME NEW t, IsSeq(t)
  PROVE  /\ IsSeq(extend_chain(<<>>))
         /\ extend_chain(<<>>) \o t
              = Then(Get("ctx", <<>>), Then(Extend(Freed), Then(Put("ctx"), t)))
<1> DEFINE s1 == Then(Extend(Freed), Freed)
           s2 == Then(Get("ctx", <<>>), s1)
           u1 == Then(Put("ctx"), t)
           u2 == Then(Extend(Freed), u1)
           u3 == Then(Get("ctx", <<>>), u2)
<1>1. IsSeq(Freed)
  BY EmptySeq, ThenFacts DEF Freed
<1>2. IsSeq(s1) /\ IsSeq(s2)
  BY <1>1, ThenFacts
<1>3. extend_chain(<<>>) = s2
  <2>1. <<Put("ctx")>> = Freed
    BY ONLY List1 DEF Freed
  <2>2. Freed \o <<>> = Freed
    BY ONLY <1>1, JoinEmpty
  <2>3. <<Get("ctx", <<>>), Extend(Freed), Put("ctx")>>
          = Then(Get("ctx", <<>>), Then(Extend(Freed), Then(Put("ctx"), <<>>)))
    BY ONLY List3
  <2> QED
    BY ONLY <2>1, <2>2, <2>3 DEF extend_chain, Freed
<1>4. Freed \o t = u1
  BY JoinOne DEF Freed
<1> HIDE DEF u1
<1>5. s1 \o t = u2
  BY <1>1, <1>4, JoinTo
<1> HIDE DEF s1, u2
<1>6. s2 \o t = u3
  BY <1>2, <1>5, JoinTo
<1> QED
  BY ONLY <1>2, <1>3, <1>6 DEF u1, u2

OneFile(x, rest) == sha256_file(x, <<>>) \o extend_chain(<<>>) \o rest

\* One round of the loop of hash_chain_minimal.c: x is measured and extends the
\* chain, or the program has freed what it held and ends.
LEMMA OneFileGood ==
  ASSUME NEW x \in {Components[i] : i \in DOMAIN Components}, NEW rest, NEW c,
         \A m, f : Good("hash_chain", <<rest, {}, FALSE, FALSE, m, Append(c, x), f>>)
  PROVE  \A m, f : Good("hash_chain", <<OneFile(x, rest), {}, FALSE, FALSE, m, c, f>>)
<1> DEFINE p == "hash_chain"
           N == {}
           F == {"fp"}
           X == {"ctx"}
           B == F \cup {"ctx"}
           out_close == OutClose
           out_free == Then(Put("ctx"), out_close)
           freed == Freed
           t6 == Then(Put("ctx"), rest)
           t5 == Then(Extend(freed), t6)
           t4 == Then(Get("ctx", <<>>), t5)
           t3 == Then(Put("fp"), t4)
           t2 == Then(Put("ctx"), t3)
           t1 == Then(Measure(x, out_free), t2)
           t0 == Then(Get("ctx", out_close), t1)
           Measured(m) == <<x, m[2]>>
<1>0. \A m : Measured(m) = <<x, m[2]>> /\ Measured(m)[1] = x
  OBVIOUS
<1> HIDE DEF Measured
<1>1. /\ N = F \ {"fp"} /\ "fp" \in F /\ N = X \ {"ctx"} /\ "ctx" \in X /\ F = B \ {"ctx"} /\ "ctx" \in B
      /\ F = N \cup {"fp"} /\ "fp" \notin N /\ Needs("fp") \subseteq N
      /\ X = N \cup {"ctx"} /\ "ctx" \notin N /\ Needs("ctx") \subseteq N
      /\ B = F \cup {"ctx"} /\ "ctx" \notin F /\ Needs("ctx") \subseteq F
      /\ Needs(x) \subseteq B
  <2>1. Needs(x) = {"fp", "ctx"}
    BY NeedsTable
  <2>2. Needs("fp") = {} /\ Needs("ctx") = {}
    BY NeedsTable
  <2> QED
    BY ONLY <2>1, <2>2
<1> HIDE DEF F, X, B
<1>2. \A m, d, f : Good(p, <<<<>>, N, FALSE, FALSE, m, d, f>>)
  BY RuleEnd
<1>3. \A m, f : Good(p, <<rest, N, FALSE, FALSE, m, Append(c, x), f>>)
  OBVIOUS
<1> HIDE DEF N
<1>4. \A m, f : Good(p, <<out_close, F, FALSE, FALSE, m, c, f>>)
  BY ONLY <1>1, <1>2, RuleFree, FALSE \in BOOLEAN DEF OutClose
<1> HIDE DEF out_close
<1>5. \A m, f : Good(p, <<out_free, B, FALSE, FALSE, m, c, f>>)
  BY ONLY <1>1, <1>4, RuleFree, FALSE \in BOOLEAN
<1> HIDE DEF out_free
<1>6. \A m, f : Good(p, <<freed, X, FALSE, FALSE, m, c, f>>)
  BY ONLY <1>1, <1>2, RuleFree, FALSE \in BOOLEAN DEF Freed
<1> HIDE DEF freed
<1>7. \A m, f : Good(p, <<t6, X, FALSE, FALSE, Measured(m), Append(c, x), f>>)
  BY ONLY <1>1, <1>3, RuleFree, FALSE \in BOOLEAN
<1> HIDE DEF t6
<1>8. \A m, f : Good(p, <<t5, X, FALSE, FALSE, Measured(m), c, f>>)
  <2> TAKE m, f
  <2>1. /\ Good(p, <<t6, X, FALSE, FALSE, Measured(m), Append(c, x), f>>)
        /\ Good(p, <<freed, X, FALSE, FALSE, Measured(m), c, "extend">>)
    BY ONLY <1>6, <1>7
  <2> QED
    BY ONLY <1>0, <1>1, <2>1, RuleExtend
<1> HIDE DEF t5
<1>9. \A m, f : Good(p, <<t4, N, FALSE, FALSE, Measured(m), c, f>>)
  <2> TAKE m, f
  <2>1. /\ Good(p, <<t5, X, FALSE, FALSE, Measured(m), c, f>>)
        /\ Good(p, <<<<>>, N, FALSE, FALSE, Measured(m), c, "ctx">>)
    BY ONLY <1>2, <1>8
  <2> QED
    BY ONLY <1>1, <2>1, RuleGet
<1> HIDE DEF t4
<1>10. \A m, f : Good(p, <<t3, F, FALSE, FALSE, Measured(m), c, f>>)
  BY ONLY <1>1, <1>9, RuleFree, FALSE \in BOOLEAN
<1> HIDE DEF t3
<1>11. \A m, f : Good(p, <<t2, B, FALSE, FALSE, Measured(m), c, f>>)
  BY ONLY <1>1, <1>10, RuleFree, FALSE \in BOOLEAN
<1> HIDE DEF t2
<1>12. \A m, f : Good(p, <<t1, B, FALSE, FALSE, m, c, f>>)
  <2> TAKE m, f
  <2>1. /\ Good(p, <<t2, B, FALSE, FALSE, Measured(m), c, f>>)
        /\ Good(p, <<out_free, B, FALSE, FALSE, m, c, x>>)
    BY ONLY <1>5, <1>11
  <2> QED
    BY ONLY <1>0, <1>1, <2>1, RuleMeasure
<1> HIDE DEF t1
<1>13. \A m, f : Good(p, <<t0, F, FALSE, FALSE, m, c, f>>)
  <2> TAKE m, f
  <2>1. Good(p, <<t1, B, FALSE, FALSE, m, c, f>>) /\ Good(p, <<out_close, F, FALSE, FALSE, m, c, "ctx">>)
    BY ONLY <1>4, <1>12
  <2> QED
    BY ONLY <1>1, <2>1, RuleGet
<1> HIDE DEF t0
<1>14. \A m, f : Good(p, <<Then(Get("fp", <<>>), t0), N, FALSE, FALSE, m, c, f>>)
  <2> TAKE m, f
  <2>1. Good(p, <<t0, F, FALSE, FALSE, m, c, f>>) /\ Good(p, <<<<>>, N, FALSE, FALSE, m, c, "fp">>)
    BY ONLY <1>2, <1>13
  <2> QED
    BY ONLY <1>1, <2>1, RuleGet
<1>15. OneFile(x, rest) = Then(Get("fp", <<>>), t0)
  <2>0. IsSeq(rest)
    <3>1. Good(p, <<rest, N, FALSE, FALSE, "", Append(c, x), "">>)
      BY ONLY <1>3
    <3> QED
      BY ONLY <3>1, GoodSeq
  <2> DEFINE sha == sha256_file(x, <<>>)
             ext == extend_chain(<<>>)
             u == ext \o rest
  <2>1. IsSeq(ext) /\ u = t4
    BY ONLY <2>0, ExtendThen DEF t4, t5, t6, freed
  <2>2. IsSeq(t4)
    <3>1. Good(p, <<t4, N, FALSE, FALSE, Measured(""), c, "">>)
      BY ONLY <1>9
    <3> QED
      BY ONLY <3>1, GoodSeq
  <2>3. IsSeq(sha) /\ sha \o t4 = Then(Get("fp", <<>>), t0)
    BY ONLY <2>2, Sha256Then DEF t0, t1, t2, t3, out_close, out_free, OutFree
  <2> HIDE DEF sha, ext
  <2>4. (sha \o ext) \o rest = sha \o u
    <3>1. IsSeq(sha) /\ IsSeq(ext) /\ IsSeq(rest)
      BY ONLY <2>0, <2>1, <2>3
    <3>2. Associates(sha, ext, rest)
      BY ONLY <3>1, JoinAssoc
    <3> QED
      BY ONLY <3>2 DEF Associates
  <2> QED
    BY ONLY <2>1, <2>3, <2>4 DEF OneFile, sha, ext
<1> QED
  BY ONLY <1>14, <1>15 DEF N

\* The code from the component number i on.
FromFile(g, i) == IF i > 4 THEN <<Tell>> ELSE OneFile(Components[i], g[i + 1])

\* The loop over the components, which are four.
LEMMA HashChainUnfolds ==
  LET R5 == <<Tell>>
      R4 == OneFile("board.dtb", R5)
      R3 == OneFile("Image", R4)
      R2 == OneFile("uboot.bin", R3)
  IN  HashChainMain = OneFile("tfa.bin", R2)
<1> DEFINE R5 == <<Tell>>
           R4 == OneFile("board.dtb", R5)
           R3 == OneFile("Image", R4)
           R2 == OneFile("uboot.bin", R3)
           R1 == OneFile("tfa.bin", R2)
           g == [i \in 1 .. 5 |-> IF i = 1 THEN R1 ELSE IF i = 2 THEN R2 ELSE IF i = 3 THEN R3
                                  ELSE IF i = 4 THEN R4 ELSE R5]
           loop == CHOOSE h : h = [i \in 1 .. 5 |-> FromFile(h, i)]
<1>1. /\ Len(Components) = 4
      /\ Components[1] = "tfa.bin" /\ Components[2] = "uboot.bin"
      /\ Components[3] = "Image" /\ Components[4] = "board.dtb"
  BY DEF Components
<1>2. \A h : /\ FromFile(h, 1) = OneFile("tfa.bin", h[2]) /\ FromFile(h, 2) = OneFile("uboot.bin", h[3])
             /\ FromFile(h, 3) = OneFile("Image", h[4]) /\ FromFile(h, 4) = OneFile("board.dtb", h[5])
             /\ FromFile(h, 5) = R5
  BY <1>1 DEF FromFile
<1> HIDE DEF R5
<1>3. g[1] = R1 /\ g[2] = R2 /\ g[3] = R3 /\ g[4] = R4 /\ g[5] = R5
  <2> HIDE DEF R1, R2, R3, R4
  <2> QED
    OBVIOUS
<1>4. g = [i \in 1 .. 5 |-> FromFile(g, i)]
  <2>1. /\ FromFile(g, 1) = R1 /\ FromFile(g, 2) = R2 /\ FromFile(g, 3) = R3 /\ FromFile(g, 4) = R4
        /\ FromFile(g, 5) = R5
    <3> HIDE DEF g
    <3> QED
      BY <1>2, <1>3
  <2> HIDE DEF R1, R2, R3, R4
  <2>2. \A i \in 1 .. 5 : g[i] = FromFile(g, i)
    BY ONLY <1>3, <2>1
  <2>3. g = [i \in 1 .. 5 |-> g[i]]
    OBVIOUS
  <2> HIDE DEF g
  <2> QED
    BY ONLY <2>2, <2>3
<1>5. loop = [i \in 1 .. 5 |-> FromFile(loop, i)]
  <2> HIDE DEF g
  <2> QED
    BY <1>4
<1>6. HashChainMain = loop[1]
  BY ONLY <1>1 DEF HashChainMain, FromFile, OneFile
<1> HIDE DEF loop, g
<1>7. /\ loop[1] = FromFile(loop, 1) /\ loop[2] = FromFile(loop, 2) /\ loop[3] = FromFile(loop, 3)
      /\ loop[4] = FromFile(loop, 4) /\ loop[5] = FromFile(loop, 5)
  BY ONLY <1>5
<1>8. loop[1] = R1
  BY ONLY <1>2, <1>7
<1> QED
  BY ONLY <1>6, <1>8 DEF R1, R2, R3, R4, R5

\* How a chain is told to be the one it should be.
LEMMA AppendIs ==
  ASSUME NEW X, NEW s \in Seq(X), NEW x \in X, NEW r \in Seq(X),
         Len(r) = Len(s) + 1, \A i \in 1 .. Len(s) : r[i] = s[i], r[Len(s) + 1] = x
  PROVE  Append(s, x) = r
<1>1. /\ Append(s, x) \in Seq(X) /\ Len(Append(s, x)) = Len(s) + 1 /\ Len(s) \in Nat
      /\ \A i \in 1 .. Len(s) : Append(s, x)[i] = s[i]
      /\ Append(s, x)[Len(s) + 1] = x
  OBVIOUS
<1>2. \A i \in 1 .. Len(r) : Append(s, x)[i] = r[i]
  BY <1>1
<1> QED
  BY <1>1, <1>2

\* The four components in their order.
LEMMA ChainIsComponents ==
  Append(Append(Append(Append(<<>>, "tfa.bin"), "uboot.bin"), "Image"), "board.dtb") = Components
<1> DEFINE X == {"tfa.bin", "uboot.bin", "Image", "board.dtb"}
           r0 == <<>>
           r1 == <<"tfa.bin">>
           r2 == <<"tfa.bin", "uboot.bin">>
           r3 == <<"tfa.bin", "uboot.bin", "Image">>
           r4 == <<"tfa.bin", "uboot.bin", "Image", "board.dtb">>
<1>1. /\ "tfa.bin" \in X /\ "uboot.bin" \in X /\ "Image" \in X /\ "board.dtb" \in X
      /\ r0 \in Seq(X) /\ r1 \in Seq(X) /\ r2 \in Seq(X) /\ r3 \in Seq(X) /\ r4 \in Seq(X)
  OBVIOUS
<1>2. /\ Len(r0) = 0
      /\ Len(r1) = 1 /\ r1[1] = "tfa.bin"
      /\ Len(r2) = 2 /\ r2[1] = "tfa.bin" /\ r2[2] = "uboot.bin"
      /\ Len(r3) = 3 /\ r3[1] = "tfa.bin" /\ r3[2] = "uboot.bin" /\ r3[3] = "Image"
      /\ Len(r4) = 4 /\ r4[1] = "tfa.bin" /\ r4[2] = "uboot.bin" /\ r4[3] = "Image"
      /\ r4[4] = "board.dtb"
  OBVIOUS
<1> HIDE DEF X, r0, r1, r2, r3, r4
<1>3. Append(r0, "tfa.bin") = r1
  BY ONLY <1>1, <1>2, AppendIs
<1>4. Append(r1, "uboot.bin") = r2
  <2>1. /\ Len(r2) = Len(r1) + 1 /\ r2[Len(r1) + 1] = "uboot.bin"
        /\ \A i \in 1 .. Len(r1) : r2[i] = r1[i]
    BY ONLY <1>2
  <2>2. r1 \in Seq(X) /\ r2 \in Seq(X) /\ "uboot.bin" \in X
    BY ONLY <1>1
  <2> QED
    BY ONLY <2>1, <2>2, AppendIs
<1>5. Append(r2, "Image") = r3
  <2>1. /\ Len(r3) = Len(r2) + 1 /\ r3[Len(r2) + 1] = "Image"
        /\ \A i \in 1 .. Len(r2) : r3[i] = r2[i]
    BY ONLY <1>2
  <2>2. r2 \in Seq(X) /\ r3 \in Seq(X) /\ "Image" \in X
    BY ONLY <1>1
  <2> QED
    BY ONLY <2>1, <2>2, AppendIs
<1>6. Append(r3, "board.dtb") = r4
  <2>1. /\ Len(r4) = Len(r3) + 1 /\ r4[Len(r3) + 1] = "board.dtb"
        /\ \A i \in 1 .. Len(r3) : r4[i] = r3[i]
    BY ONLY <1>2
  <2>2. r3 \in Seq(X) /\ r4 \in Seq(X) /\ "board.dtb" \in X
    BY ONLY <1>1
  <2> QED
    BY ONLY <2>1, <2>2, AppendIs
<1>7. Append(Append(Append(Append(r0, "tfa.bin"), "uboot.bin"), "Image"), "board.dtb") = r4
  BY ONLY <1>3, <1>4, <1>5, <1>6
<1> QED
  BY ONLY <1>7 DEF r0, r4, Components

\* main of hash_chain_minimal.c: the chain takes up one component after the other.
LEMMA HashChainMainGood ==
  ASSUME NEW m, NEW f
  PROVE  Good("hash_chain", <<HashChainMain, {}, FALSE, FALSE, m, <<>>, f>>)
<1> DEFINE p == "hash_chain"
           N == {}
           c1 == <<>>
           c2 == Append(c1, "tfa.bin")
           c3 == Append(c2, "uboot.bin")
           c4 == Append(c3, "Image")
           c5 == Append(c4, "board.dtb")
           R5 == <<Tell>>
           R4 == OneFile("board.dtb", R5)
           R3 == OneFile("Image", R4)
           R2 == OneFile("uboot.bin", R3)
           R1 == OneFile("tfa.bin", R2)
           Names == {Components[i] : i \in DOMAIN Components}
<1>1. c5 = Components
  BY ONLY ChainIsComponents
<1>2. "tfa.bin" \in Names /\ "uboot.bin" \in Names /\ "Image" \in Names /\ "board.dtb" \in Names
  <2>1. /\ DOMAIN Components = 1 .. 4
        /\ Components[1] = "tfa.bin" /\ Components[2] = "uboot.bin"
        /\ Components[3] = "Image" /\ Components[4] = "board.dtb"
    BY DEF Components
  <2> QED
    BY <2>1
<1>3. \A x, d, rest : x \in Names
        => ((\A n, g : Good(p, <<rest, {}, FALSE, FALSE, n, Append(d, x), g>>))
            => \A n, g : Good(p, <<OneFile(x, rest), {}, FALSE, FALSE, n, d, g>>))
  BY ONLY OneFileGood
<1> HIDE DEF Names
<1>4. \A n, g : Good(p, <<R5, {}, FALSE, FALSE, n, c5, g>>)
  <2>1. R5 = Then(Tell, <<>>)
    BY ONLY List1
  <2>2. \A n, g : Good(p, <<<<>>, {}, FALSE, FALSE, n, c5, g>>)
    BY RuleEnd
  <2>3. \A n : MayTell(p, FALSE, FALSE, n, c5)
    BY ONLY <1>1 DEF MayTell
  <2> HIDE DEF c5
  <2> QED
    BY ONLY <2>1, <2>2, <2>3, RuleTell
<1> HIDE DEF R5
<1>5. \A n, g : Good(p, <<R4, {}, FALSE, FALSE, n, c4, g>>)
  <2> HIDE DEF c4, p
  <2> QED
    BY ONLY <1>2, <1>3, <1>4
<1> HIDE DEF R4, c5
<1>6. \A n, g : Good(p, <<R3, {}, FALSE, FALSE, n, c3, g>>)
  <2> HIDE DEF c3, p
  <2> QED
    BY ONLY <1>2, <1>3, <1>5
<1> HIDE DEF R3, c4
<1>7. \A n, g : Good(p, <<R2, {}, FALSE, FALSE, n, c2, g>>)
  <2> HIDE DEF c2, p
  <2> QED
    BY ONLY <1>2, <1>3, <1>6
<1> HIDE DEF R2, c3
<1>8. \A n, g : Good(p, <<R1, {}, FALSE, FALSE, n, c1, g>>)
  <2> HIDE DEF c1, p
  <2> QED
    BY ONLY <1>2, <1>3, <1>7
<1>9. HashChainMain = R1
  BY ONLY HashChainUnfolds DEF R2, R3, R4, R5
<1> HIDE DEF R1
<1> QED
  BY ONLY <1>8, <1>9

\* The configuration the model is in.
Configuration == <<todo, held, painted, shown, <<measurement, ignored>>, chain, failedAt>>

GoesWell == Good(prog, Configuration)

\* All eight programs go well from the start.
LEMMA InitGoesWell == UserInit => GoesWell
<1> SUFFICES ASSUME UserInit PROVE GoesWell
  OBVIOUS
<1>1. Configuration = <<Main[prog], {}, FALSE, FALSE, <<"", {}>>, <<>>, "">>
  BY DEF UserInit, Configuration
<1>2. /\ prog \in {"atomic", "modeset", "dumb", "prime", "mmap_user", "fault_user", "ioctl_user",
                   "hash_chain"}
      /\ Main["atomic"] = AtomicMain /\ Main["modeset"] = ModesetMain /\ Main["dumb"] = DumbMain
      /\ Main["prime"] = PrimeMain /\ Main["mmap_user"] = MmapUserMain
      /\ Main["fault_user"] = FaultUserMain /\ Main["ioctl_user"] = IoctlUserMain
      /\ Main["hash_chain"] = HashChainMain
  BY DEF UserInit, Main
<1> DEFINE At(main) == <<main, {}, FALSE, FALSE, <<"", {}>>, <<>>, "">>
<1>3. Good("atomic", At(AtomicMain)) /\ Good("modeset", At(ModesetMain)) /\ Good("dumb", At(DumbMain))
  BY ONLY AtomicMainGood, ModesetMainGood, DumbMainGood
<1>4. /\ Good("prime", At(PrimeMain)) /\ Good("mmap_user", At(MmapUserMain))
      /\ Good("fault_user", At(FaultUserMain)) /\ Good("ioctl_user", At(IoctlUserMain))
  BY ONLY PrimeMainGood, MmapUserMainGood, FaultUserMainGood, IoctlUserMainGood
<1>5. Good("hash_chain", At(HashChainMain))
  BY ONLY HashChainMainGood
<1>6. Configuration = At(Main[prog])
  BY ONLY <1>1
<1> HIDE DEF At
<1>7. Good(prog, At(Main[prog]))
  BY ONLY <1>2, <1>3, <1>4, <1>5
<1> QED
  BY ONLY <1>6, <1>7 DEF GoesWell

\* Every step executes the first instruction, which succeeds, fails, or succeeds
\* without doing all it should.
LEMMA Executes ==
  ASSUME UserNext
  PROVE  /\ todo # <<>> /\ prog' = prog
         /\ \/ Configuration' = OnSuccess(Configuration)
            \/ Head(todo).do \in Fallible /\ Configuration' = OnFailure(Configuration)
            \/ \E F \in Lesser(Configuration) : Configuration' = OnLess(Configuration, F)
<1> DEFINE k == Configuration
<1>0. /\ k[1] = todo /\ k[2] = held /\ k[3] = painted /\ k[4] = shown /\ k[5] = <<measurement, ignored>>
      /\ k[5][1] = measurement /\ k[5][2] = ignored
      /\ k[6] = chain /\ k[7] = failedAt
      /\ k' = <<todo', held', painted', shown', <<measurement', ignored'>>, chain', failedAt'>>
  BY DEF Configuration
<1> HIDE DEF k
<1> USE DEF screen, digests, Executing, Continue, What, Fallible
<1>1. CASE GetOK
  <2>1. k' = OnSuccess(k)
    BY <1>0, <1>1 DEF GetOK, OnSuccess
  <2> QED
    BY <1>1, <2>1 DEF GetOK, k
<1>2. CASE Passes
  <2>1. k' = OnSuccess(k)
    BY <1>0, <1>2 DEF Passes, OnSuccess
  <2> QED
    BY <1>2, <2>1 DEF Passes, k
<1>3. CASE ShowOK
  <2>1. CASE shown' = TRUE
    <3>1. k' = OnSuccess(k)
      BY <1>0, <1>3, <2>1 DEF ShowOK, OnSuccess
    <3> QED
      BY <1>3, <3>1 DEF ShowOK, k
  <2>2. CASE shown' = shown /\ What = "atomic_commit" /\ Dropped # {}
    <3>1. {} \in Lesser(k)
      BY <1>0, <1>3, <2>2 DEF ShowOK, Lesser, Dropped
    <3>2. ignored' = ignored \cup {}
      BY <1>3 DEF ShowOK
    <3>3. k' = OnLess(k, {})
      BY <1>0, <1>3, <2>2, <3>2 DEF ShowOK, OnLess
    <3> QED
      BY <1>3, <3>1, <3>3 DEF ShowOK, k
  <2> QED
    BY <1>3, <2>1, <2>2 DEF ShowOK
<1>4. CASE MeasureOK
  <2>1. k' = OnSuccess(k)
    BY <1>0, <1>4 DEF MeasureOK, OnSuccess
  <2> QED
    BY <1>4, <2>1 DEF MeasureOK, k
<1>5. CASE ExtendOK
  <2>1. k' = OnSuccess(k)
    BY <1>0, <1>5 DEF ExtendOK, OnSuccess
  <2> QED
    BY <1>5, <2>1 DEF ExtendOK, k
<1>6. CASE Fails
  <2>1. k' = OnFailure(k)
    BY <1>0, <1>6 DEF Fails, OnFailure
  <2> QED
    BY <1>6, <2>1 DEF Fails, k
<1>7. CASE PutObject
  <2>1. k' = OnSuccess(k)
    BY <1>0, <1>7 DEF PutObject, OnSuccess
  <2> QED
    BY <1>7, <2>1 DEF PutObject, k
<1>8. CASE PaintBuffer
  <2>1. k' = OnSuccess(k)
    BY <1>0, <1>8 DEF PaintBuffer, OnSuccess
  <2> QED
    BY <1>8, <2>1 DEF PaintBuffer, k
<1>9. CASE TryAll
  <2>1. PICK F \in SUBSET What : ignored' = ignored \cup F
    BY <1>9 DEF TryAll
  <2>2. F \in Lesser(k)
    BY <1>0, <1>9, <2>1 DEF TryAll, Lesser
  <2>3. k' = OnLess(k, F)
    BY <1>0, <1>9, <2>1 DEF TryAll, OnLess
  <2> QED
    BY <1>9, <2>2, <2>3 DEF TryAll, k
<1> QED
  BY ONLY UserNext, <1>1, <1>2, <1>3, <1>4, <1>5, <1>6, <1>7, <1>8, <1>9 DEF UserNext

\* And they go on to do so.
LEMMA NextGoesWell == GoesWell /\ [UserNext]_userVars => GoesWell'
<1> SUFFICES ASSUME GoesWell, [UserNext]_userVars PROVE GoesWell'
  OBVIOUS
<1>1. CASE UserNext
  <2>1. /\ todo # <<>> /\ prog' = prog
        /\ \/ Configuration' = OnSuccess(Configuration)
           \/ Head(todo).do \in Fallible /\ Configuration' = OnFailure(Configuration)
           \/ \E F \in Lesser(Configuration) : Configuration' = OnLess(Configuration, F)
    BY <1>1, Executes
  <2>2. Configuration[1] = todo
    BY DEF Configuration
  <2>3. /\ Good(prog, OnSuccess(Configuration))
        /\ Head(todo).do \in Fallible => Good(prog, OnFailure(Configuration))
        /\ \A F \in Lesser(Configuration) : Good(prog, OnLess(Configuration, F))
    <3> DEFINE k == Configuration
    <3>1. Good(prog, k) /\ k[1] = todo /\ k[1] # <<>>
      BY <2>1, <2>2 DEF GoesWell
    <3> HIDE DEF k
    <3>2. /\ Good(prog, OnSuccess(k)) /\ (Head(k[1]).do \in Fallible => Good(prog, OnFailure(k)))
          /\ \A F \in Lesser(k) : Good(prog, OnLess(k, F))
      BY ONLY <3>1, GoodUnfold DEF GoodNext
    <3> QED
      BY ONLY <3>1, <3>2 DEF k
  <2>4. Good(prog, Configuration')
    BY ONLY <2>1, <2>3
  <2>5. Good(prog', Configuration')
    BY ONLY <2>1, <2>4
  <2> QED
    BY ONLY <2>5 DEF GoesWell
<1>2. CASE UNCHANGED userVars
  <2>1. Configuration' = Configuration /\ prog' = prog
    BY <1>2 DEF Configuration, userVars, screen, digests
  <2>2. Good(prog, Configuration)
    BY DEF GoesWell
  <2>3. Good(prog', Configuration')
    BY ONLY <2>1, <2>2
  <2> QED
    BY ONLY <2>3 DEF GoesWell
<1> QED
  BY <1>1, <1>2

\* A configuration from which all goes well is fine itself.
LEMMA GoesWellNow ==
  GoesWell => NoDanglingUse /\ CleanExit /\ PromptIsTrue
<1> SUFFICES ASSUME GoesWell PROVE NoDanglingUse /\ CleanExit /\ PromptIsTrue
  OBVIOUS
<1> DEFINE k == Configuration
<1>1. /\ k[1] = todo /\ k[2] = held /\ k[3] = painted /\ k[4] = shown /\ k[5][2] = ignored
      /\ k[6] = chain /\ k[7] = failedAt
  BY DEF Configuration
<1>2. Acceptable(prog, k)
  BY GoodUnfold DEF GoesWell
<1> HIDE DEF k
<1>3. todo = <<>> => MayEnd(prog, k)
  BY <1>1, <1>2 DEF Acceptable
<1>4. todo # <<>> => MayExecute(prog, Head(todo), k)
  BY <1>1, <1>2 DEF Acceptable
<1>5. NoDanglingUse
  BY ONLY <1>1, <1>4 DEF NoDanglingUse, MayExecute, What
<1>6. CleanExit
  BY ONLY <1>1, <1>3 DEF CleanExit, MayEnd
<1>7. PromptIsTrue
  BY ONLY <1>1, <1>4 DEF PromptIsTrue, MayExecute, MayTell, Executing, Dropped
<1> QED
  BY ONLY <1>5, <1>6, <1>7

\* In every reachable state all goes well from there on, whichever calls still
\* fail; of this the three invariants are consequences.
THEOREM AllGoesWell == UserSpec => []GoesWell
BY InitGoesWell, NextGoesWell, PTL DEF UserSpec

\* With any number of connectors and planes, whichever calls fail, none of the
\* eight programs uses, or frees without asking, an object it does not have.
THEOREM NothingDangles == UserSpec => []NoDanglingUse
<1>1. GoesWell => NoDanglingUse
  BY GoesWellNow
<1> QED
  BY <1>1, AllGoesWell, PTL

\* Whichever calls fail, whatever has been created is gone when a program ends,
\* except where the code returns at once.
THEOREM ExitsAreClean == UserSpec => []CleanExit
<1>1. GoesWell => CleanExit
  BY GoesWellNow
<1> QED
  BY <1>1, AllGoesWell, PTL

\* Whichever calls fail, looked at or not: atomic and modeset prompt only when
\* the buffer is painted, and when it is on the screen, unless a property was
\* dropped from the atomic commit; hash_chain prints its final digest only for
\* all components, in their order.
THEOREM PromptsAreTrue == UserSpec => []PromptIsTrue
<1>1. GoesWell => PromptIsTrue
  BY GoesWellNow
<1> QED
  BY <1>1, AllGoesWell, PTL
=============================================================================
