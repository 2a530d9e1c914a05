------------------------- MODULE KernelDrivers_proof -------------------------
(***************************************************************************)
(* Proofs about KernelDrivers: for every number of processes, every size   *)
(* of buffer, count and value, whichever of the twelve modules it is and   *)
(* whatever fails in it.                                                   *)
(*                                                                         *)
(*   LifeInv    what is left of an undoing or an unload releases exactly   *)
(*              what is left; a load has what its position says            *)
(*   PeopleInv  who may be there in which phase, and what an unload still  *)
(*              has to do before it may take from them                     *)
(*   CharInv    what an undisturbed read or write sees of the buffer       *)
(*   PanelInv   the flags of the panel are its power and its light         *)
(*                                                                         *)
(* That the twelve life cycles are Disciplined, that three of the drivers  *)
(* admit users only when they cannot fail any more and that those on a bus *)
(* protect them is computed from their texts, one lemma for each.          *)
(***************************************************************************)
EXTENDS KernelDrivers, SequenceTheorems, TLAPS

-----------------------------------------------------------------------------
(***************************************************************************)
(* The buffer of the character devices.                                    *)
(***************************************************************************)

\* A read has copied as many bytes as it has counted, and never too many.
CopyProgress ==
  \A p \in Procs : /\ call[p].done <= call[p].len
                   /\ In(p, "read") => Len(call[p].out) = call[p].done

\* A write that overlaps no other has buffer to itself.
QuietFills ==
  \A p \in Procs :
    In(p, "write") /\ call[p].quiet
      => /\ NoOtherWrites(p)
         /\ \A k \in 1 .. call[p].done : buffer[k] = call[p].val

\* An intact message is in buffer, and buffer_size is its length.
Stored ==
  /\ buffer_size = message.len
  /\ message.intact => \A k \in 1 .. message.len : buffer[k] = message.val

\* While no write overlaps a read, the message is the one it started with.
QuietSees ==
  \A p \in Procs :
    In(p, "read") /\ call[p].quiet
      => /\ \A q \in Procs : ~In(q, "write")
         /\ call[p].len = Minimum(call[p].count, message.len)
         /\ message.intact => \A k \in 1 .. call[p].done : call[p].out[k] = message.val

CharInv == CharTypeOK /\ CopyProgress /\ QuietFills /\ Stored /\ QuietSees

-----------------------------------------------------------------------------
(***************************************************************************)
(* The life cycles.  A load is followed by its position; what it has       *)
(* acquired lies between Sure and Possible, since kthread_run and the like *)
(* may have failed unnoticed and threads return when they please.  Of an   *)
(* unload or an undoing, Undoing says that what is left of it releases     *)
(* exactly what is left.                                                   *)
(***************************************************************************)
Things == {"module", "region", "cdev", "class", "device", "misc", "driver", "dma", "kmem",
           "vmem", "thread1", "thread2", "worker", "completed", "dev", "mode_config",
           "connector", "pipe", "minor", "fbdev", "last_close", "ctx", "panel", "dsi"}
Kinds == {"get", "add", "try", "put", "putif", "wait"}
Simple == [do : Kinds, what : Things, else : {<<>>}]
Instr == [do : Kinds, what : Things, else : Seq(Simple)]

\* What exists before the first instruction.
Base(d) == IF d \in OnABus THEN {} ELSE {"module"}

\* What must and what may exist after n instructions of the load of d.
Sure(d, n) ==
  Base(d) \cup {Load[d][m].what : m \in {m \in 1 .. n : /\ Load[d][m].do \in {"get", "add"}
                                                        /\ Load[d][m].what \notin Threads}}
Possible(d, n) ==
  Base(d) \cup {Load[d][m].what : m \in {m \in 1 .. n : Load[d][m].do \in {"get", "add", "try"}}}

\* prog, begun with at least `must` and at most `may`, releases nothing that is
\* not there, nothing before what was built on it, and leaves nothing.
Undoing(d, prog, must, may) ==
  /\ \A k \in 1 .. Len(prog) :
       /\ prog[k].do \in {"put", "putif", "wait"}
       /\ prog[k].do = "wait" => /\ prog[k].what # "mode_config"
                                 /\ prog[k].what \in may => prog[k].what \in Threads
  /\ \A k \in 1 .. Len(prog) :
       prog[k].do = "put" =>
         /\ prog[k].what \in must
         /\ \A j \in 1 .. k - 1 : prog[k].what \notin Released(prog[j].what)
         /\ \A y \in may \cap AcquiredAfter(d, prog[k].what) :
              \E j \in 1 .. k : y \in Released(prog[j].what)
  /\ \A y \in may : \E k \in 1 .. Len(prog) : y \in Released(prog[k].what)

\* The life cycle of d undoes each failure, and everything in the end.
Disciplined(d) ==
  /\ Load[d] \in Seq(Instr) /\ Unload[d] \in Seq(Instr)
  /\ \A n \in 1 .. Len(Load[d]) : Load[d][n].do \in {"get", "add", "try", "wait"}
  /\ \A n \in 1 .. Len(Load[d]) :
       Load[d][n].do = "get" => Undoing(d, Load[d][n].else, Sure(d, n - 1), Possible(d, n - 1))
  /\ Undoing(d, Unload[d], Sure(d, Len(Load[d])), Possible(d, Len(Load[d])))

\* How far the load has come.
Position == Len(Load[driver]) - Len(todo)

Loaded ==
  /\ Position \in 0 .. Len(Load[driver])
  /\ \A k \in 1 .. Len(todo) : todo[k] = Load[driver][Position + k]
  /\ Sure(driver, Position) \subseteq held
  /\ held \subseteq Possible(driver, Position)

LifeInv ==
  /\ driver \in Drivers
  /\ phase \in {"out", "load", "fail", "in", "unload"}
  /\ todo \in Seq(Instr)
  /\ phase \in {"out", "in"} => todo = <<>>
  /\ phase = "out" => held = {}
  /\ phase \in {"load", "in"} => Loaded
  /\ phase \in {"fail", "unload"} => Undoing(driver, todo, held \ Threads, held)

-----------------------------------------------------------------------------
(***************************************************************************)
(* The users.                                                              *)
(***************************************************************************)

\* The drivers that let users in before the load can no longer fail.
Hasty == {"char_device", "panel_dsi"}

\* Whoever is let in can be served, and the load can no longer fail.
Admits(d) ==
  \A n \in 0 .. Len(Load[d]) :
    Entry[d] \in Possible(d, n)
      => Reach[d] \subseteq Sure(d, n) /\ (n < Len(Load[d]) => Load[d][n + 1].do # "get")

\* Nothing in prog takes away what users reach before it has got rid of them.
Protects(d, prog) ==
  \E k \in 1 .. Len(prog) :
    /\ \/ prog[k].do = "wait" /\ prog[k].what = "last_close"
       \/ prog[k].do = "put" /\ prog[k].what = "dsi"
    /\ \A j \in 1 .. k : Released(prog[j].what) \cap Reach[d] = {}

\* Of the removal of the panel: nothing in prog waits.
NeverWaits(prog) == \A k \in 1 .. Len(prog) : prog[k].do # "wait"

PeopleInv ==
  /\ users \in SUBSET Procs /\ early \in SUBSET users /\ late \in SUBSET users
  /\ late # {} => driver = "panel_dsi"
  /\ users # {} => driver \in DOMAIN Entry
  /\ phase \in {"out", "load", "fail"} /\ driver \in Hasty => users \subseteq early \cup late
  /\ phase \in {"out", "fail"} /\ driver \notin Hasty => users = {}
  /\ phase = "load" /\ driver \notin Hasty /\ users # {} => Entry[driver] \in held
  /\ phase = "fail" /\ driver \in DOMAIN Entry \ Hasty => Entry[driver] \notin held
  /\ phase = "unload" =>
       \/ driver \in OnABus /\ Protects(driver, todo) /\ Reach[driver] \subseteq held
       \/ IF driver = "panel_dsi" THEN users \subseteq late /\ "dsi" \notin held ELSE users = {}
  /\ phase = "unload" /\ driver = "panel_dsi" => NeverWaits(todo)

-----------------------------------------------------------------------------
(***************************************************************************)
(* Every one of the twelve life cycles is disciplined.  XText spells out   *)
(* the two programs of X; XDisciplined computes from them what is certain  *)
(* and possible at each point that may fail, and what comes after what,    *)
(* and with these tables goes through each way out.                        *)
(***************************************************************************)
LEMMA Join11 ==
  ASSUME NEW a, NEW b
  PROVE  <<a>> \o <<b>> = <<a, b>>
<1> DEFINE S == {a, b}
           l == <<a>> \o <<b>>
           r == <<a, b>>
<1>1. <<a>> \in Seq(S) /\ <<b>> \in Seq(S) /\ r \in Seq(S)
  OBVIOUS
<1>2. l \in Seq(S) /\ Len(l) = 2 /\ Len(r) = 2 /\ \A k \in 1 .. 2 : l[k] = r[k]
  BY <1>1
<1> HIDE DEF S, l, r
<1>3. l = r
  BY <1>1, <1>2, SeqEqual
<1> QED
  BY <1>3 DEF l, r

LEMMA Join12 ==
  ASSUME NEW a, NEW b, NEW c
  PROVE  <<a>> \o <<b, c>> = <<a, b, c>>
<1> DEFINE S == {a, b, c}
           l == <<a>> \o <<b, c>>
           r == <<a, b, c>>
<1>1. <<a>> \in Seq(S) /\ <<b, c>> \in Seq(S) /\ r \in Seq(S)
  OBVIOUS
<1>2. l \in Seq(S) /\ Len(l) = 3 /\ Len(r) = 3 /\ \A k \in 1 .. 3 : l[k] = r[k]
  BY <1>1
<1> HIDE DEF S, l, r
<1>3. l = r
  BY <1>1, <1>2, SeqEqual
<1> QED
  BY <1>3 DEF l, r

LEMMA Join21 ==
  ASSUME NEW a, NEW b, NEW c
  PROVE  <<a, b>> \o <<c>> = <<a, b, c>>
<1> DEFINE S == {a, b, c}
           l == <<a, b>> \o <<c>>
           r == <<a, b, c>>
<1>1. <<a, b>> \in Seq(S) /\ <<c>> \in Seq(S) /\ r \in Seq(S)
  OBVIOUS
<1>2. l \in Seq(S) /\ Len(l) = 3 /\ Len(r) = 3 /\ \A k \in 1 .. 3 : l[k] = r[k]
  BY <1>1
<1> HIDE DEF S, l, r
<1>3. l = r
  BY <1>1, <1>2, SeqEqual
<1> QED
  BY <1>3 DEF l, r

LEMMA Join32 ==
  ASSUME NEW a, NEW b, NEW c, NEW d, NEW e
  PROVE  <<a, b, c>> \o <<d, e>> = <<a, b, c, d, e>>
<1> DEFINE S == {a, b, c, d, e}
           l == <<a, b, c>> \o <<d, e>>
           r == <<a, b, c, d, e>>
<1>1. <<a, b, c>> \in Seq(S) /\ <<d, e>> \in Seq(S) /\ r \in Seq(S)
  OBVIOUS
<1>2. l \in Seq(S) /\ Len(l) = 5 /\ Len(r) = 5 /\ \A k \in 1 .. 5 : l[k] = r[k]
  BY <1>1
<1> HIDE DEF S, l, r
<1>3. l = r
  BY <1>1, <1>2, SeqEqual
<1> QED
  BY <1>3 DEF l, r

LEMMA Join41 ==
  ASSUME NEW a, NEW b, NEW c, NEW d, NEW e
  PROVE  <<a, b, c, d>> \o <<e>> = <<a, b, c, d, e>>
<1> DEFINE S == {a, b, c, d, e}
           l == <<a, b, c, d>> \o <<e>>
           r == <<a, b, c, d, e>>
<1>1. <<a, b, c, d>> \in Seq(S) /\ <<e>> \in Seq(S) /\ r \in Seq(S)
  OBVIOUS
<1>2. l \in Seq(S) /\ Len(l) = 5 /\ Len(r) = 5 /\ \A k \in 1 .. 5 : l[k] = r[k]
  BY <1>1
<1> HIDE DEF S, l, r
<1>3. l = r
  BY <1>1, <1>2, SeqEqual
<1> QED
  BY <1>3 DEF l, r

LEMMA SimpleInstr == Simple \subseteq Instr
<1>1. {<<>>} \subseteq Seq(Simple)
  OBVIOUS
<1> QED
  BY <1>1 DEF Simple, Instr

LEMMA CharDeviceText ==
  /\ Load["char_device"] = <<Get("region", <<Put("module")>>),
                             Get("cdev", <<Put("region"), Put("module")>>),
                             Get("class", <<Put("cdev"), Put("region"), Put("module")>>),
                             Try("device")>>
  /\ Unload["char_device"] = <<PutIf("device"), Put("class"), Put("cdev"), Put("region"),
                               Put("module")>>
<1>1. Load["char_device"] = <<Get("region", <<Put("module")>>),
                             Get("cdev", <<Put("region"), Put("module")>>),
                             Get("class", <<Put("cdev"), Put("region"), Put("module")>>),
                             Try("device")>>
  BY Join11, Join12, Join41 DEF Load, char_init, err_class, err_cdev, free_module
<1>2. Unload["char_device"] = <<PutIf("device"), Put("class"), Put("cdev"), Put("region"),
                                Put("module")>>
  BY Join11, Join12, Join41 DEF Unload, char_exit, free_module
<1> QED
  BY <1>1, <1>2

LEMMA CharDeviceDisciplined == Disciplined("char_device")
<1> DEFINE d == "char_device"
<1>1. /\ Put("module") \in Simple
      /\ Put("region") \in Simple
      /\ Put("cdev") \in Simple
      /\ PutIf("device") \in Simple
      /\ Put("class") \in Simple
  BY DEF Simple, Kinds, Things, Put, PutIf
<1>2. /\ <<Put("module")>> \in Seq(Simple)
      /\ <<Put("region"), Put("module")>> \in Seq(Simple)
      /\ <<Put("cdev"), Put("region"), Put("module")>> \in Seq(Simple)
  BY <1>1
<1>3. /\ Get("region", <<Put("module")>>) \in Instr
      /\ Get("cdev", <<Put("region"), Put("module")>>) \in Instr
      /\ Get("class", <<Put("cdev"), Put("region"), Put("module")>>) \in Instr
      /\ Try("device") \in Instr
  BY <1>2 DEF Instr, Kinds, Things, Get, Try
<1>4. Load[d] \in Seq(Instr) /\ Unload[d] \in Seq(Instr)
  BY CharDeviceText, <1>1, <1>3, SimpleInstr
<1>5. Len(Load[d]) = 4 /\ \A n \in 1 .. 4 : Load[d][n].do \in {"get", "add", "try", "wait"}
  BY CharDeviceText DEF Get, Try
<1>6. /\ DOMAIN Load[d] = 1 .. 4
      /\ Load[d][1].do = "get" /\ Load[d][1].what = "region"
      /\ Load[d][2].do = "get" /\ Load[d][2].what = "cdev"
      /\ Load[d][3].do = "get" /\ Load[d][3].what = "class"
      /\ Load[d][4].do = "try" /\ Load[d][4].what = "device"
  BY CharDeviceText DEF Get, Try
<1>7. /\ Sure(d, 0) = {"module"}
      /\ Possible(d, 0) = {"module"}
  BY DEF Sure, Possible, Base, OnABus
<1>8. /\ Sure(d, 1) = {"module", "region"}
      /\ Possible(d, 1) = {"module", "region"}
  BY <1>6 DEF Sure, Possible, Base, OnABus, Threads
<1>9. /\ Sure(d, 2) = {"module", "region", "cdev"}
      /\ Possible(d, 2) = {"module", "region", "cdev"}
  BY <1>6 DEF Sure, Possible, Base, OnABus, Threads
<1>10. /\ Sure(d, 4) = {"module", "region", "cdev", "class"}
       /\ Possible(d, 4) = {"module", "region", "cdev", "class", "device"}
  BY <1>6 DEF Sure, Possible, Base, OnABus, Threads
<1>11. AcquiredAfter(d, "module") = {"region", "cdev", "class", "device"}
  BY <1>6 DEF AcquiredAfter
<1>12. AcquiredAfter(d, "region") = {"cdev", "class", "device"}
  BY <1>6 DEF AcquiredAfter
<1>13. AcquiredAfter(d, "cdev") = {"class", "device"}
  BY <1>6 DEF AcquiredAfter
<1>14. AcquiredAfter(d, "class") = {"device"}
  BY <1>6 DEF AcquiredAfter
<1>15. Undoing(d, <<Put("module")>>, {"module"}, {"module"})
  BY <1>11, <1>12, <1>13, <1>14 DEF Undoing, Released, Put
<1>16. Undoing(d, <<Put("region"), Put("module")>>,
               {"module", "region"},
               {"module", "region"})
  BY <1>11, <1>12, <1>13, <1>14 DEF Undoing, Released, Put
<1>17. Undoing(d, <<Put("cdev"), Put("region"), Put("module")>>,
               {"module", "region", "cdev"},
               {"module", "region", "cdev"})
  BY <1>11, <1>12, <1>13, <1>14 DEF Undoing, Released, Put
<1>18. Undoing(d, Unload[d],
               {"module", "region", "cdev", "class"},
               {"module", "region", "cdev", "class", "device"})
  BY CharDeviceText, <1>11, <1>12, <1>13, <1>14 DEF Undoing, Released, Put, PutIf
<1>19. /\ Load[d][1].else = <<Put("module")>>
       /\ Load[d][2].else = <<Put("region"), Put("module")>>
       /\ Load[d][3].else = <<Put("cdev"), Put("region"), Put("module")>>
       /\ Load[d][4].do = "try"
  BY CharDeviceText DEF Get, Try
<1> HIDE DEF d
<1>20. ASSUME NEW n \in 1 .. Len(Load[d]), Load[d][n].do = "get"
      PROVE  Undoing(d, Load[d][n].else, Sure(d, n - 1), Possible(d, n - 1))
  <2>1. CASE n = 1
    <3>1. n - 1 = 0
      BY <2>1
    <3> QED
      BY <2>1, <3>1, <1>7, <1>15, <1>19
  <2>2. CASE n = 2
    <3>1. n - 1 = 1
      BY <2>2
    <3> QED
      BY <2>2, <3>1, <1>8, <1>16, <1>19
  <2>3. CASE n = 3
    <3>1. n - 1 = 2
      BY <2>3
    <3> QED
      BY <2>3, <3>1, <1>9, <1>17, <1>19
  <2>4. CASE n = 4
    BY <1>20, <2>4, <1>19
  <2> QED
    BY <1>5, <2>1, <2>2, <2>3, <2>4
<1>21. Disciplined(d)
  BY <1>4, <1>5, <1>10, <1>18, <1>20 DEF Disciplined
<1> QED
  BY <1>21 DEF d

LEMMA MiscDeviceText ==
  /\ Load["misc_device"] = <<Get("misc", <<Put("module")>>)>>
  /\ Unload["misc_device"] = <<Put("misc"), Put("module")>>
<1>1. Load["misc_device"] = <<Get("misc", <<Put("module")>>)>>
  BY DEF Load, misc_init, free_module
<1>2. Unload["misc_device"] = <<Put("misc"), Put("module")>>
  BY Join11 DEF Unload, misc_exit, free_module
<1> QED
  BY <1>1, <1>2

LEMMA MiscDeviceDisciplined == Disciplined("misc_device")
<1> DEFINE d == "misc_device"
<1>1. /\ Put("module") \in Simple
      /\ Put("misc") \in Simple
  BY DEF Simple, Kinds, Things, Put
<1>2. <<Put("module")>> \in Seq(Simple)
  BY <1>1
<1>3. Get("misc", <<Put("module")>>) \in Instr
  BY <1>2 DEF Instr, Kinds, Things, Get
<1>4. Load[d] \in Seq(Instr) /\ Unload[d] \in Seq(Instr)
  BY MiscDeviceText, <1>1, <1>3, SimpleInstr
<1>5. Len(Load[d]) = 1 /\ \A n \in 1 .. 1 : Load[d][n].do \in {"get", "add", "try", "wait"}
  BY MiscDeviceText DEF Get
<1>6. /\ DOMAIN Load[d] = 1 .. 1
      /\ Load[d][1].do = "get" /\ Load[d][1].what = "misc"
  BY MiscDeviceText DEF Get
<1>7. /\ Sure(d, 0) = {"module"}
      /\ Possible(d, 0) = {"module"}
  BY DEF Sure, Possible, Base, OnABus
<1>8. /\ Sure(d, 1) = {"module", "misc"}
      /\ Possible(d, 1) = {"module", "misc"}
  BY <1>6 DEF Sure, Possible, Base, OnABus, Threads
<1>9. /\ AcquiredAfter(d, "module") = {"misc"}
      /\ AcquiredAfter(d, "misc") = {}
  BY <1>6 DEF AcquiredAfter
<1>10. Undoing(d, <<Put("module")>>, {"module"}, {"module"})
  BY <1>9 DEF Undoing, Released, Put
<1>11. Undoing(d, Unload[d], {"module", "misc"}, {"module", "misc"})
  BY MiscDeviceText, <1>9 DEF Undoing, Released, Put
<1>12. Load[d][1].else = <<Put("module")>>
  BY MiscDeviceText DEF Get
<1> HIDE DEF d
<1>13. ASSUME NEW n \in 1 .. Len(Load[d]), Load[d][n].do = "get"
      PROVE  Undoing(d, Load[d][n].else, Sure(d, n - 1), Possible(d, n - 1))
  <2>1. CASE n = 1
    <3>1. n - 1 = 0
      BY <2>1
    <3> QED
      BY <2>1, <3>1, <1>7, <1>10, <1>12
  <2> QED
    BY <1>5, <2>1
<1>14. Disciplined(d)
  BY <1>4, <1>5, <1>8, <1>11, <1>13 DEF Disciplined
<1> QED
  BY <1>14 DEF d

LEMMA HelloModuleText ==
  /\ Load["hello_module"] = <<>>
  /\ Unload["hello_module"] = <<Put("module")>>
  BY DEF Load, Unload, free_module

LEMMA HelloModuleDisciplined == Disciplined("hello_module")
<1> DEFINE d == "hello_module"
<1>1. Put("module") \in Simple
  BY DEF Simple, Kinds, Things, Put
<1>2. Load[d] \in Seq(Instr) /\ Unload[d] \in Seq(Instr)
  BY HelloModuleText, <1>1, SimpleInstr
<1>3. Len(Load[d]) = 0 /\ 1 .. Len(Load[d]) = {}
  BY HelloModuleText
<1>4. /\ Sure(d, 0) = {"module"}
      /\ Possible(d, 0) = {"module"}
  BY DEF Sure, Possible, Base, OnABus
<1>5. AcquiredAfter(d, "module") = {}
  BY HelloModuleText DEF AcquiredAfter
<1>6. Undoing(d, Unload[d], {"module"}, {"module"})
  BY HelloModuleText, <1>5 DEF Undoing, Released, Put
<1> HIDE DEF d
<1>7. ASSUME NEW n \in 1 .. Len(Load[d]), Load[d][n].do = "get"
      PROVE  Undoing(d, Load[d][n].else, Sure(d, n - 1), Possible(d, n - 1))
  BY <1>3
<1>8. Disciplined(d)
  BY <1>2, <1>3, <1>4, <1>6, <1>7 DEF Disciplined
<1> QED
  BY <1>8 DEF d

LEMMA PlatformDriverText ==
  /\ Load["platform_driver"] = <<Get("driver", <<Put("module")>>)>>
  /\ Unload["platform_driver"] = <<Put("driver"), Put("module")>>
<1>1. Load["platform_driver"] = <<Get("driver", <<Put("module")>>)>>
  BY DEF Load, platform_init, free_module
<1>2. Unload["platform_driver"] = <<Put("driver"), Put("module")>>
  BY Join11 DEF Unload, platform_exit, free_module
<1> QED
  BY <1>1, <1>2

LEMMA PlatformDriverDisciplined == Disciplined("platform_driver")
<1> DEFINE d == "platform_driver"
<1>1. /\ Put("module") \in Simple
      /\ Put("driver") \in Simple
  BY DEF Simple, Kinds, Things, Put
<1>2. <<Put("module")>> \in Seq(Simple)
  BY <1>1
<1>3. Get("driver", <<Put("module")>>) \in Instr
  BY <1>2 DEF Instr, Kinds, Things, Get
<1>4. Load[d] \in Seq(Instr) /\ Unload[d] \in Seq(Instr)
  BY PlatformDriverText, <1>1, <1>3, SimpleInstr
<1>5. Len(Load[d]) = 1 /\ \A n \in 1 .. 1 : Load[d][n].do \in {"get", "add", "try", "wait"}
  BY PlatformDriverText DEF Get
<1>6. /\ DOMAIN Load[d] = 1 .. 1
      /\ Load[d][1].do = "get" /\ Load[d][1].what = "driver"
  BY PlatformDriverText DEF Get
<1>7. /\ Sure(d, 0) = {"module"}
      /\ Possible(d, 0) = {"module"}
  BY DEF Sure, Possible, Base, OnABus
<1>8. /\ Sure(d, 1) = {"module", "driver"}
      /\ Possible(d, 1) = {"module", "driver"}
  BY <1>6 DEF Sure, Possible, Base, OnABus, Threads
<1>9. /\ AcquiredAfter(d, "module") = {"driver"}
      /\ AcquiredAfter(d, "driver") = {}
  BY <1>6 DEF AcquiredAfter
<1>10. Undoing(d, <<Put("module")>>, {"module"}, {"module"})
  BY <1>9 DEF Undoing, Released, Put
<1>11. Undoing(d, Unload[d], {"module", "driver"}, {"module", "driver"})
  BY PlatformDriverText, <1>9 DEF Undoing, Released, Put
<1>12. Load[d][1].else = <<Put("module")>>
  BY PlatformDriverText DEF Get
<1> HIDE DEF d
<1>13. ASSUME NEW n \in 1 .. Len(Load[d]), Load[d][n].do = "get"
      PROVE  Undoing(d, Load[d][n].else, Sure(d, n - 1), Possible(d, n - 1))
  <2>1. CASE n = 1
    <3>1. n - 1 = 0
      BY <2>1
    <3> QED
      BY <2>1, <3>1, <1>7, <1>10, <1>12
  <2> QED
    BY <1>5, <2>1
<1>14. Disciplined(d)
  BY <1>4, <1>5, <1>8, <1>11, <1>13 DEF Disciplined
<1> QED
  BY <1>14 DEF d

LEMMA DmaAllocText ==
  /\ Load["dma_alloc"] = <<Get("dma", <<Put("module")>>)>>
  /\ Unload["dma_alloc"] = <<Put("dma"), Put("module")>>
<1>1. Load["dma_alloc"] = <<Get("dma", <<Put("module")>>)>>
  BY DEF Load, dma_init, free_module
<1>2. Unload["dma_alloc"] = <<Put("dma"), Put("module")>>
  BY Join11 DEF Unload, dma_exit, free_module
<1> QED
  BY <1>1, <1>2

LEMMA DmaAllocDisciplined == Disciplined("dma_alloc")
<1> DEFINE d == "dma_alloc"
<1>1. /\ Put("module") \in Simple
      /\ Put("dma") \in Simple
  BY DEF Simple, Kinds, Things, Put
<1>2. <<Put("module")>> \in Seq(Simple)
  BY <1>1
<1>3. Get("dma", <<Put("module")>>) \in Instr
  BY <1>2 DEF Instr, Kinds, Things, Get
<1>4. Load[d] \in Seq(Instr) /\ Unload[d] \in Seq(Instr)
  BY DmaAllocText, <1>1, <1>3, SimpleInstr
<1>5. Len(Load[d]) = 1 /\ \A n \in 1 .. 1 : Load[d][n].do \in {"get", "add", "try", "wait"}
  BY DmaAllocText DEF Get
<1>6. /\ DOMAIN Load[d] = 1 .. 1
      /\ Load[d][1].do = "get" /\ Load[d][1].what = "dma"
  BY DmaAllocText DEF Get
<1>7. /\ Sure(d, 0) = {"module"}
      /\ Possible(d, 0) = {"module"}
  BY DEF Sure, Possible, Base, OnABus
<1>8. /\ Sure(d, 1) = {"module", "dma"}
      /\ Possible(d, 1) = {"module", "dma"}
  BY <1>6 DEF Sure, Possible, Base, OnABus, Threads
<1>9. /\ AcquiredAfter(d, "module") = {"dma"}
      /\ AcquiredAfter(d, "dma") = {}
  BY <1>6 DEF AcquiredAfter
<1>10. Undoing(d, <<Put("module")>>, {"module"}, {"module"})
  BY <1>9 DEF Undoing, Released, Put
<1>11. Undoing(d, Unload[d], {"module", "dma"}, {"module", "dma"})
  BY DmaAllocText, <1>9 DEF Undoing, Released, Put
<1>12. Load[d][1].else = <<Put("module")>>
  BY DmaAllocText DEF Get
<1> HIDE DEF d
<1>13. ASSUME NEW n \in 1 .. Len(Load[d]), Load[d][n].do = "get"
      PROVE  Undoing(d, Load[d][n].else, Sure(d, n - 1), Possible(d, n - 1))
  <2>1. CASE n = 1
    <3>1. n - 1 = 0
      BY <2>1
    <3> QED
      BY <2>1, <3>1, <1>7, <1>10, <1>12
  <2> QED
    BY <1>5, <2>1
<1>14. Disciplined(d)
  BY <1>4, <1>5, <1>8, <1>11, <1>13 DEF Disciplined
<1> QED
  BY <1>14 DEF d

LEMMA MemAllocText ==
  /\ Load["mem_alloc"] = <<Get("kmem", <<Put("module")>>),
                           Get("vmem", <<Put("kmem"), Put("module")>>)>>
  /\ Unload["mem_alloc"] = <<Put("vmem"), Put("kmem"), Put("module")>>
<1>1. Load["mem_alloc"] = <<Get("kmem", <<Put("module")>>),
                           Get("vmem", <<Put("kmem"), Put("module")>>)>>
  BY Join11, Join21 DEF Load, mem_init, free_module
<1>2. Unload["mem_alloc"] = <<Put("vmem"), Put("kmem"), Put("module")>>
  BY Join11, Join21 DEF Unload, mem_exit, free_module
<1> QED
  BY <1>1, <1>2

LEMMA MemAllocDisciplined == Disciplined("mem_alloc")
<1> DEFINE d == "mem_alloc"
<1>1. /\ Put("module") \in Simple
      /\ Put("kmem") \in Simple
      /\ Put("vmem") \in Simple
  BY DEF Simple, Kinds, Things, Put
<1>2. /\ <<Put("module")>> \in Seq(Simple)
      /\ <<Put("kmem"), Put("module")>> \in Seq(Simple)
  BY <1>1
<1>3. /\ Get("kmem", <<Put("module")>>) \in Instr
      /\ Get("vmem", <<Put("kmem"), Put("module")>>) \in Instr
  BY <1>2 DEF Instr, Kinds, Things, Get
<1>4. Load[d] \in Seq(Instr) /\ Unload[d] \in Seq(Instr)
  BY MemAllocText, <1>1, <1>3, SimpleInstr
<1>5. Len(Load[d]) = 2 /\ \A n \in 1 .. 2 : Load[d][n].do \in {"get", "add", "try", "wait"}
  BY MemAllocText DEF Get
<1>6. /\ DOMAIN Load[d] = 1 .. 2
      /\ Load[d][1].do = "get" /\ Load[d][1].what = "kmem"
      /\ Load[d][2].do = "get" /\ Load[d][2].what = "vmem"
  BY MemAllocText DEF Get
<1>7. /\ Sure(d, 0) = {"module"}
      /\ Possible(d, 0) = {"module"}
  BY DEF Sure, Possible, Base, OnABus
<1>8. /\ Sure(d, 1) = {"module", "kmem"}
      /\ Possible(d, 1) = {"module", "kmem"}
  BY <1>6 DEF Sure, Possible, Base, OnABus, Threads
<1>9. /\ Sure(d, 2) = {"module", "kmem", "vmem"}
      /\ Possible(d, 2) = {"module", "kmem", "vmem"}
  BY <1>6 DEF Sure, Possible, Base, OnABus, Threads
<1>10. AcquiredAfter(d, "module") = {"kmem", "vmem"}
  BY <1>6 DEF AcquiredAfter
<1>11. AcquiredAfter(d, "kmem") = {"vmem"}
  BY <1>6 DEF AcquiredAfter
<1>12. AcquiredAfter(d, "vmem") = {}
  BY <1>6 DEF AcquiredAfter
<1>13. Undoing(d, <<Put("module")>>, {"module"}, {"module"})
  BY <1>10, <1>11, <1>12 DEF Undoing, Released, Put
<1>14. Undoing(d, <<Put("kmem"), Put("module")>>, {"module", "kmem"}, {"module", "kmem"})
  BY <1>10, <1>11, <1>12 DEF Undoing, Released, Put
<1>15. Undoing(d, Unload[d], {"module", "kmem", "vmem"}, {"module", "kmem", "vmem"})
  BY MemAllocText, <1>10, <1>11, <1>12 DEF Undoing, Released, Put
<1>16. /\ Load[d][1].else = <<Put("module")>>
       /\ Load[d][2].else = <<Put("kmem"), Put("module")>>
  BY MemAllocText DEF Get
<1> HIDE DEF d
<1>17. ASSUME NEW n \in 1 .. Len(Load[d]), Load[d][n].do = "get"
      PROVE  Undoing(d, Load[d][n].else, Sure(d, n - 1), Possible(d, n - 1))
  <2>1. CASE n = 1
    <3>1. n - 1 = 0
      BY <2>1
    <3> QED
      BY <2>1, <3>1, <1>7, <1>13, <1>16
  <2>2. CASE n = 2
    <3>1. n - 1 = 1
      BY <2>2
    <3> QED
      BY <2>2, <3>1, <1>8, <1>14, <1>16
  <2> QED
    BY <1>5, <2>1, <2>2
<1>18. Disciplined(d)
  BY <1>4, <1>5, <1>9, <1>15, <1>17 DEF Disciplined
<1> QED
  BY <1>18 DEF d

LEMMA MutexExampleText ==
  /\ Load["mutex_example"] = <<Try("thread1"),
                               Try("thread2")>>
  /\ Unload["mutex_example"] = <<Wait("thread1"), Wait("thread2"), Put("module")>>
<1>1. Load["mutex_example"] = <<Try("thread1"),
                               Try("thread2")>>
  BY DEF Load, mutex_init
<1>2. Unload["mutex_example"] = <<Wait("thread1"), Wait("thread2"), Put("module")>>
  BY Join21 DEF Unload, mutex_exit, free_module
<1> QED
  BY <1>1, <1>2

LEMMA MutexExampleDisciplined == Disciplined("mutex_example")
<1> DEFINE d == "mutex_example"
<1>1. /\ Wait("thread1") \in Simple
      /\ Wait("thread2") \in Simple
      /\ Put("module") \in Simple
  BY DEF Simple, Kinds, Things, Put, Wait
<1>2. /\ Try("thread1") \in Instr
      /\ Try("thread2") \in Instr
  BY DEF Instr, Kinds, Things, Try
<1>3. Load[d] \in Seq(Instr) /\ Unload[d] \in Seq(Instr)
  BY MutexExampleText, <1>1, <1>2, SimpleInstr
<1>4. Len(Load[d]) = 2 /\ \A n \in 1 .. 2 : Load[d][n].do \in {"get", "add", "try", "wait"}
  BY MutexExampleText DEF Try
<1>5. /\ DOMAIN Load[d] = 1 .. 2
      /\ Load[d][1].do = "try" /\ Load[d][1].what = "thread1"
      /\ Load[d][2].do = "try" /\ Load[d][2].what = "thread2"
  BY MutexExampleText DEF Try
<1>6. /\ Sure(d, 2) = {"module"}
      /\ Possible(d, 2) = {"module", "thread1", "thread2"}
  BY <1>5 DEF Sure, Possible, Base, OnABus, Threads
<1>7. AcquiredAfter(d, "module") = {"thread1", "thread2"}
  BY <1>5 DEF AcquiredAfter
<1>8. Undoing(d, Unload[d], {"module"}, {"module", "thread1", "thread2"})
  BY MutexExampleText, <1>7 DEF Undoing, Released, Put, Wait, Threads
<1>9. /\ Load[d][1].do = "try"
      /\ Load[d][2].do = "try"
  BY MutexExampleText DEF Try
<1> HIDE DEF d
<1>10. ASSUME NEW n \in 1 .. Len(Load[d]), Load[d][n].do = "get"
      PROVE  Undoing(d, Load[d][n].else, Sure(d, n - 1), Possible(d, n - 1))
  <2>1. CASE n = 1
    BY <1>10, <2>1, <1>9
  <2>2. CASE n = 2
    BY <1>10, <2>2, <1>9
  <2> QED
    BY <1>4, <2>1, <2>2
<1>11. Disciplined(d)
  BY <1>3, <1>4, <1>6, <1>8, <1>10 DEF Disciplined
<1> QED
  BY <1>11 DEF d

LEMMA CompletionExampleText ==
  /\ Load["completion_example"] = <<Get("worker", <<Put("module")>>),
                                    Wait("completed")>>
  /\ Unload["completion_example"] = <<Wait("worker"), Put("module")>>
<1>1. Load["completion_example"] = <<Get("worker", <<Put("module")>>),
                                    Wait("completed")>>
  BY DEF Load, completion_init, free_module
<1>2. Unload["completion_example"] = <<Wait("worker"), Put("module")>>
  BY Join11 DEF Unload, completion_exit, free_module
<1> QED
  BY <1>1, <1>2

LEMMA CompletionExampleDisciplined == Disciplined("completion_example")
<1> DEFINE d == "completion_example"
<1>1. /\ Put("module") \in Simple
      /\ Wait("worker") \in Simple
  BY DEF Simple, Kinds, Things, Put, Wait
<1>2. <<Put("module")>> \in Seq(Simple)
  BY <1>1
<1>3. /\ Get("worker", <<Put("module")>>) \in Instr
      /\ Wait("completed") \in Instr
  BY <1>2 DEF Instr, Kinds, Things, Get, Wait
<1>4. Load[d] \in Seq(Instr) /\ Unload[d] \in Seq(Instr)
  BY CompletionExampleText, <1>1, <1>3, SimpleInstr
<1>5. Len(Load[d]) = 2 /\ \A n \in 1 .. 2 : Load[d][n].do \in {"get", "add", "try", "wait"}
  BY CompletionExampleText DEF Get, Wait
<1>6. /\ DOMAIN Load[d] = 1 .. 2
      /\ Load[d][1].do = "get" /\ Load[d][1].what = "worker"
      /\ Load[d][2].do = "wait" /\ Load[d][2].what = "completed"
  BY CompletionExampleText DEF Get, Wait
<1>7. /\ Sure(d, 0) = {"module"}
      /\ Possible(d, 0) = {"module"}
  BY DEF Sure, Possible, Base, OnABus
<1>8. /\ Sure(d, 2) = {"module"}
      /\ Possible(d, 2) = {"module", "worker"}
  BY <1>6 DEF Sure, Possible, Base, OnABus, Threads
<1>9. AcquiredAfter(d, "module") = {"worker", "completed"}
  BY <1>6 DEF AcquiredAfter
<1>10. Undoing(d, <<Put("module")>>, {"module"}, {"module"})
  BY <1>9 DEF Undoing, Released, Put
<1>11. Undoing(d, Unload[d], {"module"}, {"module", "worker"})
  BY CompletionExampleText, <1>9 DEF Undoing, Released, Put, Wait, Threads
<1>12. /\ Load[d][1].else = <<Put("module")>>
       /\ Load[d][2].do = "wait"
  BY CompletionExampleText DEF Get, Wait
<1> HIDE DEF d
<1>13. ASSUME NEW n \in 1 .. Len(Load[d]), Load[d][n].do = "get"
      PROVE  Undoing(d, Load[d][n].else, Sure(d, n - 1), Possible(d, n - 1))
  <2>1. CASE n = 1
    <3>1. n - 1 = 0
      BY <2>1
    <3> QED
      BY <2>1, <3>1, <1>7, <1>10, <1>12
  <2>2. CASE n = 2
    BY <1>13, <2>2, <1>12
  <2> QED
    BY <1>5, <2>1, <2>2
<1>14. Disciplined(d)
  BY <1>4, <1>5, <1>8, <1>11, <1>13 DEF Disciplined
<1> QED
  BY <1>14 DEF d

LEMMA SpinlockExampleText ==
  /\ Load["spinlock_example"] = <<>>
  /\ Unload["spinlock_example"] = <<Put("module")>>
  BY DEF Load, Unload, free_module

LEMMA SpinlockExampleDisciplined == Disciplined("spinlock_example")
<1> DEFINE d == "spinlock_example"
<1>1. Put("module") \in Simple
  BY DEF Simple, Kinds, Things, Put
<1>2. Load[d] \in Seq(Instr) /\ Unload[d] \in Seq(Instr)
  BY SpinlockExampleText, <1>1, SimpleInstr
<1>3. Len(Load[d]) = 0 /\ 1 .. Len(Load[d]) = {}
  BY SpinlockExampleText
<1>4. /\ Sure(d, 0) = {"module"}
      /\ Possible(d, 0) = {"module"}
  BY DEF Sure, Possible, Base, OnABus
<1>5. AcquiredAfter(d, "module") = {}
  BY SpinlockExampleText DEF AcquiredAfter
<1>6. Undoing(d, Unload[d], {"module"}, {"module"})
  BY SpinlockExampleText, <1>5 DEF Undoing, Released, Put
<1> HIDE DEF d
<1>7. ASSUME NEW n \in 1 .. Len(Load[d]), Load[d][n].do = "get"
      PROVE  Undoing(d, Load[d][n].else, Sure(d, n - 1), Possible(d, n - 1))
  BY <1>3
<1>8. Disciplined(d)
  BY <1>2, <1>3, <1>4, <1>6, <1>7 DEF Disciplined
<1> QED
  BY <1>8 DEF d

LEMMA GemShmemText ==
  /\ Load["gem_shmem"] = <<Get("dev", <<>>),
                           Get("minor", <<Put("dev")>>)>>
  /\ Unload["gem_shmem"] = <<Put("minor"), Wait("last_close"), Put("dev")>>
<1>1. Load["gem_shmem"] = <<Get("dev", <<>>),
                           Get("minor", <<Put("dev")>>)>>
  BY DEF Load, gem_probe, drm_release
<1>2. Unload["gem_shmem"] = <<Put("minor"), Wait("last_close"), Put("dev")>>
  BY Join21 DEF Unload, gem_remove, drm_release
<1> QED
  BY <1>1, <1>2

LEMMA GemShmemDisciplined == Disciplined("gem_shmem")
<1> DEFINE d == "gem_shmem"
<1>1. /\ Put("dev") \in Simple
      /\ Put("minor") \in Simple
      /\ Wait("last_close") \in Simple
  BY DEF Simple, Kinds, Things, Put, Wait
<1>2. /\ <<>> \in Seq(Simple)
      /\ <<Put("dev")>> \in Seq(Simple)
  BY <1>1
<1>3. /\ Get("dev", <<>>) \in Instr
      /\ Get("minor", <<Put("dev")>>) \in Instr
  BY <1>2 DEF Instr, Kinds, Things, Get
<1>4. Load[d] \in Seq(Instr) /\ Unload[d] \in Seq(Instr)
  BY GemShmemText, <1>1, <1>3, SimpleInstr
<1>5. Len(Load[d]) = 2 /\ \A n \in 1 .. 2 : Load[d][n].do \in {"get", "add", "try", "wait"}
  BY GemShmemText DEF Get
<1>6. /\ DOMAIN Load[d] = 1 .. 2
      /\ Load[d][1].do = "get" /\ Load[d][1].what = "dev"
      /\ Load[d][2].do = "get" /\ Load[d][2].what = "minor"
  BY GemShmemText DEF Get
<1>7. /\ Sure(d, 0) = {}
      /\ Possible(d, 0) = {}
  BY DEF Sure, Possible, Base, OnABus
<1>8. /\ Sure(d, 1) = {"dev"}
      /\ Possible(d, 1) = {"dev"}
  BY <1>6 DEF Sure, Possible, Base, OnABus, Threads
<1>9. /\ Sure(d, 2) = {"dev", "minor"}
      /\ Possible(d, 2) = {"dev", "minor"}
  BY <1>6 DEF Sure, Possible, Base, OnABus, Threads
<1>10. AcquiredAfter(d, "dev") = {"minor"}
  BY <1>6 DEF AcquiredAfter
<1>11. AcquiredAfter(d, "minor") = {}
  BY <1>6 DEF AcquiredAfter
<1>12. Undoing(d, <<>>, {}, {})
  BY <1>10, <1>11 DEF Undoing, Released
<1>13. Undoing(d, <<Put("dev")>>, {"dev"}, {"dev"})
  BY <1>10, <1>11 DEF Undoing, Released, Put
<1>14. Undoing(d, Unload[d], {"dev", "minor"}, {"dev", "minor"})
  BY GemShmemText, <1>10, <1>11 DEF Undoing, Released, Put, Wait, Threads
<1>15. /\ Load[d][1].else = <<>>
       /\ Load[d][2].else = <<Put("dev")>>
  BY GemShmemText DEF Get
<1> HIDE DEF d
<1>16. ASSUME NEW n \in 1 .. Len(Load[d]), Load[d][n].do = "get"
      PROVE  Undoing(d, Load[d][n].else, Sure(d, n - 1), Possible(d, n - 1))
  <2>1. CASE n = 1
    <3>1. n - 1 = 0
      BY <2>1
    <3> QED
      BY <2>1, <3>1, <1>7, <1>12, <1>15
  <2>2. CASE n = 2
    <3>1. n - 1 = 1
      BY <2>2
    <3> QED
      BY <2>2, <3>1, <1>8, <1>13, <1>15
  <2> QED
    BY <1>5, <2>1, <2>2
<1>17. Disciplined(d)
  BY <1>4, <1>5, <1>9, <1>14, <1>16 DEF Disciplined
<1> QED
  BY <1>17 DEF d

LEMMA SimpleKmsText ==
  /\ Load["simple_kms"] = <<Get("dev", <<>>),
                            Get("mode_config", <<Put("dev")>>),
                            Get("connector", <<Put("mode_config"), Put("dev")>>),
                            Get("pipe", <<Put("mode_config"), Put("dev")>>),
                            Get("minor", <<Put("mode_config"), Put("dev")>>),
                            Try("fbdev")>>
  /\ Unload["simple_kms"] = <<PutIf("fbdev"), Put("minor"), Wait("last_close"),
                              Put("mode_config"), Put("dev")>>
<1>1. Load["simple_kms"] = <<Get("dev", <<>>),
                            Get("mode_config", <<Put("dev")>>),
                            Get("connector", <<Put("mode_config"), Put("dev")>>),
                            Get("pipe", <<Put("mode_config"), Put("dev")>>),
                            Get("minor", <<Put("mode_config"), Put("dev")>>),
                            Try("fbdev")>>
  BY Join11, Join32 DEF Load, kms_probe, drm_release, drm_mode_config_release
<1>2. drm_mode_config_release = <<Put("mode_config"), Put("dev")>>
  BY Join11 DEF drm_mode_config_release, drm_release
<1>3. Unload["simple_kms"] = <<PutIf("fbdev"), Put("minor"), Wait("last_close"),
                               Put("mode_config"), Put("dev")>>
  BY <1>2, Join32 DEF Unload, kms_remove
<1> QED
  BY <1>1, <1>3

LEMMA SimpleKmsDisciplined == Disciplined("simple_kms")
<1> DEFINE d == "simple_kms"
<1>1. /\ Put("dev") \in Simple
      /\ Put("mode_config") \in Simple
      /\ PutIf("fbdev") \in Simple
      /\ Put("minor") \in Simple
      /\ Wait("last_close") \in Simple
  BY DEF Simple, Kinds, Things, Put, PutIf, Wait
<1>2. /\ <<>> \in Seq(Simple)
      /\ <<Put("dev")>> \in Seq(Simple)
      /\ <<Put("mode_config"), Put("dev")>> \in Seq(Simple)
  BY <1>1
<1>3. /\ Get("dev", <<>>) \in Instr
      /\ Get("mode_config", <<Put("dev")>>) \in Instr
      /\ Get("connector", <<Put("mode_config"), Put("dev")>>) \in Instr
      /\ Get("pipe", <<Put("mode_config"), Put("dev")>>) \in Instr
      /\ Get("minor", <<Put("mode_config"), Put("dev")>>) \in Instr
      /\ Try("fbdev") \in Instr
  BY <1>2 DEF Instr, Kinds, Things, Get, Try
<1>4. Load[d] \in Seq(Instr) /\ Unload[d] \in Seq(Instr)
  BY SimpleKmsText, <1>1, <1>3, SimpleInstr
<1>5. Len(Load[d]) = 6 /\ \A n \in 1 .. 6 : Load[d][n].do \in {"get", "add", "try", "wait"}
  BY SimpleKmsText DEF Get, Try
<1>6. /\ DOMAIN Load[d] = 1 .. 6
      /\ Load[d][1].do = "get" /\ Load[d][1].what = "dev"
      /\ Load[d][2].do = "get" /\ Load[d][2].what = "mode_config"
      /\ Load[d][3].do = "get" /\ Load[d][3].what = "connector"
      /\ Load[d][4].do = "get" /\ Load[d][4].what = "pipe"
      /\ Load[d][5].do = "get" /\ Load[d][5].what = "minor"
      /\ Load[d][6].do = "try" /\ Load[d][6].what = "fbdev"
  BY SimpleKmsText DEF Get, Try
<1>7. /\ Sure(d, 0) = {}
      /\ Possible(d, 0) = {}
  BY DEF Sure, Possible, Base, OnABus
<1>8. /\ Sure(d, 1) = {"dev"}
      /\ Possible(d, 1) = {"dev"}
  BY <1>6 DEF Sure, Possible, Base, OnABus, Threads
<1>9. /\ Sure(d, 2) = {"dev", "mode_config"}
      /\ Possible(d, 2) = {"dev", "mode_config"}
  BY <1>6 DEF Sure, Possible, Base, OnABus, Threads
<1>10. /\ Sure(d, 3) = {"dev", "mode_config", "connector"}
       /\ Possible(d, 3) = {"dev", "mode_config", "connector"}
  BY <1>6 DEF Sure, Possible, Base, OnABus, Threads
<1>11. /\ Sure(d, 4) = {"dev", "mode_config", "connector", "pipe"}
       /\ Possible(d, 4) = {"dev", "mode_config", "connector", "pipe"}
  BY <1>6 DEF Sure, Possible, Base, OnABus, Threads
<1>12. /\ Sure(d, 6) = {"dev", "mode_config", "connector", "pipe", "minor"}
       /\ Possible(d, 6) = {"dev", "mode_config", "connector", "pipe", "minor", "fbdev"}
  BY <1>6 DEF Sure, Possible, Base, OnABus, Threads
<1>13. AcquiredAfter(d, "dev") = {"mode_config", "connector", "pipe", "minor", "fbdev"}
  BY <1>6 DEF AcquiredAfter
<1>14. AcquiredAfter(d, "mode_config") = {"connector", "pipe", "minor", "fbdev"}
  BY <1>6 DEF AcquiredAfter
<1>15. AcquiredAfter(d, "minor") = {"fbdev"}
  BY <1>6 DEF AcquiredAfter
<1>16. Undoing(d, <<>>, {}, {})
  BY <1>13, <1>14, <1>15 DEF Undoing, Released
<1>17. Undoing(d, <<Put("dev")>>, {"dev"}, {"dev"})
  BY <1>13, <1>14, <1>15 DEF Undoing, Released, Put
<1>18. Undoing(d, <<Put("mode_config"), Put("dev")>>,
               {"dev", "mode_config"},
               {"dev", "mode_config"})
  BY <1>13, <1>14, <1>15 DEF Undoing, Released, Put
<1>19. Undoing(d, <<Put("mode_config"), Put("dev")>>,
               {"dev", "mode_config", "connector"},
               {"dev", "mode_config", "connector"})
  BY <1>13, <1>14, <1>15 DEF Undoing, Released, Put
<1>20. Undoing(d, <<Put("mode_config"), Put("dev")>>,
               {"dev", "mode_config", "connector", "pipe"},
               {"dev", "mode_config", "connector", "pipe"})
  BY <1>13, <1>14, <1>15 DEF Undoing, Released, Put
<1>21. Undoing(d, Unload[d],
               {"dev", "mode_config", "connector", "pipe", "minor"},
               {"dev", "mode_config", "connector", "pipe", "minor", "fbdev"})
  BY SimpleKmsText, <1>13, <1>14, <1>15 DEF Undoing, Released, Put, PutIf, Wait, Threads
<1>22. /\ Load[d][1].else = <<>>
       /\ Load[d][2].else = <<Put("dev")>>
       /\ Load[d][3].else = <<Put("mode_config"), Put("dev")>>
       /\ Load[d][4].else = <<Put("mode_config"), Put("dev")>>
       /\ Load[d][5].else = <<Put("mode_config"), Put("dev")>>
       /\ Load[d][6].do = "try"
  BY SimpleKmsText DEF Get, Try
<1> HIDE DEF d
<1>23. ASSUME NEW n \in 1 .. Len(Load[d]), Load[d][n].do = "get"
      PROVE  Undoing(d, Load[d][n].else, Sure(d, n - 1), Possible(d, n - 1))
  <2>1. CASE n = 1
    <3>1. n - 1 = 0
      BY <2>1
    <3> QED
      BY <2>1, <3>1, <1>7, <1>16, <1>22
  <2>2. CASE n = 2
    <3>1. n - 1 = 1
      BY <2>2
    <3> QED
      BY <2>2, <3>1, <1>8, <1>17, <1>22
  <2>3. CASE n = 3
    <3>1. n - 1 = 2
      BY <2>3
    <3> QED
      BY <2>3, <3>1, <1>9, <1>18, <1>22
  <2>4. CASE n = 4
    <3>1. n - 1 = 3
      BY <2>4
    <3> QED
      BY <2>4, <3>1, <1>10, <1>19, <1>22
  <2>5. CASE n = 5
    <3>1. n - 1 = 4
      BY <2>5
    <3> QED
      BY <2>5, <3>1, <1>11, <1>20, <1>22
  <2>6. CASE n = 6
    BY <1>23, <2>6, <1>22
  <2> QED
    BY <1>5, <2>1, <2>2, <2>3, <2>4, <2>5, <2>6
<1>24. Disciplined(d)
  BY <1>4, <1>5, <1>12, <1>21, <1>23 DEF Disciplined
<1> QED
  BY <1>24 DEF d

LEMMA PanelDsiText ==
  /\ Load["panel_dsi"] = <<Get("ctx", <<>>),
                           Add("panel"),
                           Get("dsi", <<Put("panel"), Put("ctx")>>)>>
  /\ Unload["panel_dsi"] = <<Put("dsi"), Put("panel"), Put("ctx")>>
  BY DEF Load, panel_probe, Unload, panel_remove

LEMMA PanelDsiDisciplined == Disciplined("panel_dsi")
<1> DEFINE d == "panel_dsi"
<1>1. /\ Put("panel") \in Simple
      /\ Put("ctx") \in Simple
      /\ Put("dsi") \in Simple
  BY DEF Simple, Kinds, Things, Put
<1>2. /\ <<>> \in Seq(Simple)
      /\ <<Put("panel"), Put("ctx")>> \in Seq(Simple)
  BY <1>1
<1>3. /\ Get("ctx", <<>>) \in Instr
      /\ Add("panel") \in Instr
      /\ Get("dsi", <<Put("panel"), Put("ctx")>>) \in Instr
  BY <1>2 DEF Instr, Kinds, Things, Get, Add
<1>4. Load[d] \in Seq(Instr) /\ Unload[d] \in Seq(Instr)
  BY PanelDsiText, <1>1, <1>3, SimpleInstr
<1>5. Len(Load[d]) = 3 /\ \A n \in 1 .. 3 : Load[d][n].do \in {"get", "add", "try", "wait"}
  BY PanelDsiText DEF Get, Add
<1>6. /\ DOMAIN Load[d] = 1 .. 3
      /\ Load[d][1].do = "get" /\ Load[d][1].what = "ctx"
      /\ Load[d][2].do = "add" /\ Load[d][2].what = "panel"
      /\ Load[d][3].do = "get" /\ Load[d][3].what = "dsi"
  BY PanelDsiText DEF Get, Add
<1>7. /\ Sure(d, 0) = {}
      /\ Possible(d, 0) = {}
  BY DEF Sure, Possible, Base, OnABus
<1>8. /\ Sure(d, 2) = {"ctx", "panel"}
      /\ Possible(d, 2) = {"ctx", "panel"}
  BY <1>6 DEF Sure, Possible, Base, OnABus, Threads
<1>9. /\ Sure(d, 3) = {"ctx", "panel", "dsi"}
      /\ Possible(d, 3) = {"ctx", "panel", "dsi"}
  BY <1>6 DEF Sure, Possible, Base, OnABus, Threads
<1>10. AcquiredAfter(d, "panel") = {"dsi"}
  BY <1>6 DEF AcquiredAfter
<1>11. AcquiredAfter(d, "ctx") = {"panel", "dsi"}
  BY <1>6 DEF AcquiredAfter
<1>12. AcquiredAfter(d, "dsi") = {}
  BY <1>6 DEF AcquiredAfter
<1>13. Undoing(d, <<>>, {}, {})
  BY <1>10, <1>11, <1>12 DEF Undoing, Released
<1>14. Undoing(d, <<Put("panel"), Put("ctx")>>, {"ctx", "panel"}, {"ctx", "panel"})
  BY <1>10, <1>11, <1>12 DEF Undoing, Released, Put
<1>15. Undoing(d, Unload[d], {"ctx", "panel", "dsi"}, {"ctx", "panel", "dsi"})
  BY PanelDsiText, <1>10, <1>11, <1>12 DEF Undoing, Released, Put
<1>16. /\ Load[d][1].else = <<>>
       /\ Load[d][2].do = "add"
       /\ Load[d][3].else = <<Put("panel"), Put("ctx")>>
  BY PanelDsiText DEF Get, Add
<1> HIDE DEF d
<1>17. ASSUME NEW n \in 1 .. Len(Load[d]), Load[d][n].do = "get"
      PROVE  Undoing(d, Load[d][n].else, Sure(d, n - 1), Possible(d, n - 1))
  <2>1. CASE n = 1
    <3>1. n - 1 = 0
      BY <2>1
    <3> QED
      BY <2>1, <3>1, <1>7, <1>13, <1>16
  <2>2. CASE n = 2
    BY <1>17, <2>2, <1>16
  <2>3. CASE n = 3
    <3>1. n - 1 = 2
      BY <2>3
    <3> QED
      BY <2>3, <3>1, <1>8, <1>14, <1>16
  <2> QED
    BY <1>5, <2>1, <2>2, <2>3
<1>18. Disciplined(d)
  BY <1>4, <1>5, <1>9, <1>15, <1>17 DEF Disciplined
<1> QED
  BY <1>18 DEF d

LEMMA AllDisciplined == \A d \in Drivers : Disciplined(d)
  BY CharDeviceDisciplined, MiscDeviceDisciplined, HelloModuleDisciplined,
     PlatformDriverDisciplined, DmaAllocDisciplined, MemAllocDisciplined,
     MutexExampleDisciplined, CompletionExampleDisciplined, SpinlockExampleDisciplined,
     GemShmemDisciplined, SimpleKmsDisciplined, PanelDsiDisciplined DEF Drivers, Load

-----------------------------------------------------------------------------
(***************************************************************************)
(* The steps of a life cycle.                                              *)
(***************************************************************************)
LEMMA UndoingNext ==
  ASSUME NEW d, NEW prog \in Seq(Instr), prog # <<>>,
         NEW H, NEW G, G = H \ Released(Head(prog).what),
         Undoing(d, prog, H \ Threads, H)
  PROVE  Undoing(d, Tail(prog), G \ Threads, G)
<1> DEFINE rest == Tail(prog)
<1>1. /\ Len(prog) \in Nat \ {0} /\ Len(rest) = Len(prog) - 1
      /\ \A k \in 1 .. Len(rest) : rest[k] = prog[k + 1]
      /\ Head(prog) = prog[1]
  OBVIOUS
<1>2. \A k \in 1 .. Len(rest) : k + 1 \in 1 .. Len(prog)
  BY <1>1
<1> HIDE DEF rest
<1>3. \A y \in G : y \in H /\ y \notin Released(prog[1].what)
  BY <1>1
<1>4. ASSUME NEW k \in 1 .. Len(rest)
      PROVE  /\ rest[k].do \in {"put", "putif", "wait"}
             /\ rest[k].do = "wait" => /\ rest[k].what # "mode_config"
                                       /\ rest[k].what \in G => rest[k].what \in Threads
  BY <1>1, <1>2, <1>3 DEF Undoing
<1>5. ASSUME NEW k \in 1 .. Len(rest), rest[k].do = "put"
      PROVE  /\ rest[k].what \in G \ Threads
             /\ \A j \in 1 .. k - 1 : rest[k].what \notin Released(rest[j].what)
             /\ \A y \in G \cap AcquiredAfter(d, rest[k].what) :
                  \E j \in 1 .. k : y \in Released(rest[j].what)
  <2>1. /\ k + 1 \in 1 .. Len(prog) /\ rest[k] = prog[k + 1] /\ prog[k + 1].do = "put"
    BY <1>1, <1>2, <1>5
  <2>2. /\ prog[k + 1].what \in H \ Threads
        /\ \A j \in 1 .. k + 1 - 1 : prog[k + 1].what \notin Released(prog[j].what)
        /\ \A y \in H \cap AcquiredAfter(d, prog[k + 1].what) :
             \E j \in 1 .. k + 1 : y \in Released(prog[j].what)
    BY <2>1 DEF Undoing
  <2>3. prog[k + 1].what \notin Released(prog[1].what)
    BY <2>2
  <2>4. rest[k].what \in G \ Threads
    BY <1>1, <2>1, <2>2, <2>3
  <2>5. ASSUME NEW j \in 1 .. k - 1 PROVE rest[k].what \notin Released(rest[j].what)
    <3>1. j \in 1 .. Len(rest) /\ j + 1 \in 1 .. k + 1 - 1
      OBVIOUS
    <3> QED
      BY <1>1, <2>1, <2>2, <3>1
  <2>6. ASSUME NEW y \in G, y \in AcquiredAfter(d, rest[k].what)
        PROVE  \E j \in 1 .. k : y \in Released(rest[j].what)
    <3>1. PICK j \in 1 .. k + 1 : y \in Released(prog[j].what)
      BY <1>3, <2>1, <2>2, <2>6
    <3>2. j # 1
      BY <1>3, <2>6, <3>1
    <3>3. j - 1 \in 1 .. k /\ j - 1 \in 1 .. Len(rest) /\ (j - 1) + 1 = j
      BY <3>2
    <3>4. rest[j - 1] = prog[j]
      BY <1>1, <3>3
    <3> QED
      BY <3>1, <3>3, <3>4
  <2> QED
    BY <2>4, <2>5, <2>6
<1>6. ASSUME NEW y \in G PROVE \E k \in 1 .. Len(rest) : y \in Released(rest[k].what)
  <2>1. PICK j \in 1 .. Len(prog) : y \in Released(prog[j].what)
    BY <1>3 DEF Undoing
  <2>2. j # 1
    BY <1>3, <2>1
  <2>3. j - 1 \in 1 .. Len(rest) /\ (j - 1) + 1 = j
    BY <1>1, <2>2
  <2>4. rest[j - 1] = prog[j]
    BY <1>1, <2>3
  <2> QED
    BY <2>1, <2>3, <2>4
<1>7. Undoing(d, rest, G \ Threads, G)
  BY <1>4, <1>5, <1>6 DEF Undoing
<1> QED
  BY <1>7 DEF rest

\* What is undone may be more certain, and less, than what was reckoned with.
LEMMA UndoingNarrowed ==
  ASSUME NEW d, NEW prog, NEW must, NEW may, NEW most, NEW least,
         Undoing(d, prog, must, may), must \subseteq least, most \subseteq may
  PROVE  Undoing(d, prog, least, most)
  BY DEF Undoing

LEMMA SureNext ==
  ASSUME NEW d, NEW n \in Nat
  PROVE  /\ Possible(d, n) \subseteq Possible(d, n + 1)
         /\ Load[d][n + 1].do \in {"get", "add", "try"}
              => Load[d][n + 1].what \in Possible(d, n + 1)
         /\ Sure(d, n + 1) \subseteq Sure(d, n) \cup {Load[d][n + 1].what}
         /\ Load[d][n + 1].do \notin {"get", "add"} => Sure(d, n + 1) \subseteq Sure(d, n)
<1>1. /\ \A m \in 1 .. n : m \in 1 .. n + 1
      /\ n + 1 \in 1 .. n + 1
      /\ \A m \in 1 .. n + 1 : m = n + 1 \/ m \in 1 .. n
  OBVIOUS
<1> QED
  BY <1>1 DEF Sure, Possible

LEMMA NoThreadIsSure == \A d \in Drivers, n \in Nat : Sure(d, n) \cap Threads = {}
  BY DEF Sure, Base, Threads

LEMMA Advance ==
  ASSUME LifeInv, phase = "load", todo # <<>>, todo' = Tail(todo), driver' = driver
  PROVE  /\ Position \in Nat /\ Position + 1 \in 1 .. Len(Load[driver])
         /\ Head(todo) = Load[driver][Position + 1]
         /\ todo' \in Seq(Instr)
         /\ Position' = Position + 1
         /\ \A k \in 1 .. Len(todo') : todo'[k] = Load[driver'][Position' + k]
<1>1. /\ todo \in Seq(Instr) /\ Len(todo) \in Nat \ {0}
      /\ Len(todo') = Len(todo) - 1 /\ todo' \in Seq(Instr) /\ Head(todo) = todo[1]
      /\ \A k \in 1 .. Len(todo') : todo'[k] = todo[k + 1]
  BY DEF LifeInv
<1>2. /\ Len(Load[driver]) \in Nat /\ Position \in 0 .. Len(Load[driver])
      /\ \A k \in 1 .. Len(todo) : todo[k] = Load[driver][Position + k]
  BY AllDisciplined DEF LifeInv, Loaded, Disciplined
<1>3. Position \in Nat /\ Position + 1 \in 1 .. Len(Load[driver])
  BY <1>1, <1>2 DEF Position
<1>4. Position' = Position + 1
  BY <1>1, <1>2 DEF Position
<1>5. ASSUME NEW k \in 1 .. Len(todo') PROVE todo'[k] = Load[driver'][Position' + k]
  <2>1. k + 1 \in 1 .. Len(todo) /\ Position' + k = Position + (k + 1)
    BY <1>1, <1>2, <1>4
  <2> QED
    BY <1>1, <1>2, <2>1
<1>6. Head(todo) = Load[driver][Position + 1]
  <2>1. 1 \in 1 .. Len(todo)
    BY <1>1
  <2> QED
    BY ONLY <1>1, <1>2, <2>1
<1>7. \A k \in 1 .. Len(todo') : todo'[k] = Load[driver'][Position' + k]
  BY ONLY <1>5
<1> QED
  BY ONLY <1>1, <1>3, <1>4, <1>6, <1>7

\* Only a load acquires, only an unload or an undoing releases.
LEMMA PhaseOfHead ==
  ASSUME LifeInv, todo # <<>>
  PROVE  /\ phase \in {"load", "fail", "unload"}
         /\ Executing({"get", "add", "try"}) => phase = "load"
         /\ Executing({"put", "putif"}) => phase # "load"
<1>1. phase \in {"load", "fail", "unload"}
  BY DEF LifeInv
<1>2. todo \in Seq(Instr) /\ Head(todo) = todo[1] /\ 1 \in 1 .. Len(todo)
  BY DEF LifeInv
<1>3. phase # "load" => Head(todo).do \in {"put", "putif", "wait"}
  BY <1>1, <1>2 DEF LifeInv, Undoing
<1>4. phase = "load" => Head(todo).do \in {"get", "add", "try", "wait"}
  <2> SUFFICES ASSUME phase = "load" PROVE Head(todo).do \in {"get", "add", "try", "wait"}
    OBVIOUS
  <2>1. Disciplined(driver) /\ Loaded /\ Len(Load[driver]) \in Nat
    BY AllDisciplined DEF LifeInv, Disciplined
  <2>2. todo[1] = Load[driver][Position + 1] /\ Position + 1 \in 1 .. Len(Load[driver])
    BY <1>2, <2>1 DEF Loaded, Position
  <2> QED
    BY <1>2, <2>1, <2>2 DEF Disciplined
<1> QED
  BY <1>1, <1>3, <1>4 DEF Executing

LEMMA InitLifeInv == Init => LifeInv
  BY DEF Init, LifeInv

LEMMA NextLifeInv == LifeInv /\ [Next]_vars => LifeInv'
<1> SUFFICES ASSUME LifeInv, [Next]_vars PROVE LifeInv'
  OBVIOUS
<1>0. /\ driver \in Drivers /\ Disciplined(driver) /\ todo \in Seq(Instr)
      /\ Load[driver] \in Seq(Instr) /\ Len(Load[driver]) \in Nat
      /\ Unload[driver] \in Seq(Instr)
  BY AllDisciplined DEF LifeInv, Disciplined
<1>1. ASSUME Start PROVE LifeInv'
  <2>1. /\ phase' = "load" /\ driver' = driver /\ todo' = Load[driver] /\ held' = Base(driver)
    BY <1>1 DEF Start, Base
  <2>2. Position' = 0
    BY <1>0, <2>1 DEF Position
  <2>3. Sure(driver, 0) = Base(driver) /\ Possible(driver, 0) = Base(driver)
    BY DEF Sure, Possible
  <2>4. Loaded'
    BY <1>0, <2>1, <2>2, <2>3 DEF Loaded
  <2> QED
    BY <1>0, <2>1, <2>4 DEF LifeInv
<1>2. ASSUME Stop PROVE LifeInv'
  <2>1. /\ phase = "in" /\ phase' = "unload" /\ todo' = Unload[driver] /\ UNCHANGED <<driver, held>>
    BY <1>2 DEF Stop
  <2>2. Position = Len(Load[driver]) /\ Loaded
    BY <1>0, <2>1 DEF LifeInv, Position
  <2>3. /\ Sure(driver, Len(Load[driver])) \subseteq held \ Threads
        /\ held \subseteq Possible(driver, Len(Load[driver]))
    BY <1>0, <2>2, NoThreadIsSure DEF Loaded
  <2>4. Undoing(driver, Unload[driver], held \ Threads, held)
    BY <1>0, <2>3, UndoingNarrowed DEF Disciplined
  <2> QED
    BY <1>0, <2>1, <2>4 DEF LifeInv
<1>3. ASSUME Finish PROVE LifeInv'
  <2>1. /\ todo = <<>> /\ phase \in {"load", "fail", "unload"}
        /\ phase' = IF phase = "load" THEN "in" ELSE "out"
        /\ UNCHANGED <<driver, todo, held>>
    BY <1>3 DEF Finish
  <2>2. CASE phase = "load"
    <3>1. Loaded'
      BY <2>1, <2>2 DEF LifeInv, Loaded, Position
    <3> QED
      BY <1>0, <2>1, <2>2, <3>1 DEF LifeInv
  <2>3. CASE phase # "load"
    <3>1. held = {}
      BY <2>1, <2>3 DEF LifeInv, Undoing
    <3> QED
      BY <1>0, <2>1, <2>3, <3>1 DEF LifeInv
  <2> QED
    BY <2>2, <2>3
<1>4. ASSUME Acquire PROVE LifeInv'
  <2>1. /\ todo # <<>> /\ todo' = Tail(todo) /\ held' = held \cup {What}
        /\ UNCHANGED <<driver, phase>> /\ What = Head(todo).what
        /\ Head(todo).do \in {"get", "add", "try"} /\ phase = "load"
    BY <1>4, PhaseOfHead DEF Acquire, Executing, Continue, What
  <2> DEFINE n == Position
  <2>2. /\ n \in Nat /\ n + 1 \in 1 .. Len(Load[driver])
        /\ Head(todo) = Load[driver][n + 1]
        /\ todo' \in Seq(Instr)
        /\ Position' = n + 1
        /\ \A k \in 1 .. Len(todo') : todo'[k] = Load[driver'][Position' + k]
    BY <2>1, Advance
  <2>3. Sure(driver, n) \subseteq held /\ held \subseteq Possible(driver, n)
    BY <2>1 DEF LifeInv, Loaded
  <2> HIDE DEF n
  <2>4. Sure(driver, n + 1) \subseteq held' /\ held' \subseteq Possible(driver, n + 1)
    BY <2>1, <2>2, <2>3, SureNext
  <2>5. Loaded'
    <3>1. Position' \in 0 .. Len(Load[driver'])
      BY <1>0, <2>1, <2>2
    <3> QED
      BY ONLY <2>1, <2>2, <2>4, <3>1 DEF Loaded
  <2> QED
    BY <1>0, <2>1, <2>2, <2>5 DEF LifeInv
<1>5. ASSUME Fails PROVE LifeInv'
  <2>1. /\ todo # <<>> /\ Head(todo).do = "get" /\ phase = "load"
        /\ phase' = "fail" /\ todo' = Head(todo).else /\ UNCHANGED <<driver, held>>
    BY <1>5, PhaseOfHead DEF Fails, Executing
  <2> DEFINE n == Position
  <2>2. n \in Nat /\ n + 1 \in 1 .. Len(Load[driver]) /\ Head(todo) = Load[driver][n + 1]
    <3>1. /\ Len(todo) \in Nat \ {0} /\ Head(todo) = todo[1]
      BY <1>0, <2>1
    <3> QED
      BY <1>0, <2>1, <3>1 DEF LifeInv, Loaded, Position
  <2>3. /\ Sure(driver, n) \subseteq held \ Threads /\ held \subseteq Possible(driver, n)
    BY <1>0, <2>1, <2>2, NoThreadIsSure DEF LifeInv, Loaded
  <2> HIDE DEF n
  <2>4. Undoing(driver, Load[driver][n + 1].else, Sure(driver, n), Possible(driver, n))
    <3>1. (n + 1) - 1 = n
      BY <2>2
    <3> QED
      BY <1>0, <2>1, <2>2, <3>1 DEF Disciplined
  <2>5. Undoing(driver, todo', held \ Threads, held)
    BY <2>1, <2>2, <2>3, <2>4, UndoingNarrowed
  <2>6. todo' \in Seq(Instr)
    <3>1. Head(todo) \in Instr
      BY <1>0, <2>1
    <3>2. Head(todo).else \in Seq(Simple)
      BY <3>1 DEF Instr
    <3> QED
      BY <2>1, <3>2, SimpleInstr
  <2> QED
    BY <1>0, <2>1, <2>5, <2>6 DEF LifeInv
<1>6. ASSUME FailsUnnoticed PROVE LifeInv'
  <2>1. /\ todo # <<>> /\ todo' = Tail(todo) /\ UNCHANGED <<driver, phase, held>>
        /\ Head(todo).do = "try" /\ phase = "load"
    BY <1>6, PhaseOfHead DEF FailsUnnoticed, Executing, Continue
  <2> DEFINE n == Position
  <2>2. /\ n \in Nat /\ n + 1 \in 1 .. Len(Load[driver])
        /\ Head(todo) = Load[driver][n + 1]
        /\ todo' \in Seq(Instr)
        /\ Position' = n + 1
        /\ \A k \in 1 .. Len(todo') : todo'[k] = Load[driver'][Position' + k]
    BY <2>1, Advance
  <2>3. Sure(driver, n) \subseteq held /\ held \subseteq Possible(driver, n)
    BY <2>1 DEF LifeInv, Loaded
  <2> HIDE DEF n
  <2>4. Sure(driver, n + 1) \subseteq held /\ held \subseteq Possible(driver, n + 1)
    BY <2>1, <2>2, <2>3, SureNext
  <2>5. Loaded'
    BY <2>1, <2>2, <2>4 DEF Loaded
  <2> QED
    BY <1>0, <2>1, <2>2, <2>5 DEF LifeInv
<1>7. ASSUME Release PROVE LifeInv'
  <2>1. /\ todo # <<>> /\ todo' = Tail(todo) /\ UNCHANGED <<driver, phase>>
        /\ held' = held \ Released(Head(todo).what) /\ phase \in {"fail", "unload"}
    BY <1>7, PhaseOfHead DEF Release, Executing, Continue, What
  <2>2. Undoing(driver, todo', held' \ Threads, held')
    BY <1>0, <2>1, UndoingNext DEF LifeInv
  <2>3. todo' \in Seq(Instr)
    BY <1>0, <2>1
  <2> QED
    BY <1>0, <2>1, <2>2, <2>3 DEF LifeInv
<1>8. ASSUME Waited PROVE LifeInv'
  <2>1. /\ todo # <<>> /\ todo' = Tail(todo) /\ UNCHANGED <<driver, phase, held>>
        /\ Head(todo).do = "wait" /\ WaitIsOver /\ What = Head(todo).what
    BY <1>8 DEF Waited, Executing, Continue, What
  <2>2. todo' \in Seq(Instr)
    BY <1>0, <2>1
  <2>3. CASE phase = "load"
    <3> DEFINE n == Position
    <3>2. /\ n \in Nat /\ n + 1 \in 1 .. Len(Load[driver])
          /\ Head(todo) = Load[driver][n + 1]
          /\ Position' = n + 1
          /\ \A k \in 1 .. Len(todo') : todo'[k] = Load[driver'][Position' + k]
      BY <2>1, <2>3, Advance
    <3>3. Sure(driver, n) \subseteq held /\ held \subseteq Possible(driver, n)
      BY <2>3 DEF LifeInv, Loaded
    <3> HIDE DEF n
    <3>4. Sure(driver, n + 1) \subseteq held /\ held \subseteq Possible(driver, n + 1)
      BY <2>1, <3>2, <3>3, SureNext
    <3>5. Loaded'
      BY <2>1, <3>2, <3>4 DEF Loaded
    <3> QED
      BY <1>0, <2>1, <2>2, <2>3, <3>5 DEF LifeInv
  <2>4. CASE phase # "load"
    <3>1. phase \in {"fail", "unload"} /\ Undoing(driver, todo, held \ Threads, held)
      BY <2>1, <2>4, PhaseOfHead DEF LifeInv
    <3>2. /\ What # "mode_config"
          /\ What \in held => What \in Threads
      <4>1. 1 \in 1 .. Len(todo) /\ Head(todo) = todo[1]
        BY <1>0, <2>1
      <4> QED
        BY <2>1, <3>1, <4>1 DEF Undoing
    <3>3. What \notin held
      BY <2>1, <3>2 DEF WaitIsOver, Threads
    <3>4. held = held \ Released(What)
      BY <3>2, <3>3 DEF Released
    <3>5. Undoing(driver, todo', held \ Threads, held)
      BY <1>0, <2>1, <3>1, <3>4, UndoingNext
    <3> QED
      BY <1>0, <2>1, <2>2, <2>4, <3>1, <3>5 DEF LifeInv
  <2> QED
    BY <2>3, <2>4
<1>9. ASSUME NEW x \in Threads, ThreadReturns(x) PROVE LifeInv'
  <2>1. held' = held \ {x} /\ UNCHANGED <<driver, phase, todo>> /\ x \in held
    BY <1>9 DEF ThreadReturns
  <2>2. Loaded => Loaded'
    <3> SUFFICES ASSUME Loaded PROVE Loaded'
      OBVIOUS
    <3>1. UNCHANGED Position
      BY <2>1 DEF Position
    <3>2. Sure(driver, Position) \cap Threads = {}
      BY <1>0, NoThreadIsSure DEF Loaded
    <3> QED
      BY <2>1, <3>1, <3>2 DEF Loaded
  <2>3. Undoing(driver, todo, held \ Threads, held) => Undoing(driver, todo, held' \ Threads, held')
    <3>1. held \ Threads \subseteq held' \ Threads /\ held' \subseteq held
      BY <2>1
    <3> QED
      BY <3>1, UndoingNarrowed
  <2> QED
    BY <2>1, <2>2, <2>3 DEF LifeInv
<1>10. ASSUME UNCHANGED <<driver, life>> PROVE LifeInv'
  BY <1>10 DEF life, LifeInv, Loaded, Position
<1>11. Complete => UNCHANGED <<driver, life>>
  BY DEF Complete
<1>12. ASSUME NEW p \in Procs, Open(p) \/ Close(p) \/ CharCall(p) PROVE UNCHANGED <<driver, life>>
  BY <1>12 DEF Open, Close, CharCall
<1>13. ASSUME NEW p \in Procs, IoctlCall(p) \/ IoctlReturn(p) \/ PanelCall(p)
       PROVE  UNCHANGED <<driver, life>>
  BY <1>13 DEF IoctlCall, IoctlReturn, PanelCall
<1>14. UNCHANGED vars => UNCHANGED <<driver, life>>
  BY DEF vars
<1> QED
  BY <1>1, <1>2, <1>3, <1>4, <1>5, <1>6, <1>7, <1>8, <1>9, <1>10, <1>11, <1>12, <1>13, <1>14
     DEF Next

\* Whatever fails at whatever point, every one of the twelve life cycles takes
\* back what it has done and nothing else, in reverse, and waits for its threads.
THEOREM FailuresUndone == Spec => []UndoesExactly
<1>1. LifeInv => UndoesExactly
  <2> SUFFICES ASSUME LifeInv, Executing({"put"})
               PROVE  /\ What \in held
                      /\ held \cap AcquiredAfter(driver, What) \subseteq Released(What)
    BY DEF LifeInv, UndoesExactly
  <2>1. todo # <<>> /\ phase \in {"fail", "unload"}
    BY PhaseOfHead DEF Executing
  <2>2. /\ 1 \in 1 .. Len(todo) /\ todo[1].do = "put" /\ todo[1].what = What
        /\ Undoing(driver, todo, held \ Threads, held)
    BY <2>1 DEF LifeInv, Executing, What
  <2> QED
    BY <2>2 DEF Undoing
<1> QED
  BY <1>1, InitLifeInv, NextLifeInv, PTL DEF Spec


-----------------------------------------------------------------------------
(***************************************************************************)
(* The users: whom a load lets in, and what an unload does about them.     *)
(***************************************************************************)
LEMMA EntryDomain ==
  /\ DOMAIN Entry = {"char_device", "misc_device", "gem_shmem", "simple_kms", "panel_dsi"}
  /\ DOMAIN Entry \ Hasty = {"misc_device", "gem_shmem", "simple_kms"}
  BY DEF Entry, Hasty

LEMMA MiscDeviceAdmits == Admits("misc_device")
<1> DEFINE d == "misc_device"
<1>1. Len(Load[d]) = 1 /\ Entry[d] = "misc" /\ Reach[d] = {"module"}
  BY MiscDeviceText DEF Entry, Reach
<1>2. Possible(d, 0) = {"module"} /\ \A n \in 0 .. 1 : "module" \in Sure(d, n)
  BY DEF Sure, Possible, Base, OnABus
<1> HIDE DEF d
<1>3. ASSUME NEW n \in 0 .. 1, "misc" \in Possible(d, n) PROVE n = 1
  BY <1>2, <1>3
<1>4. Admits(d)
  BY <1>1, <1>2, <1>3 DEF Admits
<1> QED
  BY <1>4 DEF d

LEMMA GemShmemAdmits == Admits("gem_shmem")
<1> DEFINE d == "gem_shmem"
<1>1. Len(Load[d]) = 2 /\ Entry[d] = "minor" /\ Reach[d] = {"dev"}
  BY GemShmemText DEF Entry, Reach
<1>2. Possible(d, 0) = {} /\ Possible(d, 1) = {"dev"} /\ Sure(d, 2) = {"dev", "minor"}
  BY GemShmemText DEF Sure, Possible, Base, OnABus, Threads, Get
<1> HIDE DEF d
<1>3. ASSUME NEW n \in 0 .. 2, "minor" \in Possible(d, n) PROVE n = 2
  BY <1>2, <1>3
<1>4. Admits(d)
  BY <1>1, <1>2, <1>3 DEF Admits
<1> QED
  BY <1>4 DEF d

LEMMA SimpleKmsAdmits == Admits("simple_kms")
<1> DEFINE d == "simple_kms"
<1>1. /\ Len(Load[d]) = 6 /\ Entry[d] = "minor"
      /\ Reach[d] = {"dev", "mode_config", "connector", "pipe"}
      /\ Load[d][6].do = "try"
  BY SimpleKmsText DEF Entry, Reach, Try
<1>2. /\ Load[d][1].what = "dev" /\ Load[d][2].what = "mode_config"
      /\ Load[d][3].what = "connector" /\ Load[d][4].what = "pipe"
      /\ \A m \in 1 .. 4 : Load[d][m].do = "get"
  BY SimpleKmsText DEF Get
<1>3. ASSUME NEW n \in 0 .. 6, n <= 4 PROVE "minor" \notin Possible(d, n)
  BY <1>2, <1>3 DEF Possible, Base, OnABus
<1>4. ASSUME NEW n \in 5 .. 6 PROVE Reach[d] \subseteq Sure(d, n)
  <2>1. 1 \in 1 .. n /\ 2 \in 1 .. n /\ 3 \in 1 .. n /\ 4 \in 1 .. n
    OBVIOUS
  <2> QED
    BY <1>1, <1>2, <2>1 DEF Sure, Threads
<1> HIDE DEF d
<1>5. ASSUME NEW n \in 0 .. Len(Load[d]), Entry[d] \in Possible(d, n)
      PROVE  Reach[d] \subseteq Sure(d, n) /\ (n < Len(Load[d]) => Load[d][n + 1].do # "get")
  <2>1. n \in 0 .. 6 /\ n \in 5 .. 6
    BY <1>1, <1>3, <1>5
  <2>2. n < 6 => n + 1 = 6
    BY <2>1
  <2> QED
    BY <1>1, <1>4, <2>1, <2>2
<1>6. Admits(d)
  BY <1>5 DEF Admits
<1> QED
  BY <1>6 DEF d

LEMMA SlowAdmit == \A d \in DOMAIN Entry \ Hasty : Admits(d)
  BY EntryDomain, MiscDeviceAdmits, GemShmemAdmits, SimpleKmsAdmits

\* A driver that is in has what its users reach.
LEMMA ReachLoaded == \A d \in DOMAIN Entry : Reach[d] \subseteq Sure(d, Len(Load[d]))
<1>1. Reach["char_device"] \subseteq Sure("char_device", Len(Load["char_device"]))
  BY DEF Reach, Sure, Base, OnABus
<1>2. Reach["misc_device"] \subseteq Sure("misc_device", Len(Load["misc_device"]))
  BY DEF Reach, Sure, Base, OnABus
<1>3. Reach["gem_shmem"] \subseteq Sure("gem_shmem", Len(Load["gem_shmem"]))
  BY GemShmemText DEF Reach, Sure, Threads, Get
<1>4. Reach["simple_kms"] \subseteq Sure("simple_kms", Len(Load["simple_kms"]))
  <2> DEFINE d == "simple_kms"
  <2>1. /\ Load[d][1].what = "dev" /\ Load[d][2].what = "mode_config"
        /\ Load[d][3].what = "connector" /\ Load[d][4].what = "pipe"
        /\ \A m \in 1 .. 4 : Load[d][m].do = "get"
        /\ Len(Load[d]) = 6
    BY SimpleKmsText DEF Get
  <2>2. 1 \in 1 .. 6 /\ 2 \in 1 .. 6 /\ 3 \in 1 .. 6 /\ 4 \in 1 .. 6
    OBVIOUS
  <2> QED
    BY <2>1, <2>2 DEF Reach, Sure, Threads
<1>5. Reach["panel_dsi"] \subseteq Sure("panel_dsi", Len(Load["panel_dsi"]))
  BY PanelDsiText DEF Reach, Sure, Threads, Get
<1> QED
  BY <1>1, <1>2, <1>3, <1>4, <1>5, EntryDomain

LEMMA NoThreadIsReached ==
  \A d \in DOMAIN Entry : Reach[d] \cap Threads = {} /\ Entry[d] \notin Threads
  BY EntryDomain DEF Reach, Entry, Threads

\* On a bus, remove first gets rid of the users or waits for them.
LEMMA AllProtect == \A d \in OnABus : Protects(d, Unload[d])
<1>1. Protects("gem_shmem", Unload["gem_shmem"])
  <2> DEFINE prog == Unload["gem_shmem"]
  <2>1. /\ Len(prog) = 3 /\ prog[1].what = "minor"
        /\ prog[2].do = "wait" /\ prog[2].what = "last_close"
    BY GemShmemText DEF Put, Wait
  <2>2. 2 \in 1 .. 3 /\ \A j \in 1 .. 2 : j = 1 \/ j = 2
    OBVIOUS
  <2>3. \A x \in {"minor", "last_close"} : Released(x) \cap Reach["gem_shmem"] = {}
    BY DEF Released, Reach
  <2> HIDE DEF prog
  <2>4. Protects("gem_shmem", prog)
    BY <2>1, <2>2, <2>3 DEF Protects
  <2> QED
    BY <2>4 DEF prog
<1>2. Protects("simple_kms", Unload["simple_kms"])
  <2> DEFINE prog == Unload["simple_kms"]
  <2>1. /\ Len(prog) = 5 /\ prog[1].what = "fbdev" /\ prog[2].what = "minor"
        /\ prog[3].do = "wait" /\ prog[3].what = "last_close"
    BY SimpleKmsText DEF Put, PutIf, Wait
  <2>2. 3 \in 1 .. 5 /\ \A j \in 1 .. 3 : j = 1 \/ j = 2 \/ j = 3
    OBVIOUS
  <2>3. \A x \in {"fbdev", "minor", "last_close"} : Released(x) \cap Reach["simple_kms"] = {}
    BY DEF Released, Reach
  <2> HIDE DEF prog
  <2>4. Protects("simple_kms", prog)
    BY <2>1, <2>2, <2>3 DEF Protects
  <2> QED
    BY <2>4 DEF prog
<1>3. Protects("panel_dsi", Unload["panel_dsi"])
  <2> DEFINE prog == Unload["panel_dsi"]
  <2>1. Len(prog) = 3 /\ prog[1].do = "put" /\ prog[1].what = "dsi"
    BY PanelDsiText DEF Put
  <2>2. 1 \in 1 .. 3 /\ \A j \in 1 .. 1 : j = 1
    OBVIOUS
  <2>3. Released("dsi") \cap Reach["panel_dsi"] = {}
    BY DEF Released, Reach
  <2> HIDE DEF prog
  <2>4. Protects("panel_dsi", prog)
    BY <2>1, <2>2, <2>3 DEF Protects
  <2> QED
    BY <2>4 DEF prog
<1> QED
  BY <1>1, <1>2, <1>3 DEF OnABus

\* One instruction further, the users are gone or the rest still protects them.
LEMMA ProtectsNext ==
  ASSUME NEW d, NEW prog \in Seq(Instr), prog # <<>>, Protects(d, prog)
  PROVE  /\ Released(Head(prog).what) \cap Reach[d] = {}
         /\ \/ Head(prog).do = "wait" /\ Head(prog).what = "last_close"
            \/ Head(prog).do = "put" /\ Head(prog).what = "dsi"
            \/ Protects(d, Tail(prog))
<1> DEFINE rest == Tail(prog)
<1>1. /\ Len(prog) \in Nat \ {0} /\ Len(rest) = Len(prog) - 1
      /\ \A k \in 1 .. Len(rest) : rest[k] = prog[k + 1]
      /\ Head(prog) = prog[1]
  OBVIOUS
<1> HIDE DEF rest
<1>2. PICK k \in 1 .. Len(prog) :
        /\ \/ prog[k].do = "wait" /\ prog[k].what = "last_close"
           \/ prog[k].do = "put" /\ prog[k].what = "dsi"
        /\ \A j \in 1 .. k : Released(prog[j].what) \cap Reach[d] = {}
  BY DEF Protects
<1>3. Released(Head(prog).what) \cap Reach[d] = {}
  BY <1>1, <1>2
<1>4. ASSUME k # 1 PROVE Protects(d, rest)
  <2>1. k - 1 \in 1 .. Len(rest) /\ (k - 1) + 1 = k
    BY <1>1, <1>4
  <2>2. rest[k - 1] = prog[k]
    BY <1>1, <2>1
  <2>3. ASSUME NEW j \in 1 .. k - 1 PROVE Released(rest[j].what) \cap Reach[d] = {}
    <3>1. j \in 1 .. Len(rest) /\ j + 1 \in 1 .. k
      BY <1>1
    <3> QED
      BY <1>1, <1>2, <3>1
  <2> QED
    BY <1>2, <2>1, <2>2, <2>3 DEF Protects
<1> QED
  BY <1>1, <1>2, <1>3, <1>4 DEF rest

LEMMA InitPeopleInv == Init => PeopleInv
  BY DEF Init, PeopleInv

\* A driver that is in has what its users reach; one that is coming in has let
\* nobody in without it, but for the hasty ones.
LEMMA ReachWhenIn ==
  ASSUME LifeInv, driver \in DOMAIN Entry, phase = "in"
  PROVE  Reach[driver] \subseteq held
<1>1. driver \in Drivers /\ Load[driver] \in Seq(Instr) /\ Loaded /\ todo = <<>>
  BY AllDisciplined DEF LifeInv, Disciplined
<1>2. Position = Len(Load[driver])
  BY <1>1 DEF Position
<1> QED
  BY <1>1, <1>2, ReachLoaded DEF Loaded

LEMMA ReachWhenLoading ==
  ASSUME LifeInv, phase = "load", driver \in DOMAIN Entry \ Hasty, Entry[driver] \in held
  PROVE  /\ Reach[driver] \subseteq held
         /\ todo # <<>> => Head(todo).do # "get"
<1>1. /\ Load[driver] \in Seq(Instr) /\ Loaded /\ todo \in Seq(Instr)
      /\ Admits(driver)
  BY AllDisciplined, SlowAdmit DEF LifeInv, Disciplined
<1> DEFINE n == Position
<1>2. /\ n \in 0 .. Len(Load[driver]) /\ Len(Load[driver]) \in Nat
      /\ Sure(driver, n) \subseteq held /\ held \subseteq Possible(driver, n)
      /\ \A k \in 1 .. Len(todo) : todo[k] = Load[driver][n + k]
  BY <1>1 DEF Loaded
<1>3. n = Len(Load[driver]) - Len(todo) /\ Len(todo) \in Nat
  BY <1>1 DEF Position
<1> HIDE DEF n
<1>4. /\ Reach[driver] \subseteq Sure(driver, n)
      /\ n < Len(Load[driver]) => Load[driver][n + 1].do # "get"
  BY <1>1, <1>2 DEF Admits
<1>5. ASSUME todo # <<>> PROVE Head(todo).do # "get"
  <2>1. Head(todo) = todo[1] /\ 1 \in 1 .. Len(todo)
    BY <1>1, <1>5
  <2>2. n < Len(Load[driver])
    BY <1>2, <1>3, <2>1
  <2> QED
    BY <1>2, <1>4, <2>1, <2>2
<1> QED
  BY <1>2, <1>4, <1>5

LEMMA PanelNeverWaits == NeverWaits(Unload["panel_dsi"])
<1>1. Unload["panel_dsi"] = panel_remove
  BY DEF Unload
<1>2. panel_remove = <<Put("dsi"), Put("panel"), Put("ctx")>>
  BY DEF panel_remove
<1>3. Len(panel_remove) = 3 /\ \A k \in 1 .. 3 : panel_remove[k].do = "put"
  BY <1>2 DEF Put
<1> QED
  BY <1>1, <1>3 DEF NeverWaits

LEMMA NeverWaitsNext ==
  ASSUME NEW prog \in Seq(Instr), prog # <<>>, NeverWaits(prog)
  PROVE  NeverWaits(Tail(prog)) /\ Head(prog).do # "wait"
<1>1. /\ Len(prog) \in Nat /\ Len(prog) > 0
      /\ Len(Tail(prog)) = Len(prog) - 1 /\ Head(prog) = prog[1]
      /\ \A k \in 1 .. Len(prog) - 1 : Tail(prog)[k] = prog[k + 1]
  OBVIOUS
<1>2. \A k \in 1 .. Len(prog) - 1 : k + 1 \in 1 .. Len(prog)
  BY <1>1
<1> QED
  BY <1>1, <1>2 DEF NeverWaits

LEMMA NextPeopleInv == LifeInv /\ PeopleInv /\ [Next]_vars => PeopleInv'
<1> SUFFICES ASSUME LifeInv, PeopleInv, [Next]_vars PROVE PeopleInv'
  OBVIOUS
<1>0. driver \in Drivers /\ todo \in Seq(Instr) /\ phase \in {"out", "load", "fail", "in", "unload"}
  BY DEF LifeInv
<1>1. ASSUME Start PROVE PeopleInv'
  <2>1. phase' = "load" /\ users' = {} /\ early' = {} /\ late' = {} /\ driver' = driver
    BY <1>1 DEF Start
  <2> QED
    BY <2>1 DEF PeopleInv
<1>2. ASSUME Stop PROVE PeopleInv'
  <2>1. /\ phase = "in" /\ phase' = "unload" /\ todo' = Unload[driver]
        /\ UNCHANGED <<driver, held, users, early, late>>
        /\ driver \in OnABus \/ users = {}
    BY <1>2 DEF Stop, people
  <2>2. CASE driver \in OnABus
    <3>1. driver \in DOMAIN Entry
      BY <2>2, EntryDomain DEF OnABus
    <3>2. Reach[driver] \subseteq held /\ Protects(driver, todo')
      BY <2>1, <2>2, <3>1, ReachWhenIn, AllProtect
    <3>3. driver = "panel_dsi" => NeverWaits(todo')
      BY <2>1, PanelNeverWaits
    <3> QED
      BY <2>1, <2>2, <3>2, <3>3 DEF PeopleInv
  <2>3. CASE driver \notin OnABus
    BY <2>1, <2>3 DEF PeopleInv, OnABus
  <2> QED
    BY <2>2, <2>3
<1>3. ASSUME Finish PROVE PeopleInv'
  <2>1. /\ todo = <<>> /\ phase \in {"load", "fail", "unload"}
        /\ phase' = IF phase = "load" THEN "in" ELSE "out"
        /\ UNCHANGED <<driver, todo, held, users, late>>
        /\ early' = IF phase = "load" THEN {} ELSE early
    BY <1>3 DEF Finish
  <2>2. ~Protects(driver, todo)
    BY <2>1 DEF Protects
  <2>3. CASE phase = "load"
    BY <2>1, <2>3 DEF PeopleInv
  <2>4. CASE phase = "fail"
    BY <2>1, <2>4 DEF PeopleInv
  <2>5. CASE phase = "unload"
    <3>1. IF driver = "panel_dsi" THEN users \subseteq late /\ "dsi" \notin held ELSE users = {}
      BY <2>2, <2>5 DEF PeopleInv
    <3>2. "panel_dsi" \in Hasty
      BY DEF Hasty
    <3> QED
      BY <2>1, <2>5, <3>1, <3>2 DEF PeopleInv
  <2> QED
    BY <2>1, <2>3, <2>4, <2>5
<1>4. ASSUME Acquire PROVE PeopleInv'
  <2>1. /\ phase = "load" /\ held' = held \cup {What} /\ UNCHANGED <<driver, phase, users, early, late>>
    BY <1>4, PhaseOfHead DEF Acquire, Executing, Continue, people
  <2> QED
    BY <2>1 DEF PeopleInv
<1>5. ASSUME Fails PROVE PeopleInv'
  <2>1. /\ todo # <<>> /\ Head(todo).do = "get" /\ phase = "load" /\ phase' = "fail"
        /\ UNCHANGED <<driver, held, users, early, late>>
    BY <1>5, PhaseOfHead DEF Fails, Executing, people
  <2>2. driver \in DOMAIN Entry \ Hasty => Entry[driver] \notin held
    BY <2>1, ReachWhenLoading
  <2>3. driver \notin Hasty => users = {}
    BY <2>1, <2>2 DEF PeopleInv
  <2> QED
    BY <2>1, <2>2, <2>3 DEF PeopleInv
<1>6. ASSUME FailsUnnoticed PROVE PeopleInv'
  <2>1. phase = "load" /\ UNCHANGED <<driver, phase, held, users, early, late>>
    BY <1>6, PhaseOfHead DEF FailsUnnoticed, Executing, Continue, people
  <2> QED
    BY <2>1 DEF PeopleInv
<1>7. ASSUME Release PROVE PeopleInv'
  <2>1. /\ todo # <<>> /\ todo' = Tail(todo) /\ UNCHANGED <<driver, phase>>
        /\ phase \in {"fail", "unload"} /\ Head(todo).do # "wait"
        /\ held' = held \ Released(Head(todo).what)
        /\ users' = IF Head(todo).what = "dsi" THEN {} ELSE users
        /\ early' = IF Head(todo).what = "dsi" THEN {} ELSE early
        /\ late' = IF Head(todo).what = "dsi" THEN {} ELSE late
    BY <1>7, PhaseOfHead DEF Release, Executing, Continue, What
  <2>2. CASE phase = "fail"
    BY <2>1, <2>2 DEF PeopleInv
  <2>3. CASE phase = "unload"
    <3>0. driver = "panel_dsi" => NeverWaits(todo')
      BY <1>0, <2>1, <2>3, NeverWaitsNext DEF PeopleInv
    <3>1. CASE /\ driver \in OnABus /\ Protects(driver, todo) /\ Reach[driver] \subseteq held
      <4>1. /\ Released(Head(todo).what) \cap Reach[driver] = {}
            /\ Head(todo).what = "dsi" \/ Protects(driver, todo')
        BY <1>0, <2>1, <3>1, ProtectsNext
      <4>2. Reach[driver] \subseteq held'
        BY <2>1, <3>1, <4>1
      <4>3. CASE Head(todo).what = "dsi"
        BY <2>1, <2>3, <3>0, <4>3 DEF PeopleInv, Released
      <4>4. CASE Protects(driver, todo')
        BY <2>1, <2>3, <3>0, <3>1, <4>2, <4>4 DEF PeopleInv
      <4> QED
        BY <4>1, <4>3, <4>4
    <3>2. CASE IF driver = "panel_dsi" THEN users \subseteq late /\ "dsi" \notin held ELSE users = {}
      BY <2>1, <2>3, <3>0, <3>2 DEF PeopleInv
    <3> QED
      BY <2>3, <3>1, <3>2 DEF PeopleInv
  <2> QED
    BY <2>1, <2>2, <2>3
<1>8. ASSUME Waited PROVE PeopleInv'
  <2>1. /\ todo # <<>> /\ todo' = Tail(todo) /\ UNCHANGED <<driver, phase, held, users, early, late>>
        /\ Head(todo).do = "wait"
        /\ Head(todo).what = "last_close" => users = {}
    BY <1>8 DEF Waited, Executing, Continue, What, WaitIsOver, people
  <2>2. CASE phase # "unload"
    BY <2>1, <2>2 DEF PeopleInv
  <2>3. CASE phase = "unload"
    <3>0. driver # "panel_dsi"
      BY <1>0, <2>1, <2>3, NeverWaitsNext DEF PeopleInv
    <3>1. CASE /\ driver \in OnABus /\ Protects(driver, todo) /\ Reach[driver] \subseteq held
      <4>1. Head(todo).what = "last_close" \/ Protects(driver, todo')
        BY <1>0, <2>1, <3>1, ProtectsNext
      <4>2. CASE users = {}
        BY <2>1, <2>3, <3>0, <4>2 DEF PeopleInv
      <4>3. CASE Protects(driver, todo')
        BY <2>1, <2>3, <3>0, <3>1, <4>3 DEF PeopleInv
      <4> QED
        BY <2>1, <4>1, <4>2, <4>3
    <3>2. CASE IF driver = "panel_dsi" THEN users \subseteq late /\ "dsi" \notin held ELSE users = {}
      BY <2>1, <2>3, <3>0, <3>2 DEF PeopleInv
    <3> QED
      BY <2>3, <3>1, <3>2 DEF PeopleInv
  <2> QED
    BY <2>2, <2>3
<1>9. ASSUME NEW x \in Threads, ThreadReturns(x) PROVE PeopleInv'
  <2>1. held' = held \ {x} /\ UNCHANGED <<driver, phase, todo, users, early, late>>
    BY <1>9 DEF ThreadReturns, people
  <2>2. driver \in DOMAIN Entry => Entry[driver] # x
    BY NoThreadIsReached
  <2>3. driver \in OnABus => x \notin Reach[driver]
    BY NoThreadIsReached, EntryDomain DEF OnABus
  <2>4. driver \in OnABus /\ Reach[driver] \subseteq held => Reach[driver] \subseteq held'
    BY <2>1, <2>3
  <2> QED
    BY <2>1, <2>2, <2>4 DEF PeopleInv
<1>10. ASSUME NEW p \in Procs, Open(p) PROVE PeopleInv'
  <2>1. /\ driver \in DOMAIN Entry /\ Entry[driver] \in held
        /\ driver = "panel_dsi" \/ phase # "unload"
        /\ users' = users \cup {p}
        /\ early' = IF phase \in {"load", "fail"} THEN early \cup {p} ELSE early
        /\ late' = IF phase = "unload" /\ "dsi" \notin held THEN late \cup {p} ELSE late
        /\ UNCHANGED <<driver, phase, todo, held>>
    BY <1>10 DEF Open, life
  <2>2. phase # "out"
    BY <2>1 DEF LifeInv
  <2>3. CASE phase \in {"load", "in"}
    BY <2>1, <2>3 DEF PeopleInv
  <2>4. CASE phase = "fail"
    BY <2>1, <2>4 DEF PeopleInv
  <2>5. CASE phase = "unload"
    BY <2>1, <2>5 DEF PeopleInv
  <2> QED
    BY <1>0, <2>2, <2>3, <2>4, <2>5
<1>11. ASSUME NEW p \in Procs, Close(p) PROVE PeopleInv'
  <2>1. users' = users \ {p} /\ early' = early \ {p} /\ late' = late \ {p}
        /\ UNCHANGED <<driver, phase, todo, held>>
    BY <1>11 DEF Close, life
  <2> QED
    BY <2>1 DEF PeopleInv
<1>12. ASSUME UNCHANGED <<driver, life, people>> PROVE PeopleInv'
  BY <1>12 DEF life, people, PeopleInv
<1>13. Complete => UNCHANGED <<driver, life, people>>
  BY DEF Complete
<1>14. ASSUME NEW p \in Procs, CharCall(p) \/ IoctlCall(p) \/ IoctlReturn(p) \/ PanelCall(p)
       PROVE  UNCHANGED <<driver, life, people>>
  BY <1>14 DEF CharCall, IoctlCall, IoctlReturn, PanelCall
<1>15. UNCHANGED vars => UNCHANGED <<driver, life, people>>
  BY DEF vars
<1> QED
  BY <1>1, <1>2, <1>3, <1>4, <1>5, <1>6, <1>7, <1>8, <1>9, <1>10, <1>11, <1>12, <1>13, <1>14,
     <1>15 DEF Next

\* Whoever has the device open, or has found the panel, can reach what the driver
\* keeps for him, through every failure and removal, unless he came too early or,
\* for the panel, after mipi_dsi_detach.
THEOREM UsersAlwaysSupported == Spec => []UsersSupported
<1>1. LifeInv /\ PeopleInv => UsersSupported
  <2> SUFFICES ASSUME LifeInv, PeopleInv, NEW p \in users
               PROVE  \/ Reach[driver] \subseteq held
                      \/ driver \in Hasty /\ p \in early
                      \/ driver = "panel_dsi" /\ p \in late
    BY DEF UsersSupported, Hasty
  <2>1. phase \in {"out", "load", "fail", "in", "unload"} /\ driver \in DOMAIN Entry
    BY DEF LifeInv, PeopleInv
  <2>2. CASE phase \in {"out", "load", "fail"} /\ driver \in Hasty
    BY <2>2 DEF PeopleInv
  <2>3. CASE phase \in {"out", "fail"} /\ driver \notin Hasty
    BY <2>3 DEF PeopleInv
  <2>4. CASE phase = "load" /\ driver \notin Hasty
    <3>1. Entry[driver] \in held
      BY <2>4 DEF PeopleInv
    <3> QED
      BY <2>1, <2>4, <3>1, ReachWhenLoading
  <2>5. CASE phase = "in"
    BY <2>1, <2>5, ReachWhenIn
  <2>6. CASE phase = "unload"
    BY <2>6 DEF PeopleInv, Hasty
  <2> QED
    BY <2>1, <2>2, <2>3, <2>4, <2>5, <2>6
<1>2. Init => LifeInv /\ PeopleInv
  BY InitLifeInv, InitPeopleInv
<1>3. LifeInv /\ PeopleInv /\ [Next]_vars => (LifeInv /\ PeopleInv)'
  BY NextLifeInv, NextPeopleInv
<1> QED
  BY <1>1, <1>2, <1>3, PTL DEF Spec

-----------------------------------------------------------------------------
(***************************************************************************)
(* The file operations of the character devices.                           *)
(***************************************************************************)
Calls == [op : {"none", "read", "write", "ioctl"}, count : Nat, len : 0 .. Size, val : Bytes,
          done : 0 .. Size, out : Seq(Bytes), quiet : BOOLEAN]

LEMMA CallsTyped == CharTypeOK <=> /\ buffer \in [1 .. Size -> Bytes]
                                   /\ buffer_size \in 0 .. Size
                                   /\ call \in [Procs -> Calls]
                                   /\ message \in [val : Bytes, len : 0 .. Size, intact : BOOLEAN]
  BY DEF CharTypeOK, Calls

LEMMA IdleTyped == Idle \in Calls
<1>1. <<>> \in Seq(Bytes)
  OBVIOUS
<1>2. 0 \in 0 .. Size /\ 0 \in Bytes /\ 0 \in Nat
  BY CharDeviceAssumption DEF Bytes
<1> QED
  BY <1>1, <1>2 DEF Idle, Calls

LEMMA MinimumBounds ==
  \A a, b \in Nat : Minimum(a, b) \in Nat /\ Minimum(a, b) <= a /\ Minimum(a, b) <= b
  BY DEF Minimum

LEMMA CharInitInv ==
  ASSUME buffer' = [k \in 1 .. Size |-> 0], buffer_size' = 0,
         call' = [p \in Procs |-> Idle], message' = [val |-> 0, len |-> 0, intact |-> TRUE]
  PROVE  CharInv'
<1>1. 0 \in 0 .. Size /\ 0 \in Bytes /\ TRUE \in BOOLEAN
  BY CharDeviceAssumption DEF Bytes
<1>2. CharTypeOK'
  BY <1>1, IdleTyped DEF CharTypeOK, Calls
<1>3. \A p \in Procs : call'[p].op = "none" /\ call'[p].done = 0 /\ call'[p].len = 0
  BY DEF Idle
<1> QED
  BY <1>2, <1>3 DEF CharInv, CopyProgress, QuietFills, Stored, QuietSees, In

\* A process that leaves the buffer, or never comes near it.
LEMMA CallEnds ==
  ASSUME CharInv, NEW p \in Procs, NEW c \in Calls, c.op \in {"none", "ioctl"}, c.done <= c.len,
         call' = [call EXCEPT ![p] = c], UNCHANGED <<buffer, buffer_size, message>>
  PROVE  CharInv'
<1>1. call \in [Procs -> Calls]
  BY CallsTyped DEF CharInv
<1>2. call' \in [Procs -> Calls] /\ call'[p] = c /\ \A q \in Procs \ {p} : call'[q] = call[q]
  BY <1>1
<1>3. CharTypeOK'
  BY <1>2, CallsTyped DEF CharInv, CharTypeOK, Calls
<1>4. \A q \in Procs : /\ In(q, "read")' => q # p /\ In(q, "read") /\ call'[q] = call[q]
                       /\ In(q, "write")' => q # p /\ In(q, "write") /\ call'[q] = call[q]
  BY <1>2 DEF In
<1>5. CopyProgress'
  BY <1>2, <1>4 DEF CharInv, CopyProgress
<1>6. QuietFills'
  BY <1>2, <1>4 DEF CharInv, QuietFills, NoOtherWrites
<1>7. Stored'
  BY DEF CharInv, Stored
<1>8. QuietSees'
  BY <1>2, <1>4 DEF CharInv, QuietSees
<1> QED
  BY <1>3, <1>5, <1>6, <1>7, <1>8 DEF CharInv

LEMMA ReadCallInv == ASSUME CharInv, NEW p \in Procs, ReadCall(p) PROVE CharInv'
<1>1. call \in [Procs -> Calls] /\ UNCHANGED <<buffer, buffer_size, message>> /\ In(p, "none")
  BY CallsTyped DEF CharInv, ReadCall
<1>2. PICK n \in Counts :
        call' = [call EXCEPT ![p] = [Idle EXCEPT !.op = "read", !.count = n, !.len = Readable(n),
                                                 !.quiet = NoOtherWrites(p)]]
  BY DEF ReadCall
<1> DEFINE c == [Idle EXCEPT !.op = "read", !.count = n, !.len = Readable(n),
                             !.quiet = NoOtherWrites(p)]
<1>3. /\ n \in Nat /\ buffer_size \in 0 .. Size /\ buffer_size = message.len
      /\ Readable(n) \in 0 .. Size /\ Readable(n) = Minimum(n, message.len)
  <2>1. n \in Nat /\ buffer_size \in 0 .. Size /\ Size \in Nat /\ buffer_size = message.len
    BY CharDeviceAssumption DEF CharInv, CharTypeOK, Stored
  <2>2. buffer_size \in Nat
    BY <2>1
  <2>3. Minimum(n, buffer_size) \in Nat /\ Minimum(n, buffer_size) <= buffer_size
    BY ONLY <2>1, <2>2, MinimumBounds
  <2> QED
    BY <2>1, <2>3 DEF Readable
<1>4. NoOtherWrites(p) \in BOOLEAN
  BY DEF NoOtherWrites
<1>5. c \in Calls
  BY <1>3, <1>4, IdleTyped DEF Calls
<1>6. /\ c.op = "read" /\ c.count = n /\ c.len = Readable(n) /\ c.done = 0 /\ c.out = <<>>
      /\ c.quiet = NoOtherWrites(p)
  BY DEF Idle
<1>7. call' = [call EXCEPT ![p] = c]
  BY <1>2
<1> HIDE DEF c
<1>8. call' \in [Procs -> Calls] /\ call'[p] = c /\ \A q \in Procs \ {p} : call'[q] = call[q]
  BY <1>1, <1>5, <1>7
<1>9. CharTypeOK'
  BY <1>1, <1>8, CallsTyped DEF CharInv, CharTypeOK, Calls
<1>10. \A q \in Procs : In(q, "write")' <=> In(q, "write")
  BY <1>1, <1>6, <1>8 DEF In
<1>11. CopyProgress'
  <2>1. c.done <= c.len /\ Len(c.out) = c.done
    BY <1>3, <1>6
  <2> QED
    BY <1>8, <2>1 DEF CharInv, CopyProgress, In
<1>12. QuietFills'
  <2>1. \A q \in Procs : In(q, "write") => call'[q] = call[q]
    BY <1>1, <1>8 DEF In
  <2> QED
    BY <1>1, <1>10, <2>1 DEF CharInv, QuietFills, NoOtherWrites
<1>13. Stored'
  BY <1>1 DEF CharInv, Stored
<1>14. QuietSees'
  <2> SUFFICES ASSUME NEW q \in Procs, In(q, "read")', call'[q].quiet
               PROVE  /\ \A r \in Procs : ~In(r, "write")
                      /\ call'[q].len = Minimum(call'[q].count, message.len)
                      /\ message.intact
                           => \A k \in 1 .. call'[q].done : call'[q].out[k] = message.val
    BY <1>1, <1>10 DEF QuietSees
  <2>1. CASE q = p
    <3>1. \A r \in Procs : ~In(r, "write")
      BY <1>1, <1>6, <1>8, <2>1 DEF NoOtherWrites, In
    <3> QED
      BY <1>3, <1>6, <1>8, <2>1, <3>1
  <2>2. CASE q # p
    BY <1>8, <2>2 DEF CharInv, QuietSees, In
  <2> QED
    BY <2>1, <2>2
<1> QED
  BY <1>9, <1>11, <1>12, <1>13, <1>14 DEF CharInv

LEMMA ReadCopyInv == ASSUME CharInv, NEW p \in Procs, ReadCopy(p) PROVE CharInv'
<1>1. /\ call \in [Procs -> Calls] /\ UNCHANGED <<buffer, buffer_size, message>>
      /\ In(p, "read") /\ call[p].done < call[p].len
      /\ buffer \in [1 .. Size -> Bytes]
  BY CallsTyped DEF CharInv, ReadCopy
<1>2. CASE Return(p)
  <2>1. Idle.op = "none" /\ Idle.done <= Idle.len
    BY DEF Idle
  <2> QED
    BY <1>1, <1>2, <2>1, IdleTyped, CallEnds DEF Return
<1>3. CASE call' = [call EXCEPT ![p].out = Append(@, buffer[call[p].done + 1]), ![p].done = @ + 1]
  <2> DEFINE old == call[p]
             c == [old EXCEPT !.out = Append(@, buffer[old.done + 1]), !.done = @ + 1]
  <2>1. call' = [call EXCEPT ![p] = c]
    BY <1>1, <1>3 DEF Calls
  <2>2. /\ old \in Calls /\ old.done \in Nat /\ old.len \in 0 .. Size /\ old.done + 1 \in 1 .. Size
        /\ old.out \in Seq(Bytes) /\ Len(old.out) = old.done
    BY <1>1, CharDeviceAssumption DEF Calls, CharInv, CopyProgress
  <2>3. /\ c.op = "read" /\ c.done = old.done + 1 /\ c.len = old.len /\ c.count = old.count
        /\ c.quiet = old.quiet /\ c.out = Append(old.out, buffer[old.done + 1])
    BY <1>1, <2>2 DEF Calls, In
  <2>4. buffer[old.done + 1] \in Bytes
    BY <1>1, <2>2
  <2>5. /\ c.out \in Seq(Bytes) /\ Len(c.out) = c.done
        /\ \A k \in 1 .. old.done : c.out[k] = old.out[k]
        /\ c.out[old.done + 1] = buffer[old.done + 1]
    BY <2>2, <2>3, <2>4
  <2>6. c \in Calls
    <3>1. old.done + 1 \in 0 .. Size
      BY <2>2
    <3>2. Append(old.out, buffer[old.done + 1]) \in Seq(Bytes)
      BY <2>3, <2>5
    <3> QED
      BY <2>2, <3>1, <3>2 DEF Calls
  <2> HIDE DEF c
  <2>7. call' \in [Procs -> Calls] /\ call'[p] = c /\ \A q \in Procs \ {p} : call'[q] = call[q]
    BY <1>1, <2>1, <2>6
  <2>8. CharTypeOK'
    BY <1>1, <2>7, CallsTyped DEF CharInv, CharTypeOK, Calls
  <2>9. \A q \in Procs : /\ In(q, "write")' <=> In(q, "write")
                         /\ In(q, "read")' <=> In(q, "read")
    BY <1>1, <2>3, <2>7 DEF In
  <2>10. CopyProgress'
    BY <1>1, <2>2, <2>3, <2>5, <2>7 DEF CharInv, CopyProgress, In
  <2>11. QuietFills'
    <3>1. \A q \in Procs : In(q, "write") => call'[q] = call[q]
      BY <1>1, <2>7 DEF In
    <3> QED
      BY <1>1, <2>9, <3>1 DEF CharInv, QuietFills, NoOtherWrites
  <2>12. Stored'
    BY <1>1 DEF CharInv, Stored
  <2>13. QuietSees'
    <3> SUFFICES ASSUME NEW q \in Procs, In(q, "read"), call'[q].quiet
                 PROVE  /\ \A r \in Procs : ~In(r, "write")
                        /\ call'[q].len = Minimum(call'[q].count, message.len)
                        /\ message.intact
                             => \A k \in 1 .. call'[q].done : call'[q].out[k] = message.val
      BY <1>1, <2>9 DEF QuietSees
    <3>1. CASE q = p
      <4>1. /\ \A r \in Procs : ~In(r, "write")
            /\ old.len = Minimum(old.count, message.len)
            /\ message.intact => \A k \in 1 .. old.done : old.out[k] = message.val
        BY <2>3, <2>7, <3>1 DEF CharInv, QuietSees
      <4>2. message.len \in Nat /\ old.count \in Nat /\ old.done + 1 \in 1 .. message.len
        <5>1. message.len \in 0 .. Size /\ old.count \in Nat
          BY <2>2 DEF CharInv, CharTypeOK, Calls
        <5>2. message.len \in Nat /\ Size \in Nat
          BY <5>1, CharDeviceAssumption
        <5>3. Minimum(old.count, message.len) <= message.len
          BY <5>1, <5>2, MinimumBounds
        <5> QED
          BY <1>1, <2>2, <4>1, <5>1, <5>2, <5>3
      <4>3. message.intact => buffer[old.done + 1] = message.val
        BY <4>2 DEF CharInv, Stored
      <4>4. \A k \in 1 .. c.done : k \in 1 .. old.done \/ k = old.done + 1
        BY <2>2, <2>3
      <4>5. message.intact => \A k \in 1 .. c.done : c.out[k] = message.val
        BY <2>5, <4>1, <4>3, <4>4
      <4> QED
        BY <2>3, <2>7, <3>1, <4>1, <4>5
    <3>2. CASE q # p
      BY <2>7, <3>2 DEF CharInv, QuietSees
    <3> QED
      BY <3>1, <3>2
  <2> QED
    BY <2>8, <2>10, <2>11, <2>12, <2>13 DEF CharInv
<1> QED
  BY <1>2, <1>3 DEF ReadCopy

LEMMA ReadReturnInv == ASSUME CharInv, NEW p \in Procs, ReadReturn(p) PROVE CharInv'
<1>1. Idle.op = "none" /\ Idle.done <= Idle.len
  BY DEF Idle
<1> QED
  BY <1>1, IdleTyped, CallEnds DEF ReadReturn, Return

LEMMA WriteCallInv == ASSUME CharInv, NEW p \in Procs, WriteCall(p) PROVE CharInv'
<1>1. call \in [Procs -> Calls] /\ UNCHANGED <<buffer, buffer_size, message>> /\ In(p, "none")
  BY CallsTyped DEF CharInv, WriteCall
<1>2. PICK n \in Counts, v \in Values :
        call' = [q \in Procs |->
                   IF q # p THEN [call[q] EXCEPT !.quiet = FALSE]
                   ELSE [Idle EXCEPT !.op = "write", !.count = n, !.len = Writable(n),
                                     !.val = v, !.quiet = NoOtherWrites(p)]]
  BY DEF WriteCall
<1> DEFINE c == [Idle EXCEPT !.op = "write", !.count = n, !.len = Writable(n),
                             !.val = v, !.quiet = NoOtherWrites(p)]
<1>3. n \in Nat /\ Writable(n) \in 0 .. Size /\ v \in Bytes
  <2>1. n \in Nat /\ Size \in Nat /\ v \in Bytes
    BY CharDeviceAssumption DEF Bytes
  <2>2. Minimum(n, Size) \in Nat /\ Minimum(n, Size) <= Size
    BY <2>1, MinimumBounds
  <2> QED
    BY <2>1, <2>2 DEF Writable
<1>4. NoOtherWrites(p) \in BOOLEAN
  BY DEF NoOtherWrites
<1>5. c \in Calls
  BY <1>3, <1>4, IdleTyped DEF Calls
<1>6. c.op = "write" /\ c.done = 0 /\ c.len = Writable(n) /\ c.quiet = NoOtherWrites(p)
  BY DEF Idle
<1>7. call'[p] = c
  BY <1>2
<1>8. ASSUME NEW q \in Procs, q # p
      PROVE  /\ call'[q] \in Calls /\ call'[q].quiet = FALSE
             /\ call'[q].op = call[q].op /\ call'[q].done = call[q].done
             /\ call'[q].len = call[q].len /\ call'[q].out = call[q].out
  <2>1. call'[q] = [call[q] EXCEPT !.quiet = FALSE] /\ call[q] \in Calls
    BY <1>1, <1>2, <1>8
  <2> DEFINE r == call[q]
  <2>2. call'[q] = [r EXCEPT !.quiet = FALSE] /\ r \in Calls
    BY <2>1
  <2> HIDE DEF r
  <2> SUFFICES /\ call'[q] \in Calls /\ call'[q].quiet = FALSE
               /\ call'[q].op = r.op /\ call'[q].done = r.done
               /\ call'[q].len = r.len /\ call'[q].out = r.out
    BY DEF r
  <2>3. call'[q].op = r.op /\ call'[q].done = r.done /\ call'[q].len = r.len /\ call'[q].out = r.out
    BY ONLY <2>2 DEF Calls
  <2>4. call'[q].quiet = FALSE
    BY ONLY <2>2 DEF Calls
  <2>5. call'[q] \in Calls
    BY ONLY <2>2, FALSE \in BOOLEAN DEF Calls
  <2> QED
    BY ONLY <2>3, <2>4, <2>5
<1>9. call' \in [Procs -> Calls]
  <2>1. DOMAIN call' = Procs /\ call' = [q \in Procs |-> call'[q]]
    BY <1>2
  <2> QED
    BY <1>5, <1>7, <1>8, <2>1
<1> HIDE DEF c
<1>10. CharTypeOK'
  BY <1>1, <1>9, CallsTyped DEF CharInv, CharTypeOK, Calls
<1>11. CopyProgress'
  <2>1. c.done <= c.len
    BY <1>3, <1>6
  <2> QED
    BY <1>6, <1>7, <1>8, <2>1 DEF CharInv, CopyProgress, In
<1>12. QuietFills'
  <2> SUFFICES ASSUME NEW q \in Procs, In(q, "write")', call'[q].quiet
               PROVE  NoOtherWrites(q)' /\ \A k \in 1 .. call'[q].done : buffer[k] = call'[q].val
    BY <1>1 DEF QuietFills
  <2>1. q = p
    BY <1>8
  <2>2. NoOtherWrites(p)'
    BY <1>6, <1>7, <1>8, <2>1 DEF NoOtherWrites, In
  <2> QED
    BY <1>6, <1>7, <2>1, <2>2
<1>13. Stored'
  BY <1>1 DEF CharInv, Stored
<1>14. QuietSees'
  BY <1>6, <1>7, <1>8 DEF QuietSees, In
<1> QED
  BY <1>10, <1>11, <1>12, <1>13, <1>14 DEF CharInv

\* While p writes, no call of another is undisturbed.
LEMMA WriterDisturbs ==
  ASSUME CharInv, NEW p \in Procs, In(p, "write"), NEW q \in Procs \ {p},
         In(q, "read") \/ In(q, "write")
  PROVE  ~call[q].quiet
<1>1. In(q, "write") /\ call[q].quiet => NoOtherWrites(q)
  BY DEF CharInv, QuietFills
<1>2. In(q, "read") /\ call[q].quiet => ~In(p, "write")
  BY DEF CharInv, QuietSees
<1> QED
  BY <1>1, <1>2 DEF NoOtherWrites

\* What p does to the buffer while it writes concerns no undisturbed call but its own.
LEMMA WriteStep ==
  ASSUME CharInv, NEW p \in Procs, In(p, "write"), NEW c \in Calls, c.done <= c.len,
         call' = [call EXCEPT ![p] = c],
         c.op = "none" \/ /\ c.op = "write" /\ c.quiet = call[p].quiet
                          /\ c.quiet => \A k \in 1 .. c.done : buffer'[k] = c.val,
         buffer' \in [1 .. Size -> Bytes], buffer_size' \in 0 .. Size,
         message' \in [val : Bytes, len : 0 .. Size, intact : BOOLEAN], Stored'
  PROVE  CharInv'
<1>1. call \in [Procs -> Calls]
  BY CallsTyped DEF CharInv
<1>2. call' \in [Procs -> Calls] /\ call'[p] = c /\ \A q \in Procs \ {p} : call'[q] = call[q]
  BY <1>1
<1>3. CharTypeOK'
  BY <1>2 DEF CharTypeOK, Calls
<1>4. \A q \in Procs : In(q, "read")' => q # p /\ In(q, "read") /\ call'[q] = call[q]
  BY <1>2 DEF In
<1>5. \A q \in Procs : In(q, "write")' => In(q, "write")
  BY <1>2 DEF In
<1>6. CopyProgress'
  BY <1>2, <1>4 DEF CharInv, CopyProgress
<1>7. QuietFills'
  <2> SUFFICES ASSUME NEW q \in Procs, In(q, "write")', call'[q].quiet
               PROVE  NoOtherWrites(q)' /\ \A k \in 1 .. call'[q].done : buffer'[k] = call'[q].val
    BY DEF QuietFills
  <2>1. q = p
    <3>1. ASSUME q # p PROVE FALSE
      <4>1. call'[q] = call[q] /\ q \in Procs \ {p} /\ In(q, "write")
        BY <1>2, <1>5, <3>1
      <4> QED
        BY <4>1, WriterDisturbs
    <3> QED
      BY <3>1
  <2>2. c.op = "write"
    BY <1>2, <2>1 DEF In
  <2>3. NoOtherWrites(p)'
    <3>1. NoOtherWrites(p)
      BY <1>2, <2>1, <2>2 DEF CharInv, QuietFills
    <3> QED
      BY <1>5, <3>1 DEF NoOtherWrites
  <2> QED
    BY <1>2, <2>1, <2>2, <2>3
<1>8. QuietSees'
  <2> SUFFICES ASSUME NEW q \in Procs, In(q, "read")', call'[q].quiet PROVE FALSE
    BY DEF QuietSees
  <2>1. q \in Procs \ {p} /\ In(q, "read") /\ call[q].quiet
    BY <1>4
  <2> QED
    BY <2>1, WriterDisturbs
<1> QED
  BY <1>3, <1>6, <1>7, <1>8 DEF CharInv

LEMMA WriteCopyInv == ASSUME CharInv, NEW p \in Procs, WriteCopy(p) PROVE CharInv'
<1> DEFINE old == call[p]
<1>1. /\ call \in [Procs -> Calls] /\ In(p, "write") /\ old.done < old.len
      /\ buffer \in [1 .. Size -> Bytes] /\ buffer_size \in 0 .. Size
      /\ message \in [val : Bytes, len : 0 .. Size, intact : BOOLEAN]
      /\ message' = [message EXCEPT !.intact = FALSE] /\ buffer_size' = buffer_size
  BY CallsTyped DEF CharInv, WriteCopy
<1>2. /\ old \in Calls /\ old.done \in Nat /\ old.len \in 0 .. Size /\ old.done + 1 \in 1 .. Size
      /\ old.val \in Bytes
  BY <1>1, CharDeviceAssumption DEF Calls
<1>3. /\ message' \in [val : Bytes, len : 0 .. Size, intact : BOOLEAN]
      /\ message'.len = message.len /\ message'.intact = FALSE
  BY <1>1
<1>4. Stored'
  BY <1>1, <1>3 DEF CharInv, Stored
<1>5. CASE /\ buffer' = [buffer EXCEPT ![old.done + 1] = old.val]
           /\ call' = [call EXCEPT ![p].done = @ + 1]
  <2> DEFINE c == [old EXCEPT !.done = @ + 1]
  <2>1. call' = [call EXCEPT ![p] = c]
    BY <1>5
  <2>2. /\ c \in Calls /\ c.op = "write" /\ c.quiet = old.quiet /\ c.val = old.val
        /\ c.done = old.done + 1 /\ c.len = old.len
    <3>1. old.done + 1 \in 0 .. Size
      BY <1>2
    <3> QED
      BY <1>1, <1>2, <3>1 DEF Calls, In
  <2> HIDE DEF c
  <2>3. buffer' \in [1 .. Size -> Bytes]
    BY <1>1, <1>2, <1>5
  <2>4. c.done <= c.len
    BY <1>1, <1>2, <2>2
  <2>5. ASSUME c.quiet, NEW k \in 1 .. c.done PROVE buffer'[k] = c.val
    <3>1. \A j \in 1 .. old.done : buffer[j] = old.val
      BY <1>1, <2>2, <2>5 DEF CharInv, QuietFills
    <3>2. k = old.done + 1 \/ k \in 1 .. old.done
      BY <1>2, <2>2
    <3>3. k \in 1 .. Size
      <4>1. Size \in Nat /\ c.done \in 1 .. Size /\ k \in 1 .. c.done
        BY <1>2, <2>2, CharDeviceAssumption
      <4> QED
        BY ONLY <4>1
    <3> QED
      BY <1>1, <1>2, <1>5, <2>2, <3>1, <3>2, <3>3
  <2> QED
    BY <1>1, <1>3, <1>4, <2>1, <2>2, <2>3, <2>4, <2>5, WriteStep
<1>6. CASE /\ buffer' = [k \in 1 .. Size |-> IF k \in old.done + 1 .. old.len THEN 0 ELSE buffer[k]]
           /\ Return(p)
  <2>1. 0 \in Bytes
    BY DEF Bytes
  <2>2. buffer' \in [1 .. Size -> Bytes]
    BY <1>1, <1>6, <2>1
  <2>3. call' = [call EXCEPT ![p] = Idle] /\ Idle.op = "none" /\ Idle.done <= Idle.len
    BY <1>6 DEF Return, Idle
  <2> QED
    BY <1>1, <1>3, <1>4, <2>2, <2>3, IdleTyped, WriteStep
<1> QED
  BY <1>5, <1>6 DEF WriteCopy

LEMMA WriteSetInv == ASSUME CharInv, NEW p \in Procs, WriteSet(p) PROVE CharInv'
<1> DEFINE old == call[p]
<1>1. /\ call \in [Procs -> Calls] /\ In(p, "write") /\ old.done = old.len
      /\ buffer \in [1 .. Size -> Bytes] /\ buffer' = buffer /\ buffer_size' = old.len
      /\ message' = [val |-> old.val, len |-> old.len, intact |-> old.quiet]
      /\ call' = [call EXCEPT ![p] = Idle]
  BY CallsTyped DEF CharInv, WriteSet, Return
<1>2. old \in Calls /\ old.len \in 0 .. Size /\ old.val \in Bytes /\ old.quiet \in BOOLEAN
  BY <1>1 DEF Calls
<1>3. message' \in [val : Bytes, len : 0 .. Size, intact : BOOLEAN]
  BY <1>1, <1>2
<1>4. old.quiet => \A k \in 1 .. old.done : buffer[k] = old.val
  BY <1>1 DEF CharInv, QuietFills
<1>5. Stored'
  BY <1>1, <1>4 DEF Stored
<1>6. Idle.op = "none" /\ Idle.done <= Idle.len
  BY DEF Idle
<1> QED
  BY <1>1, <1>2, <1>3, <1>5, <1>6, IdleTyped, WriteStep

LEMMA InitCharInv == Init => CharInv
<1> SUFFICES ASSUME Init PROVE CharInv
  OBVIOUS
<1>1. /\ buffer = [k \in 1 .. Size |-> 0] /\ buffer_size = 0
      /\ call = [p \in Procs |-> Idle]
      /\ message = [val |-> 0, len |-> 0, intact |-> TRUE]
  BY DEF Init, CharInit
<1>2. 0 \in 0 .. Size /\ 0 \in Bytes /\ TRUE \in BOOLEAN
  BY CharDeviceAssumption DEF Bytes
<1>3. CharTypeOK
  BY <1>1, <1>2, IdleTyped DEF CharTypeOK, Calls
<1>4. \A p \in Procs : call[p].op = "none" /\ call[p].done = 0 /\ call[p].len = 0
  BY <1>1 DEF Idle
<1> QED
  BY <1>1, <1>3, <1>4 DEF CharInv, CopyProgress, QuietFills, Stored, QuietSees, In

LEMMA NextCharInv == CharInv /\ [Next]_vars => CharInv'
<1> SUFFICES ASSUME CharInv, [Next]_vars PROVE CharInv'
  OBVIOUS
<1>1. CASE Start
  BY <1>1, CharInitInv DEF Start
<1>2. ASSUME NEW p \in Procs, CharCall(p) PROVE CharInv'
  <2>1. \/ ReadCall(p) \/ ReadCopy(p) \/ ReadReturn(p)
        \/ WriteCall(p) \/ WriteCopy(p) \/ WriteSet(p)
    BY <1>2 DEF CharCall, CharStep
  <2> QED
    BY <2>1, ReadCallInv, ReadCopyInv, ReadReturnInv, WriteCallInv, WriteCopyInv, WriteSetInv
<1>3. ASSUME NEW p \in Procs, IoctlCall(p) PROVE CharInv'
  <2> DEFINE c == [call[p] EXCEPT !.op = "ioctl"]
  <2>1. /\ call \in [Procs -> Calls] /\ call[p] \in Calls
        /\ call[p].done <= call[p].len
    BY CallsTyped DEF CharInv, CopyProgress
  <2>2. call' = [call EXCEPT ![p] = c] /\ UNCHANGED <<buffer, buffer_size, message>>
    BY <1>3 DEF IoctlCall
  <2>3. c \in Calls /\ c.op = "ioctl" /\ c.done <= c.len
    BY <2>1 DEF Calls
  <2> HIDE DEF c
  <2> QED
    BY <2>2, <2>3, CallEnds
<1>4. ASSUME NEW p \in Procs, IoctlReturn(p) PROVE CharInv'
  <2>1. Idle.op = "none" /\ Idle.done <= Idle.len
    BY DEF Idle
  <2> QED
    BY <1>4, <2>1, IdleTyped, CallEnds DEF IoctlReturn, Return
<1>5. CASE UNCHANGED chardev
  BY <1>5 DEF chardev, CharInv, CharTypeOK, CopyProgress, QuietFills, Stored, QuietSees, In,
     NoOtherWrites
<1>6. Stop \/ Finish \/ Acquire \/ Fails \/ FailsUnnoticed \/ Release \/ Waited \/ Complete
        => UNCHANGED chardev
  BY DEF Stop, Finish, Acquire, Fails, FailsUnnoticed, Release, Waited, Complete
<1>7. ASSUME NEW x \in Threads, ThreadReturns(x) PROVE UNCHANGED chardev
  BY <1>7 DEF ThreadReturns
<1>8. ASSUME NEW p \in Procs, Open(p) \/ Close(p) \/ PanelCall(p) PROVE UNCHANGED chardev
  BY <1>8 DEF Open, Close, PanelCall
<1>9. UNCHANGED vars => UNCHANGED chardev
  BY DEF vars
<1> QED
  BY <1>1, <1>2, <1>3, <1>4, <1>5, <1>6, <1>7, <1>8, <1>9 DEF Next

\* A read that no write overlaps returns the last message, whoever reads and
\* however often, whatever the size of the buffer and of the user's.
THEOREM QuietReadsRepeat == Spec => []QuietReadRepeats
<1>1. CharInv => QuietReadRepeats
  <2> SUFFICES ASSUME CharInv, NEW p \in Procs, In(p, "read"), call[p].done = call[p].len,
                      call[p].quiet, message.intact
               PROVE  call[p].out = [k \in 1 .. Minimum(call[p].count, message.len) |-> message.val]
    BY DEF QuietReadRepeats
  <2> DEFINE m == Minimum(call[p].count, message.len)
             r == [k \in 1 .. m |-> message.val]
  <2>1. /\ call[p].out \in Seq(Bytes) /\ message.val \in Bytes
        /\ call[p].len \in 0 .. Size
    BY DEF CharInv, CharTypeOK
  <2>2. /\ Len(call[p].out) = m /\ call[p].len = m
        /\ \A k \in 1 .. m : call[p].out[k] = message.val
    BY DEF CharInv, CopyProgress, QuietSees
  <2>3. m \in Nat
    BY <2>1, <2>2, CharDeviceAssumption
  <2> HIDE DEF m
  <2>4. /\ r \in Seq(Bytes) /\ Len(r) = m /\ \A k \in 1 .. m : r[k] = message.val
    BY <2>1, <2>3
  <2> HIDE DEF r
  <2>5. call[p].out = r
    BY <2>1, <2>2, <2>4, SeqEqual
  <2> QED
    BY <2>5 DEF r, m
<1> QED
  BY <1>1, InitCharInv, NextCharInv, PTL DEF Spec

-----------------------------------------------------------------------------
(***************************************************************************)
(* The panel.                                                              *)
(***************************************************************************)
Switches == [prepared : BOOLEAN, enabled : BOOLEAN, power : Int, light : Int]

\* Power and light are counted by their flags, with or without a context.
PanelInv ==
  /\ panel \in Switches
  /\ panel.power = IF panel.prepared THEN 1 ELSE 0
  /\ panel.light = IF panel.enabled THEN 1 ELSE 0

LEMMA NoPanelInv == /\ NoPanel \in Switches /\ ~NoPanel.prepared /\ ~NoPanel.enabled
                    /\ NoPanel.power = 0 /\ NoPanel.light = 0
  BY DEF NoPanel, Switches

LEMMA Switched ==
  ASSUME panel \in Switches, NEW b \in BOOLEAN, NEW n \in Int
  PROVE  /\ [panel EXCEPT !.prepared = b, !.power = n] \in Switches
         /\ [panel EXCEPT !.enabled = b, !.light = n] \in Switches
  BY DEF Switches

LEMMA InitPanelInv == Init => PanelInv
  BY NoPanelInv DEF Init, PanelInv

LEMMA NextPanelInv == PanelInv /\ [Next]_vars => PanelInv'
<1> SUFFICES ASSUME PanelInv, [Next]_vars PROVE PanelInv'
  OBVIOUS
<1>1. CASE UNCHANGED panel
  BY <1>1 DEF PanelInv
<1>2. CASE Acquire
  <2>1. panel' = NoPanel \/ panel' = panel
    BY <1>2 DEF Acquire
  <2> QED
    BY <1>1, <2>1, NoPanelInv DEF PanelInv
<1>3. ASSUME NEW p \in Procs, PanelCall(p) PROVE PanelInv'
  <2>1. panel' \in {prepare, enable, disable, unprepare}
    BY <1>3 DEF PanelCall
  <2>2. CASE panel' = prepare
    <3>1. CASE panel.prepared
      BY <1>1, <2>2, <3>1 DEF prepare
    <3>2. CASE ~panel.prepared
      <4>1. /\ panel' = [panel EXCEPT !.prepared = TRUE, !.power = @ + 1]
            /\ panel \in Switches
        BY <2>2, <3>2 DEF prepare, PanelInv
      <4>2. /\ panel'.prepared = TRUE /\ panel'.power = panel.power + 1
            /\ panel'.enabled = panel.enabled /\ panel'.light = panel.light
        BY <4>1 DEF Switches
      <4>3. TRUE \in BOOLEAN /\ panel.power + 1 \in Int
        BY <4>1 DEF Switches
      <4>4. panel' \in Switches
        BY <4>1, <4>3, Switched
      <4> QED
        BY <3>2, <4>2, <4>4 DEF PanelInv
    <3> QED
      BY <3>1, <3>2
  <2>3. CASE panel' = enable
    <3>1. CASE panel.enabled
      BY <1>1, <2>3, <3>1 DEF enable
    <3>2. CASE ~panel.enabled
      <4>1. /\ panel' = [panel EXCEPT !.enabled = TRUE, !.light = @ + 1]
            /\ panel \in Switches
        BY <2>3, <3>2 DEF enable, PanelInv
      <4>2. /\ panel'.enabled = TRUE /\ panel'.light = panel.light + 1
            /\ panel'.prepared = panel.prepared /\ panel'.power = panel.power
        BY <4>1 DEF Switches
      <4>3. TRUE \in BOOLEAN /\ panel.light + 1 \in Int
        BY <4>1 DEF Switches
      <4>4. panel' \in Switches
        BY <4>1, <4>3, Switched
      <4> QED
        BY <3>2, <4>2, <4>4 DEF PanelInv
    <3> QED
      BY <3>1, <3>2
  <2>4. CASE panel' = disable
    <3>1. CASE ~panel.enabled
      BY <1>1, <2>4, <3>1 DEF disable
    <3>2. CASE panel.enabled
      <4>1. /\ panel' = [panel EXCEPT !.enabled = FALSE, !.light = @ - 1]
            /\ panel \in Switches
        BY <2>4, <3>2 DEF disable, PanelInv
      <4>2. /\ panel'.enabled = FALSE /\ panel'.light = panel.light - 1
            /\ panel'.prepared = panel.prepared /\ panel'.power = panel.power
        BY <4>1 DEF Switches
      <4>3. FALSE \in BOOLEAN /\ panel.light - 1 \in Int
        BY <4>1 DEF Switches
      <4>4. panel' \in Switches
        BY <4>1, <4>3, Switched
      <4> QED
        BY <3>2, <4>2, <4>4 DEF PanelInv
    <3> QED
      BY <3>1, <3>2
  <2>5. CASE panel' = unprepare
    <3>1. CASE ~panel.prepared
      BY <1>1, <2>5, <3>1 DEF unprepare
    <3>2. CASE panel.prepared
      <4>1. /\ panel' = [panel EXCEPT !.prepared = FALSE, !.power = @ - 1]
            /\ panel \in Switches
        BY <2>5, <3>2 DEF unprepare, PanelInv
      <4>2. /\ panel'.prepared = FALSE /\ panel'.power = panel.power - 1
            /\ panel'.enabled = panel.enabled /\ panel'.light = panel.light
        BY <4>1 DEF Switches
      <4>3. FALSE \in BOOLEAN /\ panel.power - 1 \in Int
        BY <4>1 DEF Switches
      <4>4. panel' \in Switches
        BY <4>1, <4>3, Switched
      <4> QED
        BY <3>2, <4>2, <4>4 DEF PanelInv
    <3> QED
      BY <3>1, <3>2
  <2> QED
    BY <2>1, <2>2, <2>3, <2>4, <2>5
<1>4. Start \/ Stop \/ Finish \/ Fails \/ FailsUnnoticed \/ Release \/ Waited \/ Complete
        => UNCHANGED panel
  BY DEF Start, Stop, Finish, Fails, FailsUnnoticed, Release, Waited, Complete
<1>5. ASSUME NEW x \in Threads, ThreadReturns(x) PROVE UNCHANGED panel
  BY <1>5 DEF ThreadReturns
<1>6. ASSUME NEW p \in Procs, Open(p) \/ Close(p) \/ CharCall(p) \/ IoctlCall(p) \/ IoctlReturn(p)
      PROVE  UNCHANGED panel
  BY <1>6 DEF Open, Close, CharCall, IoctlCall, IoctlReturn
<1>7. UNCHANGED vars => UNCHANGED panel
  BY DEF vars
<1> QED
  BY <1>1, <1>2, <1>3, <1>4, <1>5, <1>6, <1>7 DEF Next

\* However the display stack orders and repeats its calls, power and light are
\* on once or not at all, and the flags of the context say which.
THEOREM PanelStaysBalanced == Spec => []PanelBalanced
<1>1. PanelInv => PanelBalanced
  BY DEF PanelInv, PanelBalanced
<1> QED
  BY <1>1, InitPanelInv, NextPanelInv, PTL DEF Spec

-----------------------------------------------------------------------------
\* The types of all the variables; those of the users rest on the life cycles.
THEOREM DriversTypeCorrect == Spec => []TypeOK
<1> DEFINE Inv == LifeInv /\ PeopleInv /\ CharInv /\ PanelInv /\ completed \in BOOLEAN
<1>1. Inv => TypeOK
  BY DEF LifeInv, PeopleInv, CharInv, PanelInv, Switches, TypeOK
<1>2. Init => Inv
  <2>1. Init => completed \in BOOLEAN
    BY DEF Init
  <2> QED
    BY <2>1, InitLifeInv, InitPeopleInv, InitCharInv, InitPanelInv
<1>3. Inv /\ [Next]_vars => Inv'
  <2> SUFFICES ASSUME completed \in BOOLEAN, [Next]_vars PROVE completed' \in BOOLEAN
    BY NextLifeInv, NextPeopleInv, NextCharInv, NextPanelInv
  <2>1. Start \/ Complete => completed' \in BOOLEAN
    BY DEF Start, Complete
  <2>2. Stop \/ Finish \/ Acquire \/ Fails \/ FailsUnnoticed \/ Release \/ Waited
          => UNCHANGED completed
    BY DEF Stop, Finish, Acquire, Fails, FailsUnnoticed, Release, Waited
  <2>3. ASSUME NEW x \in Threads, ThreadReturns(x) PROVE UNCHANGED completed
    BY <2>3 DEF ThreadReturns
  <2>4. ASSUME NEW p \in Procs, \/ Open(p) \/ Close(p) \/ CharCall(p) \/ IoctlCall(p)
                                \/ IoctlReturn(p) \/ PanelCall(p)
        PROVE  UNCHANGED completed
    BY <2>4 DEF Open, Close, CharCall, IoctlCall, IoctlReturn, PanelCall
  <2>5. UNCHANGED vars => UNCHANGED completed
    BY DEF vars
  <2> QED
    BY <2>1, <2>2, <2>3, <2>4, <2>5 DEF Next
<1> QED
  BY <1>1, <1>2, <1>3, PTL DEF Spec
=============================================================================
