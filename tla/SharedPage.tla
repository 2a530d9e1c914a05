------------------------------ MODULE SharedPage ------------------------------
(***************************************************************************)
(* memory/mmap_driver_example/kernel/mmap_dev.c and                        *)
(* memory/page_fault_example/kernel/fault_dev.c: a misc device that lends  *)
(* one page, allocated by my_init and freed by my_exit, to any number of   *)
(* processes.  mmap_dev enters the page into the caller's tables at once   *)
(* (remap_pfn_range, which takes no reference on it); fault_dev does so    *)
(* page by page when the process touches them (my_fault, get_page).        *)
(*                                                                         *)
(* Processes open, map, touch, unmap, close and fork in any order, while   *)
(* the module is loaded and unloaded.  A file, and a mapping of it, hold a *)
(* reference on the module.  Each process has at most one mapping here.    *)
(***************************************************************************)
EXTENDS Integers, FiniteSets

CONSTANTS
  Procs,
  Frames,       \* the physical pages alloc_page can return
  MaxLen        \* bound: the length of a mapping, in pages

ASSUME SharedPageAssumption == Frames \subseteq Nat \ {0} /\ MaxLen \in Nat \ {0}

VARIABLES
  driver,       \* "mmap_dev" or "fault_dev": which of the two this is
  module,       \* "out", "live" (loaded, device registered), "going" (rmmod)
  page,         \* shared_page or fault_page; 0 when NULL
  owned,        \* pages the driver has got from alloc_page and not freed
  fd,           \* the processes with the device open
  vma,          \* vma[p]: pages in the mapping of p, 0 without one
  pte,          \* pte[p][k]: the frame behind page k of it, 0 if not present
  loadFailed    \* ghost: my_init has failed after alloc_page

process == <<fd, vma, pte>>
vars == <<driver, module, page, owned, process, loadFailed>>

Pages == 0 .. MaxLen - 1
NotPresent == [k \in Pages |-> 0]

TypeOK ==
  /\ driver \in {"mmap_dev", "fault_dev"}
  /\ module \in {"out", "live", "going"}
  /\ page \in Frames \cup {0}
  /\ owned \in SUBSET Frames
  /\ fd \in SUBSET Procs
  /\ vma \in [Procs -> 0 .. MaxLen]
  /\ pte \in [Procs -> [Pages -> Frames \cup {0}]]
  /\ loadFailed \in BOOLEAN

Init ==
  /\ driver \in {"mmap_dev", "fault_dev"}
  /\ module = "out" /\ page = 0 /\ owned = {}
  /\ fd = {}
  /\ vma = [p \in Procs |-> 0] /\ pte = [p \in Procs |-> NotPresent]
  /\ loadFailed = FALSE

\* What keeps the module loaded.
InUse == fd # {} \/ \E p \in Procs : vma[p] # 0

-----------------------------------------------------------------------------
\* insmod, mmap_dev: the page is freed again if it has no kernel address or if
\* the device cannot be registered.
InitMmapDev ==
  \E f \in Frames \ owned :
    \/ module' = "live" /\ page' = f /\ owned' = owned \cup {f} /\ UNCHANGED loadFailed
    \/ loadFailed' = TRUE /\ UNCHANGED <<module, page, owned>>

\* insmod, fault_dev: returns what misc_register returns.
InitFaultDev ==
  \E f \in Frames \ owned :
    /\ owned' = owned \cup {f}
    /\ \/ module' = "live" /\ page' = f /\ UNCHANGED loadFailed
       \/ loadFailed' = TRUE /\ UNCHANGED <<module, page>>

my_init ==
  /\ module = "out"
  /\ IF driver = "mmap_dev" THEN InitMmapDev ELSE InitFaultDev
  /\ UNCHANGED <<driver, process>>

\* Altered: fops without .owner.
Deregister_NoOwner ==
  /\ module = "live"
  /\ module' = "going"
  /\ UNCHANGED <<driver, page, owned, process, loadFailed>>

\* rmmod waits for nobody: it is refused while the module is in use.
Deregister ==
  /\ module = "live"
  /\ ~InUse
  /\ module' = "going"
  /\ UNCHANGED <<driver, page, owned, process, loadFailed>>

\* Altered: my_exit forgets the page.
FreePage_Leaks ==
  /\ module = "going"
  /\ page' = 0 /\ module' = "out"
  /\ UNCHANGED <<driver, owned, process, loadFailed>>

\* The rest of my_exit.
FreePage ==
  /\ module = "going"
  /\ owned' = owned \ {page}
  /\ page' = 0 /\ module' = "out"
  /\ UNCHANGED <<driver, process, loadFailed>>

-----------------------------------------------------------------------------
Open(p) ==
  /\ module = "live" /\ p \notin fd
  /\ fd' = fd \cup {p}
  /\ UNCHANGED <<driver, module, page, owned, vma, pte, loadFailed>>

Close(p) ==
  /\ p \in fd
  /\ fd' = fd \ {p}
  /\ UNCHANGED <<driver, module, page, owned, vma, pte, loadFailed>>

\* Altered: no check of vsize.
SizeOK_Any(n) == TRUE

\* if (vsize > PAGE_SIZE) return -EINVAL
SizeOK(n) == n <= 1

\* remap_pfn_range: consecutive frames from the first page of the driver on.
Remap(n) == [k \in Pages |-> IF k < n THEN page + k ELSE 0]

\* .mmap of mmap_dev; it may refuse the size, and remapping may fail.
MmapMmapDev(p, n) ==
  /\ page # 0 /\ SizeOK(n)
  /\ pte' = [pte EXCEPT ![p] = Remap(n)]

\* .mmap of fault_dev: any size, nothing is mapped yet.
MmapFaultDev(p) == pte' = [pte EXCEPT ![p] = NotPresent]

Mmap(p) ==
  /\ p \in fd /\ vma[p] = 0
  /\ \E n \in 1 .. MaxLen :
       /\ vma' = [vma EXCEPT ![p] = n]
       /\ IF driver = "mmap_dev" THEN MmapMmapDev(p, n) ELSE MmapFaultDev(p)
  /\ UNCHANGED <<driver, module, page, owned, fd, loadFailed>>

\* my_fault returns fault_page, whatever the offset.
FaultFrame(k) == page

\* An access to a page that is not present; with no page, SIGBUS.
Fault(p) ==
  /\ driver = "fault_dev"
  /\ \E k \in 0 .. vma[p] - 1 :
       /\ pte[p][k] = 0
       /\ page # 0
       /\ pte' = [pte EXCEPT ![p][k] = FaultFrame(k)]
  /\ UNCHANGED <<driver, module, page, owned, fd, vma, loadFailed>>

Munmap(p) ==
  /\ vma[p] # 0
  /\ vma' = [vma EXCEPT ![p] = 0]
  /\ pte' = [pte EXCEPT ![p] = NotPresent]
  /\ UNCHANGED <<driver, module, page, owned, fd, loadFailed>>

\* fork: the child has the files and the mappings of its parent; entries made
\* by remap_pfn_range are copied, those made by faults are not.
Fork(p, q) ==
  /\ q \notin fd /\ vma[q] = 0
  /\ p \in fd \/ vma[p] # 0
  /\ fd' = IF p \in fd THEN fd \cup {q} ELSE fd
  /\ vma' = [vma EXCEPT ![q] = vma[p]]
  /\ pte' = [pte EXCEPT ![q] = IF driver = "mmap_dev" THEN pte[p] ELSE NotPresent]
  /\ UNCHANGED <<driver, module, page, owned, loadFailed>>

Next ==
  \/ my_init \/ Deregister \/ FreePage
  \/ \E p \in Procs : Open(p) \/ Close(p) \/ Mmap(p) \/ Fault(p) \/ Munmap(p)
  \/ \E p, q \in Procs : Fork(p, q)

Spec == Init /\ [][Next]_vars

-----------------------------------------------------------------------------
\* Whatever a process can reach through its mapping, after close, fork and any
\* number of module loads, is the one page of the driver that is loaded now:
\* never a page that has been freed, and never a neighbour of it.
MappingsShareThePage ==
  \A p \in Procs : \A k \in Pages :
    pte[p][k] # 0 => module = "live" /\ page \in owned /\ pte[p][k] = page

\* Unloading returns the page.  (fault_dev keeps it when misc_register fails.)
PageReturned ==
  module = "out" => \/ owned = {}
                    \/ driver = "fault_dev" /\ loadFailed
=============================================================================
