# A TLA+ model of the embedded-linux-bsp examples

The repository collects notes on Linux board support and, under
`src/code/examples`, about 3400 lines of small C programs: kernel modules that
show one mechanism each (mutex, spinlock, wait queue, completion, mmap, page
fault, ...) and user programs that drive the DRM display stack.  Each is short;
what is hard about each is the mechanism it shows, that is, what happens when
several threads, processes, workers, interrupts or a display act at once, and
when a call in the middle of a long sequence fails.  That is what is modelled
here.

Contents: [inventory](#1-inventory) · [plan](#2-plan) ·
[modules](#3-modules-and-how-they-correspond-to-the-code) ·
[runs](#4-what-tlc-checks) · [fairness](#5-fairness) ·
[proofs](#6-what-is-proved) · [disagreements](#7-where-the-code-disagrees-with-its-documents) ·
[limits](#8-what-is-not-modelled)

## 1. Inventory

Paths are relative to `src/code/examples`.

| Component | State it keeps | Operations | What is hard | What makes it correct |
|---|---|---|---|---|
| Mutex counter device, `synchronization/mutex` | `counter_lock`, `shared_counter`, `f_pos` of each file | open, read, write, close, insmod, rmmod | `+=` is a load and a store; `int` wraps; unload between calls | each call is one atomic operation on the counter; no call without the module; every call returns |
| Spinlock counter device, `synchronization/spinlock` | the same, plus interrupt state of the CPUs | open, read, write, close, insmod, rmmod | spinning while the holder is preempted or interrupted; sleeping in atomic context | the same abstract counter; the holder runs; interrupts are restored on every path |
| Wait queue device, `synchronization/waitqueue` | `my_wq`, `buffer`, `data_available`, without a lock | blocking read, write, insmod, rmmod | wake-up between test and sleep; two readers, one message; writers that mix; faults half way | no lost wake-up; an undisturbed read delivers one message |
| Completion device, `synchronization/completion` | `my_completion`, delayed work `my_work` | read (wait), write (re-arm, schedule), the work, insmod, rmmod | re-arming races with `complete` and with waiters; work already pending; unload with a timer armed | nobody stranded; one read per completion; work ends a wait once re-arming stops; nothing runs after unload |
| mmap and page-fault devices, `memory/mmap_driver_example`, `memory/page_fault_example` | `shared_page`/`fault_page`, mappings and page tables | insmod, rmmod, open, mmap, fault, munmap, fork, close | a mapping outlives its file and its process; size boundary; failed registration | a mapping reaches only the live page; the page comes back |
| Page-flip program, `drm/drm_vblank_pageflip_flow` | two buffers, `front`, `back`, `page_flip_pending`; in the kernel the objects, the flip in flight, unread events | setup, draw, flip, wait for the event, clean up | display and program run concurrently; event is later than the flip; any call may fail | no tearing, frames in order, everything released |
| Single-buffer DRM programs: `drm/drm_atomic_commit_flow`, `drm/drm_plane_crtc_flow`, `drm/dumb_buffer_flow` | descriptor, libdrm objects, one dumb buffer | one long sequence with a way out at every call | `goto` ladders, early returns, creation that fails half way, results nobody looks at | no use of or release of what is not there; clean exit; a prompt that is true |
| Hash chain, `security/hash_chain_minimal` | `measurement`, `chain` | measure a file, extend, for each component | any library call may fail half way | the final digest stands for all components, in order |
| Character and misc devices, ioctl client: `kernel/char_device`, `kernel/miscdevice`, `userspace/ioctl_basic` | `buffer`, `buffer_size`, registration | read, write, ioctl, init with unwinding, exit | no lock; undoing exactly what was done; an open before init has succeeded | a read no write overlaps returns the last message; every failure leaves nothing behind |
| Kernel-thread and lock demos: `mutex_example.c`, `spinlock_example.c`, `completion_example.c` | a counter or completion, two threads | init, threads, exit | unloading while a thread runs or after it has returned | no thread outlives the module |
| DSI panel driver, `drm/drm_mipi_dsi_panel_flow` | `prepared`, `enabled` | probe, remove, prepare, enable, disable, unprepare | calls in any order; found before probe has succeeded, or after the host was detached; removed while in use | power and light switched in turn; no call without its context |
| DRM kernel drivers: `drm/drm_simple_kms`, `drm/drm_gem_shmem_flow` | the DRM device and its mode objects | probe, remove, ioctls | unplugged under open files; order of managed releases | what a file reaches lives until its last close |
| Module, platform and memory demos: `kernel/module_basic`, `bus/platform_bus`, `memory/dma_alloc_coherent`, `memory/kmalloc_vs_vmalloc` | what init has acquired | init, exit | a failure half way | everything acquired is released once |
| Index generator: `src/tools/generate_index.js` and `.github/workflows/generate-index.yml` | `assets/notes_index.json` on main, runs of the workflow | generate, commit, push | runs race with each other and with people; a refused push is not tried again | an index is pushed only onto the tree it describes; in the end it is current |
| PRIME notes: `drm/dma_buf_prime_flow` | descriptor | open, close | - | clean exit |

How they interact.  The examples do not call one another.  Each kernel module
interacts with user threads through the VFS (`file_operations`), with the module
loader (`my_init`, `my_exit`, and `.owner`, which makes an open file or a
mapping refuse rmmod), and with the mechanism it shows: the scheduler and
interrupts (spinlock), the wait queue, the workqueue (completion), page tables.
The DRM programs interact with the kernel by ioctl, by a mapping of the buffer,
and by events read from the descriptor; the display reads the buffer on its own.

## 2. Plan

Order of the modules, the most important behaviour first:

1. *(done)* `MutexCounter`, `SpinCounter` and the `AtomicCounter` both implement.
2. *(done)* `WaitQueue`, `CompletionDevice`: blocking and waking.
3. *(done)* `PageFlip` and the `FrameSequence` it implements.
4. *(done)* `SharedPage`, for both memory drivers.
5. *(done)* `UserPrograms`: the user programs that are one sequence of calls,
   hash chain included.
6. *(done)* `CharDevice` and, on top of it, `KernelDrivers`: loading, unloading
   and unwinding of twelve drivers against their users, threads and callers.
7. *(done)* `NotesIndex`: the index generator in its workflow.

Runs: one per question, each with the fewest actors for which the hazard can
happen (two to race, a third to be affected by the race).

Theorems: every safety property of every module, and the three refinements, for
all values of the constants.  *(done)*  Liveness stays with TLC (see 6).

## 3. Modules and how they correspond to the code

Conventions.  A driver's C functions appear under their names when one action is
the whole function (`my_init`, `page_flip_handler`); a function that others can
interleave with is cut into the steps between which they can, `pc[t]` being the
next statement.  Values chosen by the user (counts, deltas) and failures of
calls (`-EFAULT`, `misc_register`, any ioctl) are nondeterministic.  Variables
marked *ghost* record history for a property and no guard reads them.
Definitions commented `Altered:` are mistakes that could have been made at that
place; they are used by no specification and serve to confirm that each checked
property notices one.

**CInt** — C arithmetic shared by the counters: `Wrap` stores a sum into an
`int`, `TextLen` is the length of `"%d\n"`.  `Modulus` stands for 2^32.

**AtomicCounter** (abstract) — what a user of either counter may rely on: `Add`
and `Get` take effect at one instant between call and return; a refused call has
no effect; `Reset` when the module is loaded anew.

**MutexCounter** — `mutex_example.c`.  `ReadCall` and `WriteCall` are the code up
to the lock with its early returns (`*ppos != 0`, bad count, `-EFAULT`,
`kstrtol`); `ReadLock ReadLoad ReadUnlock ReadCopy` and `WriteLock WriteLoad
WriteStore WriteUnlock` are the statements after it; `my_init`, `my_exit`,
`Open`, `Close` the life of the module and of the files.  `shared_counter +=
delta` is two steps.  Each thread has a file of its own; two threads sharing one
descriptor would also share `f_pos` (serialised by the VFS), which is left out.

**SpinCounter** — `spinlock_example.c`.  `running`, `irqs_on` and `in_irq` say
what each CPU does; `Dispatch`, `IrqEnter`, `IrqExit` are the kernel.
`spin_lock_irqsave` is `IrqSave` then `Acquire`, `spin_unlock_irqrestore` is
`Release` then `IrqRestore`.  Both calls of the driver run through the same
actions, `op[t]` telling them apart.  Module and files come and go as in
`MutexCounter`; a call and its return happen on the CPU the thread is on.

**WaitQueue** — `waitqueue_example.c`.  `wait_event` is `Check`, `Prepare`, the
re-check and the sleep of the kernel's macro; the copies go byte by byte
(`ReadCopy`, `WriteCopy`), since nothing excludes another thread; a fault may
end either copy at any byte.  `ReadLen` reads `data_available` again, as line 28
does.  Bytes are tags of the write they came from.

**CompletionDevice** — `completion_example.c`.  `Reinit` is the bare store of
`reinit_completion`; `CompleteLoad`/`CompleteStore` are `complete`;
`WaitLock WaitTest Wakened WaitTake` are `wait_for_completion`, all from
`kernel/sched/completion.c`.  A waiter decrements the value of `done` it has just
tested, as compiled code does that keeps it in a register; a build that loads it
again could in addition underflow if `reinit_completion` fell in between.
`Schedule` does nothing when the work is pending.  `ExitCall`, `CancelWork`,
`Deregister` are `my_exit`; it waits for running work, and the module cannot be
unloaded under an open file.  Nothing bounds the number of writes: `done` sticks at
`UIntMax`, as in the kernel, and the ghost `credit` counts no further.

**SharedPage** — `mmap_dev.c` and `fault_dev.c`, which differ in `my_init`,
`.mmap` and the fault handler; `driver`, chosen initially, says which it is.  `Deregister` and `FreePage`
are `my_exit`.  `Mmap` enters the page at once (`Remap`, after the size check) or
sets up nothing; `Fault` is `my_fault`.  `Munmap` and `Fork` are the kernel's.
The user programs `mmap_user.c` and `fault_user.c` are instances of the
processes.

**FrameSequence** (abstract) — what the viewer is promised: frames 0, 1, 2, ...
each once and complete, until the screen goes dark.

**PageFlip** — `page_flip_minimal.c`.  The program is sequential (`Step`, one
action per call or drawing half); `VBlank` is the display, which at any moment
performs the queued flip and posts the event.  `SelectFails` has `EINTR` and
real errors, `HandleEvent` the handler or a failure of `drmHandleEvent`.  Every
ioctl whose result the code looks at may fail; `drmModeRmFB` and `DESTROY_DUMB`,
whose results it ignores, are taken to succeed on objects that exist, and removing
a framebuffer turns off the screen and cancels a queued flip in one step.  The way out goes through the same `Munmap RmFB DestroyDumb` loop
as in the code, from the state reached.

**UserPrograms** — `atomic_modeset_minimal.c`, `modeset_minimal.c`,
`dumb_buffer.c`, `prime_fd_notes.c`, `mmap_user.c`, `fault_user.c`,
`ioctl_user.c`, `hash_chain_minimal.c`.  Their difficulty is the control flow, so
the program *is* the data: `AtomicMain`, `HashChainMain`, ... build the sequence
of instructions main executes, each one that can fail with the sequence that
follows its failure (`goto` target, `continue` or `return`).  The actions run
them against the objects the kernel and the libraries keep.  Calls whose
results the program ignores are one instruction (`Try`): any of them may fail, the
program goes on, and `ignored` remembers which did.  In the atomic program these
are the client capabilities and the properties of the commit: `load_props` and
`drmModeAtomicAddProperty` drop what they cannot find or add (`Dropped`), DRM shows
none of the properties to a client it has refused the atomic capability, and
libdrm answers an empty request with 0 itself.  What a commit of some of the
properties does is left open, as far as it can show the framebuffer at all.  A
digest is the
sequence of files that have gone into it: SHA-256 is taken not to collide.  Its
`UserInit`, `UserNext` and `UserSpec` are named so that one module can speak of
it and of `SharedPage`.

**CharDevice** — read and write of `char_device.c`, which are those of
`misc_device.c`: `ReadCall` and `WriteCall` fix the length, the copies go byte by
byte and may fault anywhere, `WriteSet` stores `buffer_size`.  `message` and
`quiet` are ghosts.

**KernelDrivers** — extends `CharDevice` by the life of twelve modules: the two
character devices, `hello_module.c`, `platform_driver.c`, `dma_alloc.c`,
`mem_alloc.c`, the three demos with threads and locks, `simple_kms.c`,
`gem_shmem_skeleton.c` and `panel_dsi_minimal.c`; `driver`, chosen initially,
says which.  `Load` and `Unload` hold init and exit (or probe and remove) as
sequences of instructions, with what each failure undoes; `held` is the set of
what exists; in which order it came is read off `Load` (`AcquiredAfter`).  `Open`, `CharCall`, `IoctlCall`, `PanelCall` and
`ThreadReturns` are what goes on meanwhile; the ghosts `early` and `late` remember
who came before a load was sure to succeed, and who found the panel between
`mipi_dsi_detach` and `drm_panel_remove`.  A device on a bus may go away at any
moment; a module with open files may not.

**NotesIndex** — `generate_index.js` and its workflow.  `buildIndex` is the scan,
with the depths at which it looks for files; `main` is the branch, `runs` the
runs of the workflow: `Generate` is checkout, generator and commit, `Push` the
push, which is refused when main has moved.  `HumanPush` and `Dispatch`
(`workflow_dispatch`) start runs, `Outage` ends one.

## 4. What TLC checks

| Run | Module, cfg | Bounds | Shows |
|---|---|---|---|
| mutex_counter | `MutexCounter`, `MCMutexCounter` | 2 threads, 2-bit `int`, 2 deltas, 2 buffer sizes, one too short for a negative number | `TypeOK`, `NoLostUpdate`, `NoCallWithoutModule`, `Linearizable` (implements `AtomicCounter`), `CallsReturn` |
| spin_counter | `SpinCounter`, `MCSpinCounter` | 2 threads, 2 CPUs, 1-bit `int` | `TypeOK`, `HolderRuns`, `NoSleepInAtomic`, `Linearizable`, `CallsReturn` |
| waitqueue_pair | `WaitQueue`, `MCWaitQueue` | 1 reader, 1 writer, 2-byte buffer, counts 1 and 3 | `TypeOK`, `QuietReadDelivers`, `ReadServed` |
| waitqueue_crowd | `MCWaitQueue`, `MCWaitQueueCrowd` | 2 readers, 2 writers, 1-byte buffer, writes of 0 and 1 bytes; symmetric readers and writers | `NoLostWakeup`, `QuietReadDelivers` |
| waitqueue_two_readers | `WaitQueue`, `MCWaitQueueTwoReaders` | 2 readers, 1 writer | `ReadReturnsData` is violated, see 7 |
| completion | `CompletionDevice`, `MCCompletion` | 3 threads, any number of writes, `done` sticks at 4 | `TypeOK`, `NothingAfterUnload`, `NoStrandedWaiter`, `ReadsBackedByWork`, `WorkServesAReader` |
| completion_clients | `CompletionDevice`, `MCCompletionClients` | 2 clients, each writes before it reads | `EveryClientServed` is violated, see 7 |
| shared_page | `SharedPage`, `MCSharedPage` | both drivers, 3 processes, 3 frames, mappings of 1 or 2 pages | `TypeOK`, `MappingsShareThePage`, `PageReturned` |
| page_flip | `PageFlip`, `MCPageFlip` | the program's own 19 flips | `TypeOK`, `NoTearing`, `FlipAccounting`, `AllReleased`, `ScanoutAlive`, `FramesInOrder` (implements `FrameSequence`), `Terminates` |
| user_programs | `UserPrograms`, `MCUserPrograms` | all eight programs, 2 connectors, 2 planes | `NoDanglingUse`, `CleanExit`, `PromptIsTrue` |
| kernel_drivers | `KernelDrivers`, `MCKernelDrivers` | all twelve drivers, 2 processes, 2-byte buffer, counts 1 and 3, 2 values | `TypeOK`, `UndoesExactly`, `UsersSupported`, `QuietReadRepeats`, `PanelBalanced` |
| notes_index | `MCNotesIndex`, `MCNotesIndex` | 3 files, 2 pushes by people, 1 manual run | `IndexFits`, `IndexCatchesUp` |

Why the bounds are enough.  *Counters*: two threads make a race; an `int` of a
few values wraps after a few additions, and a wide one would only delay that.
For the mutex the proofs cover any number of threads.  With two CPUs one thread
can spin while another holds the lock, and either can be preempted and continue
on the other CPU.  *Wait queue*: two readers compete for one message while two
writers overlap; counts 1 and 3 against a buffer of 2 bytes give a partial and a
truncated write, 0 an empty one; seven tags cover all places a tag can be at once
(buffer bytes, the users' copies, the calls, the published message), so a write
never waits for one.  *Completion*: with three threads,
writes re-arm while one thread waits and one is about to take the completion, as
often as they like; `UIntMax` is not below the number of threads
(`ThreadsAssumption`: the kernel has at most 2^22 of them) and small enough for
`done` to reach it and stick.  *Shared page*: the second page of a
mapping is what the size check and the ignored fault offset are about; with
three frames a later load has another page than the one a stale mapping would
show, and a failed load can lose one.  *DRM programs*: their own constants; with
two connectors or planes one can be skipped and the next used, or none.  *Kernel
drivers*: two processes suffice for a read against a write, a write against a
write and an open against a close; counts below and above the buffer's size.
*Index*: two pushes and a manual run let a run be overtaken by a push, by another
run for the same commit, and by both; the files are one at a depth that is
listed in either directory and one that is too deep.

The models of `MutexCounter`, `SpinCounter`, `WaitQueue`, `CompletionDevice`,
`SharedPage` and `KernelDrivers` are finite without bounding the number of calls.
Deadlock is checked except where the system may stop: the programs of
`UserPrograms` end, the pushes of `NotesIndex` are bounded, all threads of
`CompletionDevice` may wait at once with no work under way, and failed loads of
`fault_dev` use up the frames.

## 5. Fairness

- `MutexCounter`: a thread inside the driver runs (weak); a mutex is not handed
  past the same waiter for ever (strong, on the lock actions). The kernel's
  mutex hands over to the first waiter once it has waited too long.  No call is
  obliged to start.
- `SpinCounter`: interrupt handlers end; each thread is dispatched again and
  again, and makes a step (strong fairness, since preemption can disable both);
  queued spinlocks are first come, first served.
- `WaitQueue`: runnable threads run (weak).  There is no assumption that anyone
  reads or writes.
- `CompletionDevice`: armed timers expire and workers run; the lock inside the
  completion is fair (strong on `Complete` and `Wait`); nobody is obliged to
  call anything.  `WorkServesAReader` and `EveryClientServed` have a hypothesis
  besides, `RearmingStops`: from some moment on nobody re-arms the completion.  No
  scheduling provides that; it is a condition on the clients (see 7).
- `PageFlip`: the program runs, vertical blanks keep coming, and signals do not
  interrupt `select` every time (strong on `SelectReady`, otherwise `continue` on
  `EINTR` could go on for ever).
- `NotesIndex`: GitHub starts every run and lets it go on (weak).  Nobody pushes
  or starts a run by hand out of duty; an outage may end any run.

## 6. What is proved

All theorems hold for every value of the constants under the named assumptions
(`...Assumption`) of the module.

- **`MutexCounter_proof`** — `TypeCorrect`, `LockProtectsCounter`,
  `ModulePinned`, `MutexCounterLinearizable`: any number of threads, any width of
  `int`, any deltas.  The inductive invariant is `TypeOK /\ NoLostUpdate /\
  NoCallWithoutModule`: the lock's owner is exactly the thread between lock and
  unlock, which keeps the value a writer has loaded equal to the counter until it
  stores; the third conjunct keeps `my_init` from resetting the counter between
  the two.  The refinement takes each step to the step of `AtomicCounter` it
  implements (the store is `Add`, the load is `Get`) or to a stutter.
- **`SpinCounter_proof`** — `TypeCorrect`, `CriticalSectionsRun`,
  `NoSleepWithIrqsOff`, `SpinCounterLinearizable`: any number of threads and
  CPUs, any width of `int`.  The invariant has a half about CPUs (a thread is on
  one CPU at most; the interrupt state it has saved is "on"; between save and
  restore it is on a CPU whose interrupts are off; only then are they off) and a
  half about the counter (the lock's holder is between acquire and release; a
  writer about to store has loaded the counter as it still is; calls pin the
  module).  The refinement is that of the mutex device, with the interrupt steps
  as stutters.
- **`WaitQueue_proof`** — `WaitEventLosesNoWakeup`, `OnlyWaitersQueued`,
  `NoOverrun`, `QuietReadDeliversAlways`: any number of readers and writers, any
  buffer size.  The invariant
  adds that copy indexes stay below the lengths (`CopyInBounds`).  The argument
  for the wake-up: to sleep on the queue a reader has tested the condition after
  joining it; if it turns true later, some writer is past the store and has
  `wake_up` before it.  The argument for the bytes (`DInv`): a writer that has
  been alone since it began has its own tag in as much of the buffer as it has
  copied (`AloneFills`); when it publishes, the message is intact and stays so
  until another byte is written (`Published`); a reader that no writer has
  disturbed has copied a prefix of it, of the length it tested (`QuietSees`).
- **`CompletionDevice_proof`** — `UnloadIsClean`, `CompletionsTakenOnce`,
  `NobodyStranded`, `CompletionTypes`: any
  number of threads and calls.  The first invariant adds that outside the live
  module no thread is in a call, without which the work could be scheduled again
  after it was cancelled.  The second says that neither `done` nor a value of it
  that somebody has loaded exceeds the complete() calls not yet used up, one
  process at a time being between load and store; `done` sticks at `UINT_MAX` only
  after that many calls that nobody has used up.  The third counts readers
  instead: while anybody sleeps, neither `done` nor a loaded value of it exceeds
  the number of readers who are awake inside `wait_for_completion` (`Covered`).
  A `complete` adds one to `done` and wakes one; only a waiter that has loaded 0
  goes to sleep.  It holds even when `done` saturates, because there are fewer
  threads than `UINT_MAX` (`ThreadsAssumption`).  That the queue has no thread
  twice (`SleepersQueued`) bounds its length, which `CompletionTypes` states.
- **`PageFlip_proof`** — `TypeCorrect`, `FlipsAccountedFor`, `ScreenNeverTorn`,
  `ScreenBacked`, `EverythingReleased`, `FramesShownInOrder`: any number of
  frames, any failures.  The invariant ties four views together: which phase the
  program is in, what the display may be doing then (`FlipAccounting`), which
  frame each buffer holds relative to the loop variable (`Contents`), and which
  kernel objects exist relative to what the program remembers (`Owned`).
- **`UserSide_proof`**, first half, about `SharedPage` — `TypeCorrect`,
  `NoStaleMapping`, `NothingLost`: both drivers, any processes, frames and mapping lengths.  The invariant: files and
  mappings pin the module (`Pinned`), a module that is not out has its page and
  one that is out has none (`HasPage`), entries exist only inside mappings
  (`EntriesMapped`), nothing else is owned (`OwnsOnlyPage`).
- **`UserSide_proof`**, second half, about `UserPrograms` — `NothingDangles`,
  `ExitsAreClean`, `PromptsAreTrue`: all eight programs, any number of connectors
  and planes.  None of the three invariants says anything of what is still to be
  executed, so none is inductive.  `PromptsAreTrue` has the exception of its
  property: a commit that properties were dropped from.  The invariant (`GoesWell`) is therefore about
  all the program may still do: a *configuration*, which is the rest of the
  program with the state it runs in, is `Good` if it belongs to a set of
  configurations that no outcome of an instruction leaves (`Closed`: it succeeds,
  fails, or, if nobody looks, does less than it should) and in
  which each may end or execute its next instruction (`Acceptable`).  That every
  step preserves this is immediate (`GoodUnfold`); what needs proof is that the
  eight programs are good at the start.  One rule for each instruction (`RuleGet`,
  `RulePut`, ...) says what has to hold before it and which configurations must
  be good after it, and each program is gone through from its last label back to
  its first call.  A function that takes the rest of the program as a parameter
  (`Create`, `FindConnector`, `FindPlane`, the loops) has a lemma with that rest,
  and the way out, as assumptions, so that it is proved once for all callers.
  The loops are recursive functions: that such a function exists
  (`ConnectorLoopUnfolds`, `PlaneLoopUnfolds`, `HashChainUnfolds`) and that all of
  its values are good goes by induction over the number of rounds.  The library's
  induction theorems take an operator as a parameter and cannot be used here;
  `Induction` states it for a set, and follows from the cardinality of the numbers
  that are not in it.
- **`NotesIndex_proof`** — `IndexAlwaysFits`, `TypeCorrect`: any files and any
  number of pushes and runs.  The invariant adds to `IndexFits` that what a run
  is about to push is the index of the tree it was started for (`RunsGenerate`);
  a push is accepted only if that tree is still the one on top.

- **`KernelDrivers_proof`** — `FailuresUndone`, `UsersAlwaysSupported`,
  `QuietReadsRepeat`, `PanelStaysBalanced`, `DriversTypeCorrect`: all twelve
  drivers, any number of users, any buffer size, counts and values.
  `UndoesExactly` says something of the next instruction only, so the invariant
  (`LifeInv`) speaks of the rest of the program: of an undoing or an unload,
  everything that is left of it is right for what is left (`Undoing`), a
  statement that each executed instruction hands on to the rest; of a load, where
  it has got to, and which acquisitions are certain (`Sure`) or possible
  (`Possible`) there, since a `kthread_run` or `device_create` may have failed
  unnoticed and threads return when they like.  That each of the twelve texts
  is `Disciplined`, that is, that the path of every failure fits what is certain
  and possible at that point, is computed once for each, in a lemma of its own.
  For the users (`PeopleInv`): outside `char_device` and `panel_dsi`, a load that
  has let somebody in cannot fail any more (`Admits`); and what is left of the
  removal of a device on a bus takes nothing from them before it has waited for
  the last close or made the host let go (`Protects`).  Those who find the panel
  after that are `late`, an exception of the theorem like the `early` ones; nobody
  else is in either set.  `CharInv` is the
  argument of the wait queue's bytes for a buffer that reads do not empty:
  a write overlapped by no other owns the buffer, and while somebody writes no
  other call is undisturbed.  `PanelInv` drops the guard of `PanelBalanced`.

Only model-checked:

- All liveness (`CallsReturn`, `ReadServed`, `WorkServesAReader`, `Terminates`,
  `IndexCatchesUp`), which is beyond the prover.

## 7. Where the code disagrees with its documents

1. `waitqueue_two_readers`: the README of the wait queue example (line 26) says a
   read without data sleeps.  `my_read` reads `data_available` a second time
   after `wait_event`; of two readers woken by one write, the second finds 0
   there and returns 0 bytes.
2. `completion_clients`: the README of the completion example (lines 26-29) says
   a write starts a work and a read waits for its completion.  A write while the
   work is pending starts none (the result of `schedule_delayed_work` is
   ignored), so that one completion serves two clients and one waits for ever;
   fair scheduling does not help.

A third one is an exception of `PromptIsTrue`.  The header of
`atomic_modeset_minimal.c` (lines 5-15) says the program enables the atomic
capability and commits properties of connector, CRTC and plane, and line 419 that
the screen should be green.  If DRM refuses the capability (line 349, not looked
at), it shows none of the properties; each is dropped without a word, the empty
commit succeeds, and the message is printed although nothing was committed.  Any
one property may get lost in the same way.  `PromptIsTrue` claims the picture only
for commits that are complete; asked without `\/ Dropped # {}`, TLC shows the
prompt over a dark screen.

Weaknesses that appear as stated exceptions of properties that hold:
`fault_dev` keeps its page when `misc_register` fails (`PageReturned`), and
`modeset_minimal` and `dumb_buffer` return without releasing anything after
certain failures, as `fault_user` does after `mmap` (`CleanExit`); `char_device`
can be opened, through a node that exists already, and `panel_dsi` be found,
before a later step of their loading fails and takes away what the early user
relies on; and `panel_dsi` can also be found during its removal, between
`mipi_dsi_detach` (line 232) and `drm_panel_remove` (line 233), by somebody under
whom the panel is then freed (both `UsersSupported`).  Writers of the completion
device that never stop re-arming can starve every reader: each
`reinit_completion` may fall between the wake-up of a reader and its test of
`done`.  Without `RearmingStops` as hypothesis TLC finds `WorkServesAReader`
violated in this way.  `ioctl_user` prints a "value from kernel" (line 28) whatever
its ioctls did; `PromptIsTrue` claims nothing of it, and `my_ioctl` of
`char_device.c`, which it talks to, only logs, so that no value ever comes from
there.  Three more disagreements need no model to see.  The
header of `generate_index.js` (line 3) names the directories `notes`,
`investigation`, `code` and `examples`, while `TOP_DIRS` (line 12) has `notes` and
`cases-study`; and notes two directories below a subject
(`notes/subsystems/*/*/*`) are not listed, though the repository has them.  The
`trace-notes.md` of the page fault example (lines 51 and 82) has the page
allocated in the fault handler, while `fault_dev.c:59` allocates it in `my_init`.

## 8. What is not modelled

- `shared_data`, and the lock around it, of the kthread demos: the counter devices
  have the same, with users that matter.  What `kthread_stop` does to a thread
  that has returned, or to the error pointer of one that was never made, is
  undefined: the model lets the module go on unloading, and claims nothing.
- Calls of users whose driver is gone (the exceptions of `UsersSupported`).
- Assumed of the panel's surroundings: the display stack makes one call at a
  time, and `mipi_dsi_detach` makes the host let go and waits for a call in
  progress.  `power` and `light` count from probe to remove; remove switches
  nothing off.
- `mremap`, and the copies of a `MAP_PRIVATE` mapping, of the lent pages: the user
  programs map them shared and never move a mapping.
- A device bound again while files of its earlier binding are open.
- What `dma_alloc_coherent` makes of a null device is left to it: it fails or not.
- Of the workflow: pushes that rewrite history, people who edit the index, and
  runs that are started again by hand after they failed.
- Bytes of text and pages, messages in the log, formats and modes of the display.
- The kernel itself, except for what the examples rely on: it is modelled from
  how they use it (marked external in the map), e.g. `wait_event`'s loop,
  `complete`, module reference counts, page tables, flips and events.
- Weak memory: the steps of threads are sequentially consistent.  The drivers
  with a lock do not depend on it; `wait_event` and `wake_up` have the barriers
  the wake-up argument needs; in the wait queue device the bytes of `buffer` and
  `data_available` could in addition be seen out of order.
- `prime_fd_notes.c`: what follows `get_external_dma_buf_fd` is unreachable, as
  that function always returns -1.  `page_flip_notes.c` is commentary.
- Everything outside `code/examples` and `tools`: prose.
