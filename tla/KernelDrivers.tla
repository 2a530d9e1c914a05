---------------------------- MODULE KernelDrivers ----------------------------
(***************************************************************************)
(* The life of a driver between insmod and rmmod, or between probe and     *)
(* remove: what it acquires, what each failure on the way undoes, and what *)
(* users, threads and the display stack do meanwhile.  `driver` says which *)
(* of the modules under code/examples it is; the file operations of the    *)
(* two character devices are in CharDevice.                                *)
(*                                                                         *)
(* A life cycle is a sequence of instructions.  An instruction that can    *)
(* fail carries in `else` what is done instead of the rest.  What the      *)
(* driver core and DRM release by themselves after a failed probe or after *)
(* remove (devm_, drmm_) is at the end of each path.                       *)
(***************************************************************************)
EXTENDS CharDevice

VARIABLES
  driver,
  phase,       \* "out", "load", "fail" (undoing a load), "in", "unload"
  todo,        \* the instructions left
  held,        \* what exists on behalf of the driver
  users,       \* processes with the device open; for a panel, its consumers
  early,       \* ghost: those that came while a load could still fail, or did
  late,        \* ghost: those that found the panel after mipi_dsi_detach
  completed,   \* my_comp of completion_example.c has been completed
  panel        \* flags of the panel; ghost: what has been switched on since probe

life == <<phase, todo, held>>
people == <<users, early, late>>
vars == <<chardev, driver, life, people, completed, panel>>

Get(x, else) == [do |-> "get", what |-> x, else |-> else]
Add(x) == [do |-> "add", what |-> x, else |-> <<>>]       \* cannot fail
Try(x) == [do |-> "try", what |-> x, else |-> <<>>]       \* nobody looks whether it worked
Put(x) == [do |-> "put", what |-> x, else |-> <<>>]
PutIf(x) == [do |-> "putif", what |-> x, else |-> <<>>]   \* if it is there
Wait(x) == [do |-> "wait", what |-> x, else |-> <<>>]

-----------------------------------------------------------------------------
\* char_device.c; device_create is not checked.  free_module is the loader's.
free_module == <<Put("module")>>
err_cdev == <<Put("region")>> \o free_module

\* Altered: the labels in the order of the calls.
err_class_Reordered == <<Put("region"), Put("cdev")>> \o free_module

err_class == <<Put("cdev")>> \o err_cdev

char_init == <<Get("region", free_module), Get("cdev", err_cdev),
               Get("class", err_class), Try("device")>>
char_exit == <<PutIf("device"), Put("class"), Put("cdev"), Put("region")>> \o free_module

\* misc_device.c, platform_driver_example.c, dma_alloc_example.c and
\* mem_alloc_example.c; hello_module.c and spinlock_example.c acquire nothing.
misc_init == <<Get("misc", free_module)>>
misc_exit == <<Put("misc")>> \o free_module
platform_init == <<Get("driver", free_module)>>
platform_exit == <<Put("driver")>> \o free_module
dma_init == <<Get("dma", free_module)>>
dma_exit == <<Put("dma")>> \o free_module
mem_init == <<Get("kmem", free_module), Get("vmem", <<Put("kmem")>> \o free_module)>>
mem_exit == <<Put("vmem"), Put("kmem")>> \o free_module

\* mutex_example.c does not look at what kthread_run returns; kthread_stop
\* waits for the thread.  (What it does to one that is no more, or never was,
\* is undefined.)
mutex_init == <<Try("thread1"), Try("thread2")>>
mutex_exit == <<Wait("thread1"), Wait("thread2")>> \o free_module

\* completion_example.c
completion_init == <<Get("worker", free_module), Wait("completed")>>
completion_exit == <<Wait("worker")>> \o free_module

\* simple_kms.c, and gem_shmem_skeleton.c, which has no mode setting.
\* drm_dev_unplug ends with the minor; the rest of the DRM device lives until
\* its last file closes.  drm_fbdev_generic_setup is not checked.
drm_release == <<Put("dev")>>
drm_mode_config_release == <<Put("mode_config")>> \o drm_release

kms_probe == <<Get("dev", <<>>), Get("mode_config", drm_release),
               Get("connector", drm_mode_config_release), Get("pipe", drm_mode_config_release),
               Get("minor", drm_mode_config_release), Try("fbdev")>>
kms_remove == <<PutIf("fbdev"), Put("minor"), Wait("last_close")>> \o drm_mode_config_release
gem_probe == <<Get("dev", <<>>), Get("minor", drm_release)>>
gem_remove == <<Put("minor"), Wait("last_close")>> \o drm_release

\* panel_dsi_minimal.c; drm_panel_add cannot fail.
panel_probe == <<Get("ctx", <<>>), Add("panel"), Get("dsi", <<Put("panel"), Put("ctx")>>)>>
panel_remove == <<Put("dsi"), Put("panel"), Put("ctx")>>

\* my_init and my_exit, or probe and remove.
Load ==
  [char_device |-> char_init, misc_device |-> misc_init, hello_module |-> <<>>,
   platform_driver |-> platform_init, dma_alloc |-> dma_init, mem_alloc |-> mem_init,
   mutex_example |-> mutex_init, completion_example |-> completion_init,
   spinlock_example |-> <<>>, gem_shmem |-> gem_probe, simple_kms |-> kms_probe,
   panel_dsi |-> panel_probe]

Unload ==
  [char_device |-> char_exit, misc_device |-> misc_exit, hello_module |-> free_module,
   platform_driver |-> platform_exit, dma_alloc |-> dma_exit, mem_alloc |-> mem_exit,
   mutex_example |-> mutex_exit, completion_example |-> completion_exit,
   spinlock_example |-> free_module, gem_shmem |-> gem_remove, simple_kms |-> kms_remove,
   panel_dsi |-> panel_remove]

Drivers == DOMAIN Load
OnABus == {"gem_shmem", "simple_kms", "panel_dsi"}
Threads == {"thread1", "thread2", "worker"}

-----------------------------------------------------------------------------
NoPanel == [prepared |-> FALSE, enabled |-> FALSE, power |-> 0, light |-> 0]

TypeOK ==
  /\ CharTypeOK
  /\ driver \in Drivers
  /\ phase \in {"out", "load", "fail", "in", "unload"}
  /\ users \in SUBSET Procs /\ early \in SUBSET users /\ late \in SUBSET users
  /\ completed \in BOOLEAN
  /\ panel \in [prepared : BOOLEAN, enabled : BOOLEAN, power : Int, light : Int]

Init ==
  /\ CharInit
  /\ driver \in Drivers
  /\ phase = "out" /\ todo = <<>> /\ held = {}
  /\ users = {} /\ early = {} /\ late = {}
  /\ completed = FALSE
  /\ panel = NoPanel

\* insmod, or a device that matches.  Whoever still has something of an earlier
\* load that failed is past saving, and forgotten here.
Start ==
  /\ phase = "out"
  /\ phase' = "load" /\ todo' = Load[driver]
  /\ held' = IF driver \in OnABus THEN {} ELSE {"module"}
  /\ users' = {} /\ early' = {} /\ late' = {}
  /\ buffer' = [k \in 1 .. Size |-> 0] /\ buffer_size' = 0
  /\ call' = [p \in Procs |-> Idle]
  /\ message' = [val |-> 0, len |-> 0, intact |-> TRUE]
  /\ completed' = FALSE
  /\ UNCHANGED <<driver, panel>>

\* rmmod, which an open file refuses (.owner); or the device goes away, which
\* asks nobody.
Stop ==
  /\ phase = "in"
  /\ driver \in OnABus \/ users = {}
  /\ phase' = "unload" /\ todo' = Unload[driver]
  /\ UNCHANGED <<chardev, driver, held, people, completed, panel>>

\* The end of either, or of undoing.
Finish ==
  /\ phase \in {"load", "fail", "unload"} /\ todo = <<>>
  /\ phase' = IF phase = "load" THEN "in" ELSE "out"
  /\ early' = IF phase = "load" THEN {} ELSE early
  /\ UNCHANGED <<chardev, driver, todo, held, users, late, completed, panel>>

Executing(do) == todo # <<>> /\ Head(todo).do \in do
What == Head(todo).what
Continue == todo' = Tail(todo) /\ UNCHANGED phase

\* The memory of the panel starts out zeroed (devm_kzalloc).
Acquire ==
  /\ Executing({"get", "add", "try"})
  /\ held' = held \cup {What}
  /\ Continue
  /\ panel' = IF What = "ctx" THEN NoPanel ELSE panel
  /\ UNCHANGED <<chardev, driver, people, completed>>

Fails ==
  /\ Executing({"get"})
  /\ phase' = "fail" /\ todo' = Head(todo).else
  /\ UNCHANGED <<chardev, driver, held, people, completed, panel>>

FailsUnnoticed ==
  /\ Executing({"try"})
  /\ Continue
  /\ UNCHANGED <<chardev, driver, held, people, completed, panel>>

\* drm_mode_config_cleanup destroys what was registered with it.
Released(x) == IF x = "mode_config" THEN {x, "connector", "pipe"} ELSE {x}

\* After mipi_dsi_detach the host has let go of the panel.
Release ==
  /\ Executing({"put", "putif"})
  /\ held' = held \ Released(What)
  /\ users' = IF What = "dsi" THEN {} ELSE users
  /\ early' = IF What = "dsi" THEN {} ELSE early
  /\ late' = IF What = "dsi" THEN {} ELSE late
  /\ Continue
  /\ UNCHANGED <<chardev, driver, completed, panel>>

\* Altered: the DRM device is not counted by its open files.
WaitIsOver_NoReference ==
  What = "completed" => completed

WaitIsOver ==
  CASE What = "completed"  -> completed
    [] What = "last_close" -> users = {}
    [] OTHER               -> What \notin held

Waited ==
  /\ Executing({"wait"})
  /\ WaitIsOver
  /\ Continue
  /\ UNCHANGED <<chardev, driver, held, people, completed, panel>>

\* complete() in the worker of completion_example.c.
Complete ==
  /\ "worker" \in held /\ ~completed
  /\ completed' = TRUE
  /\ UNCHANGED <<chardev, driver, life, people, panel>>

\* A thread returns, its rounds or its work done; kthread_stop does not hurry it.
ThreadReturns(x) ==
  /\ x \in held
  /\ x = "worker" => completed
  /\ held' = held \ {x}
  /\ UNCHANGED <<chardev, driver, phase, todo, people, completed, panel>>

-----------------------------------------------------------------------------
\* What lets users in, and what their calls then rely on.
Entry ==
  [char_device |-> "cdev", misc_device |-> "misc", gem_shmem |-> "minor",
   simple_kms |-> "minor", panel_dsi |-> "panel"]

Reach ==
  [char_device |-> {"module"}, misc_device |-> {"module"}, gem_shmem |-> {"dev"},
   simple_kms |-> {"dev", "mode_config", "connector", "pipe"}, panel_dsi |-> {"ctx"}]

\* open(), which a module being unloaded and an unplugged DRM device refuse, or
\* of_drm_find_panel, which finds the panel until drm_panel_remove.
Open(p) ==
  /\ driver \in DOMAIN Entry /\ Entry[driver] \in held
  /\ driver = "panel_dsi" \/ phase # "unload"
  /\ p \notin users
  /\ users' = users \cup {p}
  /\ early' = IF phase \in {"load", "fail"} THEN early \cup {p} ELSE early
  /\ late' = IF phase = "unload" /\ "dsi" \notin held THEN late \cup {p} ELSE late
  /\ UNCHANGED <<chardev, driver, life, completed, panel>>

Close(p) ==
  /\ p \in users /\ In(p, "none")
  /\ users' = users \ {p} /\ early' = early \ {p} /\ late' = late \ {p}
  /\ UNCHANGED <<chardev, driver, life, completed, panel>>

\* Calls of users whose driver is gone are not modelled: anything may happen.
Served(p) == p \in users /\ Reach[driver] \subseteq held

CharCall(p) ==
  /\ Served(p) /\ driver \in {"char_device", "misc_device"}
  /\ ReadCall(p) \/ WriteCall(p) \/ CharStep(p)
  /\ UNCHANGED <<driver, life, people, completed, panel>>

\* An ioctl, which an unplugged device refuses.  Those of the character devices
\* only log the command; for the DRM devices this stands for any of theirs, whose
\* commits pass through callbacks of the pipe and the connector that keep nothing.
IoctlCall(p) ==
  /\ Served(p) /\ driver # "panel_dsi" /\ phase # "unload"
  /\ In(p, "none")
  /\ call' = [call EXCEPT ![p].op = "ioctl"]
  /\ UNCHANGED <<buffer, buffer_size, message, driver, life, people, completed, panel>>

IoctlReturn(p) ==
  /\ In(p, "ioctl")
  /\ Return(p)
  /\ UNCHANGED <<buffer, buffer_size, message, driver, life, people, completed, panel>>

\* Altered: no look at ctx->prepared.
prepare_Again == [panel EXCEPT !.prepared = TRUE, !.power = @ + 1]

prepare == IF panel.prepared THEN panel ELSE [panel EXCEPT !.prepared = TRUE, !.power = @ + 1]
enable == IF panel.enabled THEN panel ELSE [panel EXCEPT !.enabled = TRUE, !.light = @ + 1]
disable == IF ~panel.enabled THEN panel ELSE [panel EXCEPT !.enabled = FALSE, !.light = @ - 1]
unprepare == IF ~panel.prepared THEN panel ELSE [panel EXCEPT !.prepared = FALSE, !.power = @ - 1]

\* The display stack calls the panel in any order, one call at a time, and
\* mipi_dsi_detach waits for the call in progress.
PanelCall(p) ==
  /\ driver = "panel_dsi" /\ Served(p)
  /\ panel' \in {prepare, enable, disable, unprepare}
  /\ UNCHANGED <<chardev, driver, life, people, completed>>

Next ==
  \/ Start \/ Stop \/ Finish
  \/ Acquire \/ Fails \/ FailsUnnoticed \/ Release \/ Waited
  \/ Complete \/ \E x \in Threads : ThreadReturns(x)
  \/ \E p \in Procs : \/ Open(p) \/ Close(p) \/ CharCall(p) \/ IoctlCall(p) \/ IoctlReturn(p)
                      \/ PanelCall(p)

Spec == Init /\ [][Next]_vars

-----------------------------------------------------------------------------
\* What the driver d acquires after x; it acquires nothing twice.
AcquiredAfter(d, x) ==
  {Load[d][m].what : m \in {m \in DOMAIN Load[d] :
                              x = "module" \/ \E k \in 1 .. m - 1 : Load[d][k].what = x}}

\* Whatever fails, each path undoes what was done, in reverse: nothing is
\* released that is not there, nor before something that was built on it, nor
\* while a thread of the module runs; and in the end nothing is left.
UndoesExactly ==
  /\ phase = "out" => held = {}
  /\ Executing({"put"}) =>
       /\ What \in held
       /\ held \cap AcquiredAfter(driver, What) \subseteq Released(What)

\* What an open file or a display stack can reach through the driver exists, also
\* after the device has gone and while it goes.  The exceptions are who came too
\* early: char_device can be opened (through a node that is there already) and
\* panel_dsi can be found before all that may fail has succeeded; and who came too
\* late: until drm_panel_remove, panel_dsi can be found although mipi_dsi_detach,
\* which makes the display stack let go of it, is over.
UsersSupported ==
  \A p \in users :
    \/ Reach[driver] \subseteq held
    \/ driver \in {"char_device", "panel_dsi"} /\ p \in early
    \/ driver = "panel_dsi" /\ p \in late

\* Between probe and remove the power of the panel and its light are switched on
\* and off in turn, however often and in whatever order the calls come, and the
\* flags say which it is.
PanelBalanced ==
  LET one(b) == IF b THEN 1 ELSE 0 IN
  "ctx" \in held => panel.power = one(panel.prepared) /\ panel.light = one(panel.enabled)
=============================================================================
