------------------------------- MODULE PageFlip -------------------------------
(***************************************************************************)
(* drm/drm_vblank_pageflip_flow/userspace/page_flip_minimal.c: a program   *)
(* with two buffers draws each frame into the back buffer, asks the kernel *)
(* to flip to it at the next vertical blank and waits for the event before *)
(* it draws again.  Any call into DRM may fail, at any point, and then the *)
(* program releases what it has got so far.                                *)
(*                                                                         *)
(* The program and the display run concurrently: drawing takes two steps   *)
(* (a buffer is Torn in between), and the display scans a buffer all the   *)
(* time.  The kernel is modelled from how the program uses it.             *)
(***************************************************************************)
EXTENDS Integers, FiniteSets

CONSTANT LastFrame    \* the main loop is for (i = 1; i < 20; i++): 19

ASSUME FrameAssumption == LastFrame \in Nat

VARIABLES
  pc,
  i,                 \* the loop variable of main, in each of its loops
  front, back,       \* app.front, app.back
  page_flip_pending, \* app.page_flip_pending
  bufs,              \* app.bufs: which handle, fb_id and map are set
  content,           \* content[b]: the frame drawn into buffer b
  dumbs, fbs, maps,  \* kernel: the dumb buffers, framebuffers, mappings alive
  scanout,           \* kernel: the buffer on the screen
  queued,            \* kernel: the buffer of the flip that awaits vblank
  events,            \* kernel: flip events not yet read
  ended              \* ghost: the screen has gone dark again

app == <<pc, i, front, back, page_flip_pending, bufs, content>>
kernel == <<dumbs, fbs, maps, scanout, queued, events, ended>>
vars == <<app, kernel>>

Bufs == {0, 1}
None == -1
Torn == -2
DumbBuffer == [handle : BOOLEAN, fb_id : BOOLEAN, map : {"null", "failed", "ok"}]
Empty == [handle |-> FALSE, fb_id |-> FALSE, map |-> "null"]

TypeOK ==
  /\ pc \in {"open", "find", "create_dumb", "addfb", "map_dumb", "mmap",
             "fill_first", "paint_first", "set_crtc", "fill", "paint", "flip", "wait", "select", "handle",
             "munmap", "rmfb", "destroy_dumb", "close", "exit"}
  /\ i \in Nat
  /\ front \in Bufs /\ back \in Bufs
  /\ page_flip_pending \in BOOLEAN
  /\ bufs \in [Bufs -> DumbBuffer]
  /\ content \in [Bufs -> Int]
  /\ dumbs \in SUBSET Bufs /\ fbs \in SUBSET Bufs /\ maps \in SUBSET Bufs
  /\ scanout \in Bufs \cup {None} /\ queued \in Bufs \cup {None}
  /\ events \in Nat
  /\ ended \in BOOLEAN

Init ==
  /\ pc = "open" /\ i = 0 /\ front = 0 /\ back = 0 /\ page_flip_pending = FALSE
  /\ bufs = [b \in Bufs |-> Empty]
  /\ content = [b \in Bufs |-> Torn]
  /\ dumbs = {} /\ fbs = {} /\ maps = {}
  /\ scanout = None /\ queued = None /\ events = 0
  /\ ended = FALSE

-----------------------------------------------------------------------------
\* open() and find_connector_and_crtc(), either of which may fail.
OpenDevice ==
  /\ pc = "open"
  /\ pc' \in {"find", "exit"}
  /\ UNCHANGED <<i, front, back, page_flip_pending, bufs, content, kernel>>

FindConnector ==
  /\ pc = "find"
  /\ pc' \in {"create_dumb", "close"}
  /\ i' = 0
  /\ UNCHANGED <<front, back, page_flip_pending, bufs, content, kernel>>

\* Altered: goto err_close.
ErrDestroy_CloseOnly == pc' = "close" /\ i' = 0

\* goto err_destroy: the cleanup loop starts over at buffer 0.
ErrDestroy == pc' = "munmap" /\ i' = 0

\* create_dumb_buffer(&bufs[i]), one ioctl after the other.
CreateDumb ==
  /\ pc = "create_dumb"
  /\ \/ /\ dumbs' = dumbs \cup {i}
        /\ bufs' = [bufs EXCEPT ![i].handle = TRUE]
        /\ pc' = "addfb" /\ UNCHANGED i
     \/ ErrDestroy /\ UNCHANGED <<dumbs, bufs>>
  /\ UNCHANGED <<front, back, page_flip_pending, content, fbs, maps, scanout, queued, events, ended>>

AddFB ==
  /\ pc = "addfb"
  /\ \/ /\ fbs' = fbs \cup {i}
        /\ bufs' = [bufs EXCEPT ![i].fb_id = TRUE]
        /\ pc' = "map_dumb" /\ UNCHANGED i
     \/ ErrDestroy /\ UNCHANGED <<fbs, bufs>>
  /\ UNCHANGED <<front, back, page_flip_pending, content, dumbs, maps, scanout, queued, events, ended>>

MapDumb ==
  /\ pc = "map_dumb"
  /\ \/ pc' = "mmap" /\ UNCHANGED i
     \/ ErrDestroy
  /\ UNCHANGED <<front, back, page_flip_pending, bufs, content, kernel>>

\* The last step of a buffer; after the last buffer front = 0 and back = 1.
Mmap ==
  /\ pc = "mmap"
  /\ \/ /\ maps' = maps \cup {i}
        /\ bufs' = [bufs EXCEPT ![i].map = "ok"]
        /\ IF i = 0 THEN pc' = "create_dumb" /\ i' = 1 /\ UNCHANGED back
                    ELSE pc' = "fill_first" /\ back' = 1 /\ UNCHANGED i
     \/ /\ bufs' = [bufs EXCEPT ![i].map = "failed"]
        /\ ErrDestroy /\ UNCHANGED <<maps, back>>
  /\ UNCHANGED <<front, page_flip_pending, content, dumbs, fbs, scanout, queued, events, ended>>

-----------------------------------------------------------------------------
\* fill_color in progress, and done.
FillFirst ==
  /\ pc = "fill_first"
  /\ content' = [content EXCEPT ![front] = Torn]
  /\ pc' = "paint_first"
  /\ UNCHANGED <<i, front, back, page_flip_pending, bufs, kernel>>

PaintFirst ==
  /\ pc = "paint_first"
  /\ content' = [content EXCEPT ![front] = 0]
  /\ pc' = "set_crtc"
  /\ UNCHANGED <<i, front, back, page_flip_pending, bufs, kernel>>

\* The head of the main loop: go round with the next i, or be done.
LoopTest(n) == IF n <= LastFrame THEN pc' = "fill" /\ i' = n ELSE ErrDestroy

SetCrtc ==
  /\ pc = "set_crtc"
  /\ \/ scanout' = front /\ LoopTest(1)
     \/ ErrDestroy /\ UNCHANGED scanout
  /\ UNCHANGED <<front, back, page_flip_pending, bufs, content, dumbs, fbs, maps, queued, events, ended>>

Fill ==
  /\ pc = "fill"
  /\ content' = [content EXCEPT ![back] = Torn]
  /\ pc' = "paint"
  /\ UNCHANGED <<i, front, back, page_flip_pending, bufs, kernel>>

Paint ==
  /\ pc = "paint"
  /\ content' = [content EXCEPT ![back] = i]
  /\ page_flip_pending' = TRUE
  /\ pc' = "flip"
  /\ UNCHANGED <<i, front, back, bufs, kernel>>

\* drmModePageFlip: refused (EBUSY) while another flip is queued.
RequestFlip ==
  /\ pc = "flip"
  /\ \/ queued = None /\ queued' = back /\ pc' = "wait" /\ UNCHANGED i
     \/ ErrDestroy /\ UNCHANGED queued
  /\ UNCHANGED <<front, back, page_flip_pending, bufs, content, dumbs, fbs, maps, scanout, events, ended>>

-----------------------------------------------------------------------------
\* Altered: the next frame is drawn without waiting for the flip.
WaitTest_NoWait ==
  /\ pc = "wait"
  /\ LoopTest(i + 1)
  /\ UNCHANGED <<front, back, page_flip_pending, bufs, content, kernel>>

\* wait_page_flip_event: while (page_flip_pending).
WaitTest ==
  /\ pc = "wait"
  /\ IF page_flip_pending THEN pc' = "select" /\ UNCHANGED i ELSE LoopTest(i + 1)
  /\ UNCHANGED <<front, back, page_flip_pending, bufs, content, kernel>>

\* select blocks until there is an event; it has no timeout.
SelectReady ==
  /\ pc = "select" /\ events > 0
  /\ pc' = "handle"
  /\ UNCHANGED <<i, front, back, page_flip_pending, bufs, content, kernel>>

SelectFails ==    \* EINTR tries again, any other error gives up
  /\ pc = "select"
  /\ \/ pc' = "wait" /\ UNCHANGED i
     \/ ErrDestroy
  /\ UNCHANGED <<front, back, page_flip_pending, bufs, content, kernel>>

\* Altered: the flag is not cleared.
page_flip_handler_StaysPending(n) ==
  /\ IF n % 2 = 1 THEN front' = back /\ back' = front ELSE UNCHANGED <<front, back>>
  /\ UNCHANGED page_flip_pending

\* Altered: the roles are not swapped.
page_flip_handler_NoSwap(n) ==
  page_flip_pending' = FALSE /\ UNCHANGED <<front, back>>

\* Altered: back = front + 1, without the modulo.
page_flip_handler_NoModulo(n) ==
  page_flip_pending' = FALSE /\ front' = back /\ back' = back + 1

\* page_flip_handler, run n times: the roles swap, the flag is cleared.
page_flip_handler(n) ==
  /\ page_flip_pending' = FALSE
  /\ IF n % 2 = 1 THEN front' = back /\ back' = front ELSE UNCHANGED <<front, back>>

\* drmHandleEvent reads the events and runs page_flip_handler for each.
HandleEvent ==
  /\ pc = "handle"
  /\ \/ /\ events' = 0
        /\ page_flip_handler(events)
        /\ pc' = "wait" /\ UNCHANGED i
     \/ ErrDestroy /\ UNCHANGED <<events, front, back, page_flip_pending>>
  /\ UNCHANGED <<bufs, content, dumbs, fbs, maps, scanout, queued, ended>>

-----------------------------------------------------------------------------
\* destroy_dumb_buffer(&bufs[i]) for both buffers; nothing without a handle.
NextBuffer == IF i = 0 THEN pc' = "munmap" /\ i' = 1 ELSE pc' = "close" /\ UNCHANGED i

\* Altered: the framebuffer is not removed.
Munmap_NoRmFB ==
  /\ pc = "munmap"
  /\ IF bufs[i].handle THEN pc' = "destroy_dumb" /\ UNCHANGED i ELSE NextBuffer
  /\ maps' = IF bufs[i].handle /\ bufs[i].map = "ok" THEN maps \ {i} ELSE maps
  /\ UNCHANGED <<front, back, page_flip_pending, bufs, content, dumbs, fbs, scanout, queued, events, ended>>

Munmap ==
  /\ pc = "munmap"
  /\ IF bufs[i].handle THEN pc' = "rmfb" /\ UNCHANGED i ELSE NextBuffer
  /\ maps' = IF bufs[i].handle /\ bufs[i].map = "ok" THEN maps \ {i} ELSE maps
  /\ UNCHANGED <<front, back, page_flip_pending, bufs, content, dumbs, fbs, scanout, queued, events, ended>>

\* The kernel turns off a CRTC that shows, or is about to show, the buffer.
RmFB ==
  /\ pc = "rmfb"
  /\ IF bufs[i].fb_id
       THEN /\ fbs' = fbs \ {i}
            /\ IF i \in {scanout, queued}
                 THEN scanout' = None /\ queued' = None /\ ended' = TRUE
                 ELSE UNCHANGED <<scanout, queued, ended>>
       ELSE UNCHANGED <<fbs, scanout, queued, ended>>
  /\ pc' = "destroy_dumb"
  /\ UNCHANGED <<i, front, back, page_flip_pending, bufs, content, dumbs, maps, events>>

DestroyDumb ==
  /\ pc = "destroy_dumb"
  /\ dumbs' = dumbs \ {i}
  /\ bufs' = [bufs EXCEPT ![i] = Empty]
  /\ NextBuffer
  /\ UNCHANGED <<front, back, page_flip_pending, content, fbs, maps, scanout, queued, events, ended>>

Close ==
  /\ pc = "close"
  /\ pc' = "exit"
  /\ UNCHANGED <<i, front, back, page_flip_pending, bufs, content, kernel>>

-----------------------------------------------------------------------------
\* Vertical blank: a queued flip takes effect and its event is sent.
VBlank ==
  /\ queued # None
  /\ scanout' = queued
  /\ queued' = None
  /\ events' = events + 1
  /\ UNCHANGED <<app, dumbs, fbs, maps, ended>>

Finished == pc = "exit" /\ UNCHANGED vars

Step ==
  \/ OpenDevice \/ FindConnector \/ CreateDumb \/ AddFB \/ MapDumb \/ Mmap
  \/ FillFirst \/ PaintFirst \/ SetCrtc \/ Fill \/ Paint \/ RequestFlip
  \/ WaitTest \/ HandleEvent \/ Munmap \/ RmFB \/ DestroyDumb \/ Close

Next == Step \/ SelectReady \/ SelectFails \/ VBlank \/ Finished

Spec == Init /\ [][Next]_vars

\* The program runs, the display keeps blanking, and signals do not interrupt
\* every single select.
Fairness == WF_vars(Step) /\ SF_vars(SelectReady) /\ WF_vars(VBlank)

FairSpec == Spec /\ Fairness

-----------------------------------------------------------------------------
Shown == IF scanout = None THEN None ELSE content[scanout]

Abstract == INSTANCE FrameSequence WITH shown <- Shown

\* The viewer sees each frame once, complete and in order, from the moment the
\* CRTC is set until it is turned off.
FramesInOrder == Abstract!Spec

\* The program never draws into the buffer that is on the screen, nor into the
\* one that vblank may put there; so no unfinished frame is ever visible.
NoTearing ==
  /\ pc \in {"fill", "paint"} => back # scanout /\ queued = None
  /\ \A b \in {scanout, queued} \ {None} : content[b] # Torn

\* The program's view matches the display's: outside a flip `front` is on the
\* screen; while it waits there is exactly one flip or event outstanding.
FlipAccounting ==
  /\ pc \in {"fill", "paint", "flip"} => scanout = front /\ queued = None /\ events = 0
  /\ pc \in {"wait", "select", "handle"} =>
       IF page_flip_pending
         THEN \/ queued = back /\ scanout = front /\ events = 0
              \/ queued = None /\ scanout = back /\ events = 1
         ELSE queued = None /\ scanout = front /\ events = 0

\* Whatever step fails, everything the program has created is released before
\* the device is closed, and the screen no longer uses it.
AllReleased ==
  pc \in {"close", "exit"} => dumbs = {} /\ fbs = {} /\ maps = {} /\ scanout = None /\ queued = None

\* The screen never shows, and no flip targets, a buffer that has been removed.
ScanoutAlive == {scanout, queued} \ {None} \subseteq fbs \cap dumbs

\* The program ends.
Terminates == <>(pc = "exit")
=============================================================================
