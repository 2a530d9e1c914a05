---------------------------- MODULE PageFlip_proof ----------------------------
(***************************************************************************)
(* Proofs about PageFlip for every number of frames.  The inductive        *)
(* invariant follows the program through its phases: while it sets up the  *)
(* screen is not its own; while it draws, the front buffer is on the       *)
(* screen; while it waits, one flip or one event is outstanding; while it  *)
(* cleans up, a last flip may still take effect.                           *)
(***************************************************************************)
EXTENDS PageFlip, TLAPS

Creating == {"create_dumb", "addfb", "map_dumb", "mmap"}
Starting == {"fill_first", "paint_first", "set_crtc"}
Drawing == {"fill", "paint", "flip"}
Waiting == {"wait", "select", "handle"}
Releasing == {"munmap", "rmfb", "destroy_dumb"}
Cleanup == Releasing \cup {"close", "exit"}

\* Where the loop variable and the two roles stand in each phase.
Phases ==
  /\ pc \in Creating \cup Releasing => i \in Bufs
  /\ pc \in Drawing \cup Waiting => i \in 1 .. LastFrame
  /\ pc \in {"open", "find"} \cup Creating \cup Starting => front = 0
  /\ pc \in Starting => back = 1
  /\ pc \in Drawing \cup Waiting => front # back
  /\ pc = "handle" => events # 0

\* Until drmModeSetCrtc the program is not on the screen, and once its screen
\* has been turned off it never comes back.
Off ==
  /\ pc \in {"open", "find"} \cup Creating \cup Starting =>
       scanout = None /\ queued = None /\ events = 0 /\ ~ended
  /\ ended => scanout = None /\ queued = None /\ pc \in Cleanup

\* What the buffers hold, relative to the frame the main loop is at.
Contents ==
  /\ scanout # None => content[scanout] \in 0 .. LastFrame
  /\ queued # None => /\ scanout # None
                      /\ content[queued] = content[scanout] + 1
                      /\ content[queued] \in 1 .. LastFrame
  /\ pc = "set_crtc" => content[front] = 0
  /\ pc \in Drawing => content[front] = i - 1
  /\ pc = "flip" => content[back] = i /\ page_flip_pending
  /\ pc \in Waiting =>
       IF page_flip_pending THEN content[back] = i /\ content[front] = i - 1
                            ELSE content[front] = i

\* The kernel objects are those the program remembers, less what the cleanup
\* loop has released already.
Owned ==
  /\ \A b \in Bufs : /\ b \in dumbs <=> bufs[b].handle
                     /\ b \in fbs => b \in dumbs /\ bufs[b].fb_id
                     /\ b \in maps => b \in dumbs /\ bufs[b].map = "ok"
  /\ pc \in {"open", "find"} => dumbs = {}
  /\ pc \in Creating => \A b \in Bufs : b >= i => b \notin maps
  /\ pc \in Creating => \A b \in Bufs : b < i => b \in fbs
  /\ pc \in {"addfb", "map_dumb", "mmap"} => i \in dumbs
  /\ pc \in {"map_dumb", "mmap"} => i \in fbs
  /\ pc \in Starting \cup Drawing \cup Waiting => fbs = Bufs
  /\ {scanout, queued} \ {None} \subseteq fbs
  /\ pc \in Releasing => \A b \in Bufs : b < i => b \notin dumbs
  /\ pc \in {"rmfb", "destroy_dumb"} => i \notin maps
  /\ pc = "destroy_dumb" => i \notin fbs
  /\ pc \in {"close", "exit"} => dumbs = {}

IInv == TypeOK /\ Phases /\ Off /\ FlipAccounting /\ Contents /\ Owned

LEMMA BufferFields ==
  /\ Empty \in DumbBuffer
  /\ \A b \in DumbBuffer : /\ [b EXCEPT !.handle = TRUE] \in DumbBuffer
                           /\ [b EXCEPT !.fb_id = TRUE] \in DumbBuffer
                           /\ [b EXCEPT !.map = "ok"] \in DumbBuffer
                           /\ [b EXCEPT !.map = "failed"] \in DumbBuffer
  BY DEF DumbBuffer, Empty

LEMMA NextTypeOK == IInv /\ [Next]_vars => TypeOK'
<1> SUFFICES ASSUME IInv, [Next]_vars PROVE TypeOK'
  OBVIOUS
<1> USE FrameAssumption DEF IInv, TypeOK, app, kernel, Bufs, None, Torn,
        Creating, Starting, Drawing, Waiting, Releasing, Cleanup
<1>1. CASE OpenDevice
  BY <1>1 DEF OpenDevice
<1>2. CASE FindConnector
  BY <1>2 DEF FindConnector
<1>3. CASE CreateDumb
  <2>1. i \in Bufs
    BY <1>3 DEF CreateDumb, Phases
  <2>2. dumbs' \in SUBSET Bufs
    BY <1>3, <2>1 DEF CreateDumb
  <2>3. bufs' \in [Bufs -> DumbBuffer]
    <3>1. bufs[i] \in DumbBuffer
      BY <2>1
    <3>2. [bufs[i] EXCEPT !.handle = TRUE] \in DumbBuffer
      BY <3>1, BufferFields
    <3>3. \/ bufs' = [bufs EXCEPT ![i] = [bufs[i] EXCEPT !.handle = TRUE]]
          \/ bufs' = bufs
      BY <1>3 DEF CreateDumb
    <3> QED
      BY <3>2, <3>3
  <2> QED
    BY <1>3, <2>1, <2>2, <2>3 DEF CreateDumb, ErrDestroy
<1>4. CASE AddFB
  <2>1. i \in Bufs
    BY <1>4 DEF AddFB, Phases
  <2>2. fbs' \in SUBSET Bufs
    BY <1>4, <2>1 DEF AddFB
  <2>3. bufs' \in [Bufs -> DumbBuffer]
    <3>1. bufs[i] \in DumbBuffer
      BY <2>1
    <3>2. [bufs[i] EXCEPT !.fb_id = TRUE] \in DumbBuffer
      BY <3>1, BufferFields
    <3>3. \/ bufs' = [bufs EXCEPT ![i] = [bufs[i] EXCEPT !.fb_id = TRUE]]
          \/ bufs' = bufs
      BY <1>4 DEF AddFB
    <3> QED
      BY <3>2, <3>3
  <2> QED
    BY <1>4, <2>1, <2>2, <2>3 DEF AddFB, ErrDestroy
<1>5. CASE MapDumb
  BY <1>5 DEF MapDumb, ErrDestroy
<1>6. CASE Mmap
  <2>1. i \in Bufs
    BY <1>6 DEF Mmap, Phases
  <2>2. maps' \in SUBSET Bufs
    BY <1>6, <2>1 DEF Mmap
  <2>3. bufs' \in [Bufs -> DumbBuffer]
    <3>1. bufs[i] \in DumbBuffer
      BY <2>1
    <3>2. [bufs[i] EXCEPT !.map = "ok"] \in DumbBuffer
      BY <3>1, BufferFields
    <3>3. [bufs[i] EXCEPT !.map = "failed"] \in DumbBuffer
      BY <3>1, BufferFields
    <3>4. \/ bufs' = [bufs EXCEPT ![i] = [bufs[i] EXCEPT !.map = "ok"]]
          \/ bufs' = [bufs EXCEPT ![i] = [bufs[i] EXCEPT !.map = "failed"]]
      BY <1>6 DEF Mmap
    <3> QED
      BY <3>2, <3>3, <3>4
  <2> QED
    BY <1>6, <2>1, <2>2, <2>3 DEF Mmap, ErrDestroy
<1>7. CASE FillFirst
  BY <1>7 DEF FillFirst
<1>8. CASE PaintFirst
  BY <1>8 DEF PaintFirst
<1>9. CASE SetCrtc
  BY <1>9 DEF SetCrtc, ErrDestroy, LoopTest
<1>10. CASE Fill
  BY <1>10 DEF Fill
<1>11. CASE Paint
  BY <1>11 DEF Paint
<1>12. CASE RequestFlip
  BY <1>12 DEF RequestFlip, ErrDestroy
<1>13. CASE WaitTest
  BY <1>13 DEF WaitTest, ErrDestroy, LoopTest
<1>14. CASE SelectReady
  BY <1>14 DEF SelectReady
<1>15. CASE SelectFails
  BY <1>15 DEF SelectFails, ErrDestroy
<1>16. CASE HandleEvent
  <2>1. front' \in Bufs /\ back' \in Bufs /\ events' \in Nat
    BY <1>16 DEF HandleEvent, page_flip_handler
  <2>2. page_flip_pending' \in BOOLEAN
    BY <1>16 DEF HandleEvent, page_flip_handler
  <2> QED
    BY <1>16, <2>1, <2>2 DEF HandleEvent, page_flip_handler, ErrDestroy
<1>17. CASE Munmap
  BY <1>17 DEF Munmap, NextBuffer
<1>18. CASE RmFB
  BY <1>18 DEF RmFB
<1>19. CASE DestroyDumb
  <2>1. i \in Bufs
    BY <1>19 DEF DestroyDumb, Phases
  <2>2. bufs' \in [Bufs -> DumbBuffer]
    BY <1>19, <2>1, BufferFields DEF DestroyDumb
  <2> QED
    BY <1>19, <2>1, <2>2 DEF DestroyDumb, NextBuffer
<1>20. CASE Close
  BY <1>20 DEF Close
<1>21. CASE VBlank
  BY <1>21 DEF VBlank
<1>22. CASE UNCHANGED vars
  BY <1>22 DEF vars
<1> QED
  BY <1>1, <1>2, <1>3, <1>4, <1>5, <1>6, <1>7, <1>8, <1>9, <1>10, <1>11, <1>12, <1>13, <1>14, <1>15, <1>16, <1>17, <1>18, <1>19, <1>20, <1>21, <1>22
     DEF Next, Step, Finished

LEMMA NextPhases == IInv /\ [Next]_vars => Phases'
<1> SUFFICES ASSUME IInv, [Next]_vars PROVE Phases'
  OBVIOUS
<1> USE FrameAssumption DEF IInv, TypeOK, Phases, app, kernel, Bufs, None, Torn, Empty,
        Creating, Starting, Drawing, Waiting, Releasing, Cleanup
<1>1. CASE OpenDevice
  BY <1>1 DEF OpenDevice
<1>2. CASE FindConnector
  BY <1>2 DEF FindConnector
<1>3. CASE CreateDumb
  BY <1>3 DEF CreateDumb, ErrDestroy
<1>4. CASE AddFB
  BY <1>4 DEF AddFB, ErrDestroy
<1>5. CASE MapDumb
  BY <1>5 DEF MapDumb, ErrDestroy
<1>6. CASE Mmap
  BY <1>6 DEF Mmap, ErrDestroy
<1>7. CASE FillFirst
  BY <1>7 DEF FillFirst
<1>8. CASE PaintFirst
  BY <1>8 DEF PaintFirst
<1>9. CASE SetCrtc
  BY <1>9 DEF SetCrtc, ErrDestroy, LoopTest
<1>10. CASE Fill
  BY <1>10 DEF Fill
<1>11. CASE Paint
  BY <1>11 DEF Paint
<1>12. CASE RequestFlip
  BY <1>12 DEF RequestFlip, ErrDestroy
<1>13. CASE WaitTest
  BY <1>13 DEF WaitTest, ErrDestroy, LoopTest
<1>14. CASE SelectReady
  BY <1>14 DEF SelectReady
<1>15. CASE SelectFails
  BY <1>15 DEF SelectFails, ErrDestroy
<1>16. CASE HandleEvent
  BY <1>16 DEF HandleEvent, page_flip_handler, ErrDestroy
<1>17. CASE Munmap
  BY <1>17 DEF Munmap, NextBuffer
<1>18. CASE RmFB
  BY <1>18 DEF RmFB
<1>19. CASE DestroyDumb
  BY <1>19 DEF DestroyDumb, NextBuffer
<1>20. CASE Close
  BY <1>20 DEF Close
<1>21. CASE VBlank
  BY <1>21 DEF VBlank
<1>22. CASE UNCHANGED vars
  BY <1>22 DEF vars
<1> QED
  BY <1>1, <1>2, <1>3, <1>4, <1>5, <1>6, <1>7, <1>8, <1>9, <1>10, <1>11, <1>12, <1>13, <1>14, <1>15, <1>16, <1>17, <1>18, <1>19, <1>20, <1>21, <1>22
     DEF Next, Step, Finished

LEMMA NextOff == IInv /\ [Next]_vars => Off'
<1> SUFFICES ASSUME IInv, [Next]_vars PROVE Off'
  OBVIOUS
<1> USE FrameAssumption DEF IInv, TypeOK, Off, Phases, app, kernel, Bufs, None, Torn, Empty,
        Creating, Starting, Drawing, Waiting, Releasing, Cleanup
<1>1. CASE OpenDevice
  BY <1>1 DEF OpenDevice
<1>2. CASE FindConnector
  BY <1>2 DEF FindConnector
<1>3. CASE CreateDumb
  BY <1>3 DEF CreateDumb, ErrDestroy
<1>4. CASE AddFB
  BY <1>4 DEF AddFB, ErrDestroy
<1>5. CASE MapDumb
  BY <1>5 DEF MapDumb, ErrDestroy
<1>6. CASE Mmap
  BY <1>6 DEF Mmap, ErrDestroy
<1>7. CASE FillFirst
  BY <1>7 DEF FillFirst
<1>8. CASE PaintFirst
  BY <1>8 DEF PaintFirst
<1>9. CASE SetCrtc
  BY <1>9 DEF SetCrtc, ErrDestroy, LoopTest
<1>10. CASE Fill
  BY <1>10 DEF Fill
<1>11. CASE Paint
  BY <1>11 DEF Paint
<1>12. CASE RequestFlip
  BY <1>12 DEF RequestFlip, ErrDestroy
<1>13. CASE WaitTest
  BY <1>13 DEF WaitTest, ErrDestroy, LoopTest
<1>14. CASE SelectReady
  BY <1>14 DEF SelectReady
<1>15. CASE SelectFails
  BY <1>15 DEF SelectFails, ErrDestroy
<1>16. CASE HandleEvent
  BY <1>16 DEF HandleEvent, page_flip_handler, ErrDestroy
<1>17. CASE Munmap
  BY <1>17 DEF Munmap, NextBuffer
<1>18. CASE RmFB
  BY <1>18 DEF RmFB
<1>19. CASE DestroyDumb
  BY <1>19 DEF DestroyDumb, NextBuffer
<1>20. CASE Close
  BY <1>20 DEF Close
<1>21. CASE VBlank
  BY <1>21 DEF VBlank
<1>22. CASE UNCHANGED vars
  BY <1>22 DEF vars
<1> QED
  BY <1>1, <1>2, <1>3, <1>4, <1>5, <1>6, <1>7, <1>8, <1>9, <1>10, <1>11, <1>12, <1>13, <1>14, <1>15, <1>16, <1>17, <1>18, <1>19, <1>20, <1>21, <1>22
     DEF Next, Step, Finished

LEMMA NextFlipAccounting == IInv /\ [Next]_vars => FlipAccounting'
<1> SUFFICES ASSUME IInv, [Next]_vars PROVE FlipAccounting'
  OBVIOUS
<1> USE FrameAssumption DEF IInv, TypeOK, FlipAccounting, Phases, Off, app, kernel, Bufs, None, Torn, Empty,
        Creating, Starting, Drawing, Waiting, Releasing, Cleanup
<1>1. CASE OpenDevice
  BY <1>1 DEF OpenDevice
<1>2. CASE FindConnector
  BY <1>2 DEF FindConnector
<1>3. CASE CreateDumb
  BY <1>3 DEF CreateDumb, ErrDestroy
<1>4. CASE AddFB
  BY <1>4 DEF AddFB, ErrDestroy
<1>5. CASE MapDumb
  BY <1>5 DEF MapDumb, ErrDestroy
<1>6. CASE Mmap
  BY <1>6 DEF Mmap, ErrDestroy
<1>7. CASE FillFirst
  BY <1>7 DEF FillFirst
<1>8. CASE PaintFirst
  BY <1>8 DEF PaintFirst
<1>9. CASE SetCrtc
  BY <1>9 DEF SetCrtc, ErrDestroy, LoopTest
<1>10. CASE Fill
  BY <1>10 DEF Fill
<1>11. CASE Paint
  BY <1>11 DEF Paint
<1>12. CASE RequestFlip
  BY <1>12 DEF RequestFlip, ErrDestroy, Contents
<1>13. CASE WaitTest
  BY <1>13 DEF WaitTest, ErrDestroy, LoopTest
<1>14. CASE SelectReady
  BY <1>14 DEF SelectReady
<1>15. CASE SelectFails
  BY <1>15 DEF SelectFails, ErrDestroy
<1>16. CASE HandleEvent
  <2>1. events = 1 /\ page_flip_pending
    BY <1>16 DEF HandleEvent, page_flip_handler, FlipAccounting
  <2>2. events % 2 = 1
    BY <2>1
  <2> QED
    BY <1>16, <2>1, <2>2 DEF HandleEvent, page_flip_handler, ErrDestroy
<1>17. CASE Munmap
  BY <1>17 DEF Munmap, NextBuffer
<1>18. CASE RmFB
  BY <1>18 DEF RmFB
<1>19. CASE DestroyDumb
  BY <1>19 DEF DestroyDumb, NextBuffer
<1>20. CASE Close
  BY <1>20 DEF Close
<1>21. CASE VBlank
  BY <1>21 DEF VBlank
<1>22. CASE UNCHANGED vars
  BY <1>22 DEF vars
<1> QED
  BY <1>1, <1>2, <1>3, <1>4, <1>5, <1>6, <1>7, <1>8, <1>9, <1>10, <1>11, <1>12, <1>13, <1>14, <1>15, <1>16, <1>17, <1>18, <1>19, <1>20, <1>21, <1>22
     DEF Next, Step, Finished

LEMMA NextContents == IInv /\ [Next]_vars => Contents'
<1> SUFFICES ASSUME IInv, [Next]_vars PROVE Contents'
  OBVIOUS
<1> USE FrameAssumption DEF IInv, TypeOK, Contents, FlipAccounting, Phases, Off, app, kernel, Bufs, None, Torn, Empty,
        Creating, Starting, Drawing, Waiting, Releasing, Cleanup
<1>1. CASE OpenDevice
  BY <1>1 DEF OpenDevice
<1>2. CASE FindConnector
  BY <1>2 DEF FindConnector
<1>3. CASE CreateDumb
  BY <1>3 DEF CreateDumb, ErrDestroy
<1>4. CASE AddFB
  BY <1>4 DEF AddFB, ErrDestroy
<1>5. CASE MapDumb
  BY <1>5 DEF MapDumb, ErrDestroy
<1>6. CASE Mmap
  BY <1>6 DEF Mmap, ErrDestroy
<1>7. CASE FillFirst
  BY <1>7 DEF FillFirst
<1>8. CASE PaintFirst
  BY <1>8 DEF PaintFirst
<1>9. CASE SetCrtc
  BY <1>9 DEF SetCrtc, ErrDestroy, LoopTest
<1>10. CASE Fill
  BY <1>10 DEF Fill
<1>11. CASE Paint
  BY <1>11 DEF Paint
<1>12. CASE RequestFlip
  BY <1>12 DEF RequestFlip, ErrDestroy
<1>13. CASE WaitTest
  BY <1>13 DEF WaitTest, ErrDestroy, LoopTest
<1>14. CASE SelectReady
  BY <1>14 DEF SelectReady
<1>15. CASE SelectFails
  BY <1>15 DEF SelectFails, ErrDestroy
<1>16. CASE HandleEvent
  <2>1. events = 1 /\ page_flip_pending
    BY <1>16 DEF HandleEvent, page_flip_handler, FlipAccounting
  <2>2. events % 2 = 1
    BY <2>1
  <2> QED
    BY <1>16, <2>1, <2>2 DEF HandleEvent, page_flip_handler, ErrDestroy
<1>17. CASE Munmap
  BY <1>17 DEF Munmap, NextBuffer
<1>18. CASE RmFB
  BY <1>18 DEF RmFB
<1>19. CASE DestroyDumb
  BY <1>19 DEF DestroyDumb, NextBuffer
<1>20. CASE Close
  BY <1>20 DEF Close
<1>21. CASE VBlank
  BY <1>21 DEF VBlank
<1>22. CASE UNCHANGED vars
  BY <1>22 DEF vars
<1> QED
  BY <1>1, <1>2, <1>3, <1>4, <1>5, <1>6, <1>7, <1>8, <1>9, <1>10, <1>11, <1>12, <1>13, <1>14, <1>15, <1>16, <1>17, <1>18, <1>19, <1>20, <1>21, <1>22
     DEF Next, Step, Finished

LEMMA NextOwned == IInv /\ [Next]_vars => Owned'
<1> SUFFICES ASSUME IInv, [Next]_vars PROVE Owned'
  OBVIOUS
<1> USE FrameAssumption DEF IInv, TypeOK, Owned, Phases, FlipAccounting, Off, app, kernel, Bufs, None, Torn, Empty,
        Creating, Starting, Drawing, Waiting, Releasing, Cleanup
<1>1. CASE OpenDevice
  BY <1>1 DEF OpenDevice
<1>2. CASE FindConnector
  BY <1>2 DEF FindConnector
<1>3. CASE CreateDumb
  BY <1>3 DEF CreateDumb, ErrDestroy, DumbBuffer
<1>4. CASE AddFB
  BY <1>4 DEF AddFB, ErrDestroy, DumbBuffer
<1>5. CASE MapDumb
  BY <1>5 DEF MapDumb, ErrDestroy
<1>6. CASE Mmap
  BY <1>6 DEF Mmap, ErrDestroy, DumbBuffer
<1>7. CASE FillFirst
  BY <1>7 DEF FillFirst
<1>8. CASE PaintFirst
  BY <1>8 DEF PaintFirst
<1>9. CASE SetCrtc
  BY <1>9 DEF SetCrtc, ErrDestroy, LoopTest
<1>10. CASE Fill
  BY <1>10 DEF Fill
<1>11. CASE Paint
  BY <1>11 DEF Paint
<1>12. CASE RequestFlip
  BY <1>12 DEF RequestFlip, ErrDestroy
<1>13. CASE WaitTest
  BY <1>13 DEF WaitTest, ErrDestroy, LoopTest
<1>14. CASE SelectReady
  BY <1>14 DEF SelectReady
<1>15. CASE SelectFails
  BY <1>15 DEF SelectFails, ErrDestroy
<1>16. CASE HandleEvent
  BY <1>16 DEF HandleEvent, page_flip_handler, ErrDestroy
<1>17. CASE Munmap
  BY <1>17 DEF Munmap, NextBuffer
<1>18. CASE RmFB
  BY <1>18 DEF RmFB
<1>19. CASE DestroyDumb
  BY <1>19 DEF DestroyDumb, NextBuffer
<1>20. CASE Close
  BY <1>20 DEF Close
<1>21. CASE VBlank
  BY <1>21 DEF VBlank
<1>22. CASE UNCHANGED vars
  BY <1>22 DEF vars
<1> QED
  BY <1>1, <1>2, <1>3, <1>4, <1>5, <1>6, <1>7, <1>8, <1>9, <1>10, <1>11, <1>12, <1>13, <1>14, <1>15, <1>16, <1>17, <1>18, <1>19, <1>20, <1>21, <1>22
     DEF Next, Step, Finished

LEMMA InitIInv == Init => IInv
<1> SUFFICES ASSUME Init PROVE IInv
  OBVIOUS
<1>1. TypeOK
  <2>1. bufs \in [Bufs -> DumbBuffer]
    BY BufferFields DEF Init
  <2>2. content \in [Bufs -> Int]
    BY DEF Init, Torn
  <2> QED
    BY <2>1, <2>2 DEF Init, TypeOK, Bufs, None
<1>2. Phases /\ Off /\ FlipAccounting
  BY DEF Init, Phases, Off, FlipAccounting, Bufs, None, Creating, Starting,
         Drawing, Waiting, Releasing, Cleanup
<1>3. Contents /\ Owned
  BY DEF Init, Contents, Owned, Empty, Bufs, None, Creating, Starting,
         Drawing, Waiting, Releasing
<1> QED
  BY <1>1, <1>2, <1>3 DEF IInv

\* The inductive invariant holds in every reachable state.
THEOREM Invariance == Spec => []IInv
<1>1. IInv /\ [Next]_vars => IInv'
  BY NextTypeOK, NextPhases, NextOff, NextFlipAccounting, NextContents, NextOwned DEF IInv
<1> QED
  BY InitIInv, <1>1, PTL DEF Spec

-----------------------------------------------------------------------------
\* The variables stay within their types, however many frames are shown.
THEOREM TypeCorrect == Spec => []TypeOK
<1>1. IInv => TypeOK
  BY DEF IInv
<1> QED
  BY Invariance, <1>1, PTL

\* Between flips the program's front buffer is the one on the screen, and while
\* it waits exactly one flip or one unread event is outstanding, so the flag
\* that page_flip_handler clears never refers to an earlier flip.
THEOREM FlipsAccountedFor == Spec => []FlipAccounting
<1>1. IInv => FlipAccounting
  BY DEF IInv
<1> QED
  BY Invariance, <1>1, PTL

\* fill_color never writes the buffer on the screen or the one queued for the
\* next vertical blank, so no half drawn frame is ever scanned out.
THEOREM ScreenNeverTorn == Spec => []NoTearing
<1>1. IInv => NoTearing
  <2> SUFFICES ASSUME IInv PROVE NoTearing
    OBVIOUS
  <2>1. pc \in {"fill", "paint"} => back # scanout /\ queued = None
    BY DEF IInv, FlipAccounting, Phases, Drawing
  <2>2. \A b \in {scanout, queued} \ {None} : content[b] \in 0 .. LastFrame
    BY FrameAssumption DEF IInv, Contents
  <2> QED
    BY <2>1, <2>2, FrameAssumption DEF NoTearing, Torn
<1> QED
  BY Invariance, <1>1, PTL

\* Whichever call of the set-up or of the main loop fails, by the time the
\* device is closed main has unmapped, removed and destroyed everything.
THEOREM EverythingReleased == Spec => []AllReleased
<1>1. IInv => AllReleased
  <2> SUFFICES ASSUME IInv, pc \in {"close", "exit"}
               PROVE  dumbs = {} /\ fbs = {} /\ maps = {} /\ scanout = None /\ queued = None
    BY DEF AllReleased
  <2>1. dumbs = {}
    BY DEF IInv, Owned
  <2>2. fbs = {} /\ maps = {}
    BY <2>1 DEF IInv, Owned, TypeOK
  <2>3. {scanout, queued} \ {None} = {}
    BY <2>2 DEF IInv, Owned
  <2> QED
    BY <2>1, <2>2, <2>3
<1> QED
  BY Invariance, <1>1, PTL

\* destroy_dumb_buffer removes the framebuffer before the memory behind it, so
\* the display never scans, or flips to, a buffer that is gone.
THEOREM ScreenBacked == Spec => []ScanoutAlive
<1>1. IInv => ScanoutAlive
  BY DEF IInv, Owned, TypeOK, ScanoutAlive
<1> QED
  BY Invariance, <1>1, PTL

-----------------------------------------------------------------------------
\* Every step of the program and of the display is a step of FrameSequence or
\* leaves the picture alone: the picture starts at drmModeSetCrtc, advances at
\* each vertical blank that completes a flip, and stops at drmModeRmFB.
LEMMA StepRefines == IInv /\ [Next]_vars => [Abstract!Next]_<<Shown, ended>>
<1> SUFFICES ASSUME IInv, [Next]_vars PROVE [Abstract!Next]_<<Shown, ended>>
  OBVIOUS
<1> USE DEF IInv, app, kernel, Bufs, None, Creating, Starting, Drawing, Waiting, Releasing, Cleanup
<1>1. CASE SetCrtc
  <2>1. CASE scanout' = scanout
    BY <1>1, <2>1 DEF SetCrtc, Shown
  <2>2. CASE scanout' = front /\ scanout # front
    <3>1. Shown = Abstract!Dark /\ ~ended
      BY <1>1 DEF SetCrtc, Off, Shown, Abstract!Dark
    <3>2. Shown' = 0 /\ ended' = ended
      BY <1>1, <2>2 DEF SetCrtc, Contents, Phases, Shown
    <3> QED
      BY <3>1, <3>2 DEF Abstract!Next, Abstract!Start
  <2> QED
    BY <1>1, <2>1, <2>2 DEF SetCrtc
<1>2. CASE VBlank
  <2>1. /\ queued # -1 /\ scanout # -1
        /\ content[queued] = content[scanout] + 1
        /\ content[queued] \in 1 .. LastFrame
    BY <1>2 DEF VBlank, Contents
  <2>2. /\ Shown = content[scanout] /\ Shown' = content[queued]
        /\ ended' = ended
    BY <1>2, <2>1 DEF VBlank, Shown
  <2>3. content[scanout] \in 0 .. LastFrame
    BY <2>1 DEF Contents
  <2>4. content[scanout] \in 0 .. LastFrame - 1
    BY <2>1, <2>3, FrameAssumption
  <2> QED
    BY <2>1, <2>2, <2>4 DEF Abstract!Next, Abstract!Advance
<1>3. CASE RmFB
  <2>1. CASE scanout' = scanout /\ ended' = ended
    BY <1>3, <2>1 DEF RmFB, Shown
  <2>2. CASE scanout' = -1 /\ ended' = TRUE /\ i \in {scanout, queued}
    <3>1. scanout # -1
      BY <1>3, <2>2 DEF RmFB, Phases, Contents
    <3>2. Shown # -1
      BY <3>1, FrameAssumption DEF Contents, Shown
    <3>3. Shown' = -1
      BY <2>2 DEF Shown
    <3> QED
      BY <2>2, <3>2, <3>3 DEF Abstract!Next, Abstract!Stop, Abstract!Dark
  <2> QED
    BY <1>3, <2>1, <2>2 DEF RmFB
<1>4. CASE FillFirst \/ PaintFirst \/ Fill \/ Paint    \* draw off screen
  <2>1. /\ scanout' = scanout /\ ended' = ended
        /\ scanout # -1 => content'[scanout] = content[scanout]
    <3>1. CASE FillFirst
      BY <3>1 DEF FillFirst, Off
    <3>2. CASE PaintFirst
      BY <3>2 DEF PaintFirst, Off
    <3>3. CASE Fill
      BY <3>3 DEF Fill, FlipAccounting, Phases, TypeOK
    <3>4. CASE Paint
      BY <3>4 DEF Paint, FlipAccounting, Phases, TypeOK
    <3> QED
      BY <1>4, <3>1, <3>2, <3>3, <3>4
  <2> QED
    BY <2>1 DEF Shown
<1>5. CASE UNCHANGED <<scanout, content, ended>>
  BY <1>5 DEF Shown
<1> QED
  BY <1>1, <1>2, <1>3, <1>4, <1>5
     DEF Next, Step, Finished, vars, OpenDevice, FindConnector, CreateDumb, AddFB, MapDumb,
         Mmap, RequestFlip, WaitTest, SelectReady, SelectFails, HandleEvent, Munmap,
         DestroyDumb, Close

\* The program implements the abstract frame sequence: a viewer sees frames
\* 0, 1, 2, ... once each, complete and in order, until the screen goes dark.
THEOREM FramesShownInOrder == Spec => FramesInOrder
<1>1. Init => Abstract!Init
  BY DEF Init, Abstract!Init, Abstract!Dark, Shown, None
<1> QED
  BY <1>1, Invariance, StepRefines, PTL DEF Spec, FramesInOrder, Abstract!Spec, Abstract!vars
=============================================================================
