---------------------------- MODULE UserPrograms ----------------------------
(***************************************************************************)
(* The user programs that are one long sequence of calls, any of which may *)
(* fail, with a way out of its own at every point (goto err_..., return).  *)
(* Three put one dumb buffer on the screen, or nearly so:                  *)
(*   atomic      drm_atomic_commit_flow/userspace/atomic_modeset_minimal.c *)
(*   modeset     drm_plane_crtc_flow/userspace/modeset_minimal.c           *)
(*   dumb        dumb_buffer_flow/userspace/dumb_buffer.c                  *)
(* and the others are                                                      *)
(*   prime       dma_buf_prime_flow/userspace/prime_fd_notes.c             *)
(*   mmap_user, fault_user, ioctl_user     clients of the kernel modules   *)
(*   hash_chain  security/hash_chain_minimal/hash_chain_minimal.c          *)
(*                                                                         *)
(* A program is written down as the sequence of instructions it has still  *)
(* to execute.  An instruction that can fail carries in `else` what the    *)
(* program does instead of the rest.  The actions execute instructions     *)
(* against the objects that DRM, the libraries and mm keep for the process.*)
(***************************************************************************)
EXTENDS Naturals, Sequences

CONSTANTS
  Connectors,    \* how many connectors the device has
  Planes         \* and how many planes

ASSUME UserProgramsAssumption == Connectors \in Nat /\ Planes \in Nat

\* "offset" stands for the fake offset MAP_DUMB returns, the rest for what the
\* call named like it allocates.
Memory == {"res", "conn", "enc", "planes", "plane", "props", "req",    \* libdrm
           "fp", "ctx"}                                                \* stdio, libcrypto
PerFile == {"handle", "offset", "fb", "blob"}    \* freed by the kernel with the file
Objects == Memory \cup PerFile \cup {"fd", "map", "shared"}

\* What the atomic commit is made of; a rectangle stands for its four properties.
AtomicProps == {"connector CRTC_ID", "MODE_ID", "ACTIVE", "FB_ID", "plane CRTC_ID",
                "SRC rectangle", "CRTC rectangle"}
ClientCaps == {"universal_cap", "atomic_cap"}

\* The components in the usage message of hash_chain_minimal.c.
Components == <<"tfa.bin", "uboot.bin", "Image", "board.dtb">>

Needs(x) ==
  CASE x \in {"fb", "offset"} -> {"fd", "handle"}
    [] x = "map"              -> {"fd", "offset"}
    [] x = "conn"             -> {"fd", "res"}
    [] x = "enc"              -> {"fd", "conn"}
    [] x \in {"plane", "props"} -> {"fd", "planes"}
    [] x \in {"fd", "fp", "ctx"} -> {}
    [] x \in {Components[i] : i \in DOMAIN Components} -> {"fp", "ctx"}
    [] x = "extend"           -> {"ctx"}
    [] x \in AtomicProps      -> {"fd", "req"}
    [] x = "atomic_commit"    -> {"fd", "req", "blob", "fb"}
    [] x = "setcrtc"          -> {"fd", "conn", "fb"}
    [] OTHER                  -> {"fd"}

Get(x, else) == [do |-> "get", what |-> x, else |-> else]
Test(x, else) == [do |-> "test", what |-> x, else |-> else]    \* a condition on the device
Show(x, else) == [do |-> "show", what |-> x, else |-> else]
Try(X) == [do |-> "try", what |-> X, else |-> <<>>]    \* calls whose results nobody looks at
Put(x) == [do |-> "put", what |-> x, else |-> <<>>]
PutIf(x) == [do |-> "putif", what |-> x, else |-> <<>>]        \* if it was created
Paint == [do |-> "paint", what |-> "map", else |-> <<>>]
Use(x) == [do |-> "use", what |-> x, else |-> <<>>]
Tell == [do |-> "tell", what |-> "user", else |-> <<>>]        \* printf, or a prompt
Measure(x, else) == [do |-> "measure", what |-> x, else |-> else]
Extend(else) == [do |-> "extend", what |-> "extend", else |-> else]

-----------------------------------------------------------------------------
\* Altered: mmap with an offset nobody has asked for.
Create_MmapFirst(err) == <<Get("handle", err), Get("fb", err), Get("map", err), Get("offset", err)>>

\* create_dumb_buffer, the same in both programs that have it.
Create(err) == <<Get("handle", err), Get("fb", err), Get("offset", err), Get("map", err)>>

\* The loop over the connectors, which ends with the first one in use.
ConnectorLoop(found, err) ==
  LET loop[n \in 0 .. Connectors] ==
        IF n = 0 THEN <<Put("res")>> \o err
        ELSE <<Get("conn", loop[n - 1]),
               Test("connected", <<Put("conn")>> \o loop[n - 1])>> \o found
  IN loop[Connectors]

\* find_connector_crtc
FindConnector(next, err) ==
  <<Get("res", err)>>
  \o ConnectorLoop(<<Get("enc", <<Put("conn"), Put("res")>> \o err),
                     Put("enc"), Put("conn"), Put("res")>> \o next, err)

\* Altered: a plane of another type is skipped without freeing its properties.
PlaneLoop_Leaks(found, err) ==
  LET loop[n \in 0 .. Planes] ==
        IF n = 0 THEN <<Put("planes"), Put("res")>> \o err
        ELSE LET continue == <<Put("plane")>> \o loop[n - 1] IN
             <<Get("plane", loop[n - 1]),
               Test("possible_crtcs", continue),
               Get("props", continue),
               Test("primary", continue),
               Put("props"), Put("plane")>> \o found
  IN loop[Planes]

\* The loop over the planes; a plane that cannot be used is freed and skipped.
PlaneLoop(found, err) ==
  LET loop[n \in 0 .. Planes] ==
        IF n = 0 THEN <<Put("planes"), Put("res")>> \o err
        ELSE LET continue == <<Put("plane")>> \o loop[n - 1] IN
             <<Get("plane", loop[n - 1]),
               Test("possible_crtcs", continue),
               Get("props", continue),
               Test("primary", <<Put("props")>> \o continue),
               Put("props"), Put("plane")>> \o found
  IN loop[Planes]

\* find_primary_plane
FindPlane(next, err) ==
  <<Get("res", err), Test("crtc_index", <<Put("res")>> \o err),
    Get("planes", <<Put("res")>> \o err)>>
  \o PlaneLoop(<<Put("planes"), Put("res")>> \o next, err)

\* Altered: the file stays open.
err_close_Missing == <<>>

\* main of atomic_modeset_minimal.c from its last label upwards; a creation
\* that fails half way goes to err_close.
err_close == <<Put("fd")>>
err_destroy == <<PutIf("map"), PutIf("fb"), PutIf("handle")>> \o err_close
err_blob == <<PutIf("blob")>> \o err_destroy

\* load_props and the calls of drmModeAtomicAddProperty are not looked at: a
\* property that is not found (its id is 0 then) or not added is left out.
AtomicCommit(next) ==
  <<Get("blob", err_destroy), Get("req", err_blob), Try(AtomicProps),
    Show("atomic_commit", <<Put("req")>> \o err_blob), Put("req"), Tell>> \o next

\* Altered: the buffer is filled after the commit.
AtomicDraw_Late == AtomicCommit(<<Paint>> \o err_blob)

AtomicDraw == <<Paint>> \o AtomicCommit(err_blob)

AtomicMain ==
  <<Get("fd", <<>>), Try(ClientCaps)>>
  \o FindConnector(FindPlane(Create(err_close) \o AtomicDraw, err_close), err_close)

\* main of modeset_minimal.c; SetCrtc that fails returns at once.
ModesetMain ==
  LET free_res == <<Put("res"), Put("fd")>>
      free_conn == <<Put("conn")>> \o free_res
      free_enc == <<Put("enc")>> \o free_conn
      draw == <<Get("enc", free_conn)>> \o Create(free_enc)
              \o <<Paint, Show("setcrtc", <<>>), Tell, Put("map"), Put("fb"), Put("handle")>>
              \o free_enc
  IN <<Get("fd", <<>>), Get("res", <<Put("fd")>>)>> \o ConnectorLoop(draw, <<Put("fd")>>)

\* main of dumb_buffer.c; every failure returns at once.
DumbMain ==
  <<Get("fd", <<>>), Get("handle", <<>>), Get("offset", <<>>), Get("map", <<>>), Paint,
    Get("fb", <<>>), Put("map"), Put("fd")>>

\* main of prime_fd_notes.c: get_external_dma_buf_fd has nothing to return, so
\* the program ends here.
PrimeMain == <<Get("fd", <<>>), Put("fd")>>

\* mmap_user.c and fault_user.c read and write through a mapping of the device;
\* the latter returns at once if it gets none.
MmapUserMain ==
  <<Get("fd", <<>>), Get("shared", <<Put("fd")>>), Use("shared"), Put("shared"), Put("fd")>>
FaultUserMain ==
  <<Get("fd", <<>>), Get("shared", <<>>), Use("shared"), Put("shared"), Put("fd")>>

\* ioctl_user.c looks at none of its ioctls' results.
IoctlUserMain ==
  <<Get("fd", <<>>), Try({"RESET", "SET_VAL", "GET_VAL"}), Tell, Put("fd")>>

\* sha256_file: EVP_DigestInit_ex, the reads and updates and EVP_DigestFinal_ex
\* all leave through out_free.
sha256_file(x, err) ==
  LET out_close == <<Put("fp")>>
      out_free == <<Put("ctx")>> \o out_close
  IN <<Get("fp", err), Get("ctx", out_close \o err), Measure(x, out_free \o err)>> \o out_free

extend_chain(err) == <<Get("ctx", err), Extend(<<Put("ctx")>> \o err), Put("ctx")>>

\* Altered: a component that cannot be measured is skipped.
HashChainMain_Skips ==
  LET loop[i \in 1 .. Len(Components) + 1] ==
        IF i > Len(Components) THEN <<Tell>>
        ELSE sha256_file(Components[i], loop[i + 1]) \o extend_chain(<<>>) \o loop[i + 1]
  IN loop[1]

\* main of hash_chain_minimal.c
HashChainMain ==
  LET loop[i \in 1 .. Len(Components) + 1] ==
        IF i > Len(Components) THEN <<Tell>>
        ELSE sha256_file(Components[i], <<>>) \o extend_chain(<<>>) \o loop[i + 1]
  IN loop[1]

Main ==
  [atomic |-> AtomicMain, modeset |-> ModesetMain, dumb |-> DumbMain, prime |-> PrimeMain,
   mmap_user |-> MmapUserMain, fault_user |-> FaultUserMain, ioctl_user |-> IoctlUserMain,
   hash_chain |-> HashChainMain]

-----------------------------------------------------------------------------
VARIABLES
  prog,
  todo,          \* the instructions left
  held,          \* the objects that exist on behalf of the process
  ignored,       \* the calls that have failed without the program looking
  painted,       \* the buffer has been filled
  shown,         \* its framebuffer is on the screen
  measurement,   \* the file whose hash is in measurement, "" at first
  chain,         \* the hashes that have gone into chain; SHA-256 mixes up no two
  failedAt       \* what has failed last, "" if nothing has

screen == <<painted, shown>>
digests == <<measurement, chain>>
userVars == <<prog, todo, held, ignored, screen, digests, failedAt>>

Executing(do) == todo # <<>> /\ Head(todo).do \in do
What == Head(todo).what
Continue == todo' = Tail(todo)
Fallible == {"get", "test", "show", "measure", "extend"}

UserInit ==
  /\ prog \in DOMAIN Main
  /\ todo = Main[prog]
  /\ held = {} /\ ignored = {} /\ failedAt = ""
  /\ painted = FALSE /\ shown = FALSE
  /\ measurement = "" /\ chain = <<>>

GetOK ==
  /\ Executing({"get"})
  /\ held' = held \cup {What}
  /\ Continue
  /\ UNCHANGED <<prog, ignored, screen, digests, failedAt>>

\* A condition that holds, a message, or a call that changes nothing here.  A
\* client without either capability is not shown the primary planes.
Passes ==
  /\ Executing({"test", "tell", "use"})
  /\ What = "primary" => ~(ClientCaps \subseteq ignored)
  /\ Continue
  /\ UNCHANGED <<prog, held, ignored, screen, digests, failedAt>>

\* Any of the calls may fail.  Without the atomic capability DRM shows no
\* property that an atomic commit could set.
TryAll ==
  /\ Executing({"try"})
  /\ \E failed \in SUBSET What :
       /\ What = AtomicProps /\ "atomic_cap" \in ignored => failed = What
       /\ ignored' = ignored \cup failed
  /\ Continue
  /\ UNCHANGED <<prog, held, screen, digests, failedAt>>

Dropped == AtomicProps \cap ignored

\* A commit without FB_ID leaves the screen as it is, and one that lacks other
\* properties may.
ShowOK ==
  /\ Executing({"show"})
  /\ \/ shown' = TRUE /\ (What = "atomic_commit" => "FB_ID" \notin Dropped)
     \/ shown' = shown /\ What = "atomic_commit" /\ Dropped # {}
  /\ Continue
  /\ UNCHANGED <<prog, held, ignored, painted, digests, failedAt>>

MeasureOK ==
  /\ Executing({"measure"})
  /\ measurement' = What
  /\ Continue
  /\ UNCHANGED <<prog, held, ignored, screen, chain, failedAt>>

\* new_chain, and memcpy to chain.
ExtendOK ==
  /\ Executing({"extend"})
  /\ chain' = Append(chain, measurement)
  /\ Continue
  /\ UNCHANGED <<prog, held, ignored, screen, measurement, failedAt>>

\* drmModeAtomicCommit does not even ask the kernel if the request is empty, and
\* returns 0.
Fails ==
  /\ Executing(Fallible)
  /\ ~(What = "atomic_commit" /\ Dropped = AtomicProps)
  /\ todo' = Head(todo).else
  /\ failedAt' = What
  /\ UNCHANGED <<prog, held, ignored, screen, digests>>

\* Closing the file frees what DRM keeps for it; a framebuffer that goes away
\* takes the screen with it.
Released(x) == IF x = "fd" THEN PerFile \cup {x} ELSE {x}

PutObject ==
  /\ Executing({"put", "putif"})
  /\ held' = held \ Released(What)
  /\ shown' = (shown /\ "fb" \notin Released(What))
  /\ Continue
  /\ UNCHANGED <<prog, ignored, painted, digests, failedAt>>

PaintBuffer ==
  /\ Executing({"paint"})
  /\ painted' = TRUE
  /\ Continue
  /\ UNCHANGED <<prog, held, ignored, shown, digests, failedAt>>

UserNext ==
  GetOK \/ Passes \/ TryAll \/ ShowOK \/ MeasureOK \/ ExtendOK \/ Fails \/ PutObject \/ PaintBuffer

UserSpec == UserInit /\ [][UserNext]_userVars

-----------------------------------------------------------------------------
\* However the calls fail, no program uses an object it does not have (any more)
\* and none releases, without asking, one that does not exist.
NoDanglingUse ==
  todo # <<>> =>
    /\ Head(todo).do \in Fallible => Needs(What) \subseteq held
    /\ Head(todo).do = "try" => \A x \in What : Needs(x) \subseteq held
    /\ Head(todo).do = "get" => What \notin held
    /\ Head(todo).do \in {"put", "paint", "use"} => What \in held

\* When a program ends it has freed everything, by itself or by closing the
\* file (which is what saves err_close after half a creation), except where the
\* code returns at once: modeset after drmModeSetCrtc, dumb after any failure,
\* fault_user after mmap.
CleanExit ==
  todo = <<>> =>
    \/ held = {} /\ ~shown
    \/ prog = "modeset" /\ failedAt = "setcrtc"
    \/ prog = "dumb" /\ failedAt # ""
    \/ prog = "fault_user" /\ failedAt = "shared"

\* What the user is told is so: the screen is green, or red, when the program
\* says it is, and the final digest stands for all components, in their order.
\* The exceptions: "screen should be green" may be false if properties were
\* dropped from the atomic commit (all of them are, and nothing is committed, if
\* DRM has refused the atomic capability); and of the "value from kernel" that
\* ioctl_user prints whatever its ioctls did, nothing is claimed.
PromptIsTrue ==
  Executing({"tell"}) =>
    /\ prog = "hash_chain" => chain = Components
    /\ prog \in {"atomic", "modeset"} => painted
    /\ prog = "atomic" => shown \/ Dropped # {}
    /\ prog = "modeset" => shown
=============================================================================
