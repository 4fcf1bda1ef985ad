----------------------------- MODULE ShmBuffers -----------------------------
(***************************************************************************)
(* The shared-memory buffers of the shell surfaces (wyrd-wayland,          *)
(* wayland/surface.rs): submit_frame copies a pixmap into a buffer of the  *)
(* surface's pool and commits it, the compositor reads the buffer until it *)
(* sends wl_buffer.release, and the dispatcher records the release in the  *)
(* set released_buffers that all surfaces share.                           *)
(*                                                                         *)
(* Client and compositor run concurrently: a release is sent at any time   *)
(* after the commit and dispatched at any time after that.  Ids count the  *)
(* buffers ever created, so the order of a pool is the order of its ids.   *)
(***************************************************************************)
EXTENDS Naturals, FiniteSets

CONSTANTS
    Surfaces,    \* the shell surfaces
    Sizes,       \* pixel sizes of frames
    MaxBuffers,  \* bound on the buffers ever created
    NoSize       \* the size of a buffer not created yet

ASSUME MaxBuffersIsNatural == MaxBuffers \in Nat

Buffers == 1 .. MaxBuffers
NoBuffer == 0

VARIABLES
    shm_buffers,       \* surface -> the buffers of its pool
    made,              \* buffers created so far
    dims,              \* buffer -> its size
    written,           \* the buffer the last step copied pixels into, or NoBuffer
    released_buffers,  \* ids whose release was dispatched
    destroyed,         \* surfaces removed from the registry
    held,              \* buffers of live surfaces the compositor may read
    releasing          \* release events sent and not dispatched

pools == <<shm_buffers, made, dims>>
compositor == <<held, releasing>>
vars == <<pools, written, released_buffers, destroyed, compositor>>

\* The compositor's hold on a buffer ends with the event, the event with its
\* dispatch, and the dispatched release with the next commit.
OneStage ==
    /\ held \cap releasing = {}
    /\ (held \cup releasing) \cap released_buffers = {}

TypeOK ==
    /\ shm_buffers \in [Surfaces -> SUBSET Buffers]
    /\ made \in 0 .. MaxBuffers
    /\ dims \in [Buffers -> Sizes \cup {NoSize}]
    /\ written \in Buffers \cup {NoBuffer}
    /\ released_buffers \subseteq Buffers
    /\ destroyed \subseteq Surfaces
    /\ held \subseteq Buffers
    /\ releasing \subseteq Buffers
    /\ OneStage

Init ==
    /\ shm_buffers = [s \in Surfaces |-> {}]
    /\ made = 0
    /\ dims = [b \in Buffers |-> NoSize]
    /\ written = NoBuffer
    /\ released_buffers = {}
    /\ destroyed = {}
    /\ held = {}
    /\ releasing = {}

-----------------------------------------------------------------------------
(* ShmBufferPool::acquire_or_create *)

\* Mutant: a buffer of the right size counts, released or not.
ReusableWhenOfSize(s, z) == {b \in shm_buffers[s] : dims[b] = z}

\* The released buffers that have the size of the frame.
Reusable(s, z) == {b \in shm_buffers[s] : b \in released_buffers /\ dims[b] = z}

\* Mutant: the third released buffer is kept as well.
DroppedFromFourth(s, z) ==
    {b \in shm_buffers[s] \cap released_buffers :
        dims[b] # z \/ Cardinality({c \in Reusable(s, z) : c < b}) >= 3}

\* What the retain pass drops: released buffers of another size, and all but
\* the two oldest of the right size.
Dropped(s, z) ==
    {b \in shm_buffers[s] \cap released_buffers :
        dims[b] # z \/ Cardinality({c \in Reusable(s, z) : c < b}) >= 2}

\* The first reusable buffer, or a new one when there is none; the buffer is
\* not released to begin with, so nothing dropped is chosen.
Acquired(s, z, b) ==
    \/ /\ b \in Reusable(s, z)
       /\ \A c \in Reusable(s, z) : b <= c
       /\ UNCHANGED <<made, dims>>
    \/ /\ Reusable(s, z) = {}
       /\ made < MaxBuffers
       /\ b = made + 1
       /\ made' = b
       /\ dims' = [dims EXCEPT ![b] = z]

\* The pixels are copied, the buffer is attached and committed: from here on the
\* compositor reads it.
Commit(b) ==
    /\ written' = b
    /\ held' = held \cup {b}
    /\ UNCHANGED releasing

\* Mutant: the id stays in released_buffers after the commit.
SubmitFrameKeepsReleased(s, z) ==
    /\ s \notin destroyed
    /\ \E b \in Buffers :
        /\ Acquired(s, z, b)
        /\ shm_buffers' = [shm_buffers EXCEPT ![s] = (@ \ Dropped(s, z)) \cup {b}]
        /\ released_buffers' = released_buffers \ Dropped(s, z)
        /\ Commit(b)
    /\ UNCHANGED destroyed

\* submit_frame of a pixmap of size z.
SubmitFrame(s, z) ==
    /\ s \notin destroyed
    /\ \E b \in Buffers :
        /\ Acquired(s, z, b)
        /\ shm_buffers' = [shm_buffers EXCEPT ![s] = (@ \ Dropped(s, z)) \cup {b}]
        /\ released_buffers' = released_buffers \ (Dropped(s, z) \cup {b})
        /\ Commit(b)
    /\ UNCHANGED destroyed

\* Mutant: the releases are forgotten, the buffers stay in the pool.
SubmitFailsForgetting(s, z) ==
    /\ s \notin destroyed
    /\ Reusable(s, z) = {}
    /\ released_buffers' = released_buffers \ Dropped(s, z)
    /\ written' = NoBuffer
    /\ UNCHANGED <<shm_buffers, made, dims, destroyed, compositor>>

\* No buffer can be created (memfd_create, ftruncate or mmap): the retain pass
\* has been made.
SubmitFails(s, z) ==
    /\ s \notin destroyed
    /\ Reusable(s, z) = {}
    /\ shm_buffers' = [shm_buffers EXCEPT ![s] = @ \ Dropped(s, z)]
    /\ released_buffers' = released_buffers \ Dropped(s, z)
    /\ written' = NoBuffer
    /\ UNCHANGED <<made, dims, destroyed, compositor>>

\* attach_solid_buffers, for one surface: a fresh buffer that joins no pool.
AttachSolidBuffer(s, z) ==
    /\ s \notin destroyed
    /\ made < MaxBuffers
    /\ made' = made + 1
    /\ dims' = [dims EXCEPT ![made + 1] = z]
    /\ Commit(made + 1)
    /\ UNCHANGED <<shm_buffers, released_buffers, destroyed>>

\* destroy_configured_surfaces drops the surface and with it the pool: releases
\* already dispatched stay in the set, later ones find no object, and what the
\* compositor still reads is mapped by the client no more.
DestroySurface(s) ==
    /\ s \notin destroyed
    /\ destroyed' = destroyed \cup {s}
    /\ shm_buffers' = [shm_buffers EXCEPT ![s] = {}]
    /\ releasing' = releasing \ shm_buffers[s]
    /\ held' = held \ shm_buffers[s]
    /\ written' = NoBuffer
    /\ UNCHANGED <<made, dims, released_buffers>>

-----------------------------------------------------------------------------
(* The compositor, and the dispatch of its events *)

\* The compositor is done with a buffer.
Release(b) ==
    /\ b \in held
    /\ held' = held \ {b}
    /\ releasing' = releasing \cup {b}
    /\ written' = NoBuffer
    /\ UNCHANGED <<pools, released_buffers, destroyed>>

DispatchRelease(b) ==
    /\ b \in releasing
    /\ releasing' = releasing \ {b}
    /\ released_buffers' = released_buffers \cup {b}
    /\ written' = NoBuffer
    /\ UNCHANGED <<pools, destroyed, held>>

Next ==
    \/ \E s \in Surfaces, z \in Sizes :
           SubmitFrame(s, z) \/ SubmitFails(s, z) \/ AttachSolidBuffer(s, z)
    \/ \E s \in Surfaces : DestroySurface(s)
    \/ \E b \in Buffers : Release(b) \/ DispatchRelease(b)

Spec == Init /\ [][Next]_vars

-----------------------------------------------------------------------------
(* Properties *)

\* A buffer the compositor may be reading is never written to, whatever the
\* order of commits, releases and their dispatch: no frame is torn.
HeldBuffersKeepTheirFrame == [][written' \notin held]_vars

\* Every buffer of a pool is held by the compositor, or its release is on the way,
\* or it can be reused: none stays mapped for good without being usable again.
NoBufferLost ==
    \A s \in Surfaces : shm_buffers[s] \subseteq held \cup releasing \cup released_buffers

\* After a frame at most one spare buffer is kept (the pools of the crate's README
\* are double-buffered), and it has the size of the frame: releases that pile up
\* between two frames, and resizes, do not make a pool grow.
DoubleBuffered ==
    [][\A s \in Surfaces, z \in Sizes : SubmitFrame(s, z) =>
           LET spare == shm_buffers'[s] \cap released_buffers'
           IN  Cardinality(spare) <= 1 /\ \A b \in spare : dims'[b] = z]_vars
=============================================================================
