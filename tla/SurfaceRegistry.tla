-------------------------- MODULE SurfaceRegistry --------------------------
(***************************************************************************)
(* The surfaces of the Wayland layer (wyrd-wayland: wayland/surface.rs,    *)
(* and select_backend of wayland/backend.rs): which shell a surface is     *)
(* given to, the handles that name it, and the size it asks of the         *)
(* compositor.  Configured surfaces are destroyed by name, dynamic ones    *)
(* stay and are resized by name.                                           *)
(*                                                                         *)
(* A size stands for width and height, 0 for "as the compositor likes".    *)
(***************************************************************************)
EXTENDS Integers, Sequences, FiniteSets

CONSTANTS
    Names,        \* names of surfaces
    Sizes,        \* natural numbers
    Forced,       \* values of WYRD_FORCE_BACKEND, and "auto"
    Overrides,    \* backends asked for one surface, and "none"
    MaxCreated,   \* bound on the surfaces
    None

VARIABLES
    protocol,             \* the shells the compositor has: of "layer" and "xdg"
    forced,
    active_backend,       \* select_backend, or None before connect and when it failed
    surfaces,             \* [id, name, dynamic, backend, size]
    created,              \* surfaces created
    handles,              \* history: id -> [place, dynamic]: the handle given for it
    moved,                \* history: ids whose handle a destroyed surface has put off
    asked,                \* id -> size asked of the compositor: [pending, committed]
    layer_surface_sizes   \* ids the compositor sent a configure for

vars == <<protocol, forced, active_backend, surfaces, created, handles, moved, asked,
          layer_surface_sizes>>

Kinds == {"layer", "xdg", "nothing"}
Ids == 1 .. MaxCreated
SurfaceIds == {surfaces[i].id : i \in DOMAIN surfaces}

TypeOK ==
    /\ protocol \subseteq {"layer", "xdg"} /\ forced \in Forced
    /\ active_backend \in Kinds \cup {None}
    /\ surfaces \in Seq([id : Ids, name : Names, dynamic : BOOLEAN, backend : Kinds, size : Nat])
    /\ created \in 0 .. MaxCreated
    /\ DOMAIN handles = 1 .. created /\ moved \subseteq 1 .. created
    /\ asked \in [1 .. created -> [pending : Nat \cup {None}, committed : Nat \cup {None}]]
    /\ layer_surface_sizes \subseteq Ids

Init ==
    /\ protocol \in SUBSET {"layer", "xdg"} /\ forced \in Forced
    /\ active_backend = None
    /\ surfaces = <<>> /\ created = 0 /\ handles = <<>> /\ moved = {}
    /\ asked = <<>> /\ layer_surface_sizes = {}

-----------------------------------------------------------------------------
\* select_backend; connect fails with it.
Selected(mode) ==
    IF mode = "auto" THEN IF "layer" \in protocol THEN "layer"
                          ELSE IF "xdg" \in protocol THEN "xdg" ELSE None
    ELSE IF mode \in protocol THEN mode ELSE None

Connect ==
    /\ active_backend = None /\ Selected(forced) # None
    /\ active_backend' = Selected(forced)
    /\ UNCHANGED <<protocol, forced, surfaces, created, handles, moved, asked, layer_surface_sizes>>

\* The backend of a new surface: an override the compositor cannot serve falls back, the
\* layer shell to the xdg shell, the xdg shell to none, and ext-layer-shell to the active one.
Chosen(override) ==
    CASE override = "layer" -> IF "layer" \in protocol THEN "layer"
                               ELSE IF "xdg" \in protocol THEN "xdg" ELSE "nothing"
      [] override = "xdg"   -> IF "xdg" \in protocol THEN "xdg" ELSE "nothing"
      [] OTHER              -> active_backend

\* What configure asks of the compositor, and commits; a toplevel is not told of no size.
Configured(backend, size, before) ==
    IF backend = "nothing" \/ (backend = "xdg" /\ size = 0) THEN [before EXCEPT !.committed = before.pending]
    ELSE [pending |-> size, committed |-> size]

Create(name, dynamic, size, override) ==
    /\ active_backend # None /\ created < MaxCreated
    /\ LET id == created + 1
           surface == [id |-> id, name |-> name, dynamic |-> dynamic,
                       backend |-> Chosen(override), size |-> size]
       IN
       /\ created' = id
       /\ surfaces' = Append(surfaces, surface)
       /\ handles' = Append(handles, [place |-> Len(surfaces) + 1, dynamic |-> dynamic])
       /\ asked' = Append(asked, Configured(surface.backend, size, [pending |-> None, committed |-> None]))
    /\ UNCHANGED <<protocol, forced, active_backend, moved, layer_surface_sizes>>

\* LayerShellSurface::configure, by its owner.
Configure(i, size) ==
    /\ surfaces' = [surfaces EXCEPT ![i].size = size]
    /\ asked' = [asked EXCEPT ![surfaces[i].id] = Configured(surfaces[i].backend, size, @)]
    /\ UNCHANGED <<protocol, forced, active_backend, created, handles, moved, layer_surface_sizes>>

AtLeastOne(size) == IF size < 1 THEN 1 ELSE size

\* LayerShellSurface::resize: the new size waits for the next commit.
Resized(i, size) == surfaces' = [surfaces EXCEPT ![i].size = AtLeastOne(size)]

Asking(i, size) ==
    IF surfaces[i].backend = "nothing" THEN asked[surfaces[i].id]
    ELSE [asked[surfaces[i].id] EXCEPT !.pending = AtLeastOne(size)]

Resize(i, size) ==
    /\ Resized(i, size)
    /\ asked' = [asked EXCEPT ![surfaces[i].id] = Asking(i, size)]
    /\ UNCHANGED <<protocol, forced, active_backend, created, handles, moved, layer_surface_sizes>>

\* A frame is submitted.
Commit(i) ==
    /\ asked' = [asked EXCEPT ![surfaces[i].id].committed = asked[surfaces[i].id].pending]
    /\ UNCHANGED <<protocol, forced, active_backend, surfaces, created, handles, moved,
                   layer_surface_sizes>>

DynamicNamed(name) == {i \in DOMAIN surfaces : surfaces[i].dynamic /\ surfaces[i].name = name}

\* update_surface_size: the first dynamic surface of the name, committed.
UpdateSurfaceSize(name, size) ==
    /\ DynamicNamed(name) # {}
    /\ LET i == CHOOSE j \in DynamicNamed(name) : \A k \in DynamicNamed(name) : j <= k IN
       /\ Resized(i, size)
       /\ asked' = [asked EXCEPT ![surfaces[i].id] =
              LET next == Asking(i, size) IN [next EXCEPT !.committed = next.pending]]
    /\ UNCHANGED <<protocol, forced, active_backend, created, handles, moved, layer_surface_sizes>>

KeptByName(surface, name) == surface.name # name

\* What destroy_configured_surfaces keeps.
Kept(surface, name) == surface.dynamic \/ surface.name # name

\* retain: the places of what is kept, in their order.
KeptPlaces(kept) ==
    {place \in [1 .. Cardinality(kept) -> kept] :
        /\ \A m, n \in DOMAIN place : m < n => place[m] < place[n]
        /\ \A k \in kept : \E n \in DOMAIN place : place[n] = k}

DestroyConfiguredSurfaces(name) ==
    /\ \E place \in KeptPlaces({i \in DOMAIN surfaces : Kept(surfaces[i], name)}) :
           surfaces' = [n \in DOMAIN place |-> surfaces[place[n]]]
    /\ moved' = moved \cup {surfaces[j].id : j \in {k \in DOMAIN surfaces :
                  \E i \in 1 .. k : ~Kept(surfaces[i], name)}}
    /\ surfaces' # surfaces
    /\ UNCHANGED <<protocol, forced, active_backend, created, handles, asked, layer_surface_sizes>>

\* The compositor configures a surface: its size is kept for the host, and stays when the
\* surface is destroyed.
ConfigureEvent(i) ==
    /\ surfaces[i].backend # "nothing"
    /\ layer_surface_sizes' = layer_surface_sizes \cup {surfaces[i].id}
    /\ UNCHANGED <<protocol, forced, active_backend, surfaces, created, handles, moved, asked>>

-----------------------------------------------------------------------------
Next ==
    \/ Connect
    \/ \E name \in Names, dynamic \in BOOLEAN, size \in Sizes, override \in Overrides :
           Create(name, dynamic, size, override)
    \/ \E i \in DOMAIN surfaces : Commit(i) \/ ConfigureEvent(i)
    \/ \E i \in DOMAIN surfaces, size \in Sizes : Configure(i, size) \/ Resize(i, size)
    \/ \E name \in Names, size \in Sizes : UpdateSurfaceSize(name, size)
    \/ \E name \in Names : DestroyConfiguredSurfaces(name)

Spec == Init /\ [][Next]_vars

-----------------------------------------------------------------------------
\* No surface is given to a shell that the compositor has not, and a backend that was
\* forced is the active one or there is none.
BackendsAreBound ==
    /\ \A i \in DOMAIN surfaces : surfaces[i].backend \in protocol \cup {"nothing"}
    /\ active_backend # None /\ forced # "auto" => active_backend = forced

\* A handle names the surface it was given for until a configured surface before it goes.
HandlesHold ==
    \A i \in DOMAIN surfaces :
        surfaces[i].id \notin moved => handles[surfaces[i].id].place = i

\* The compositor was asked for the size a surface draws itself at, if it was given one.
SizesAreAsked ==
    \A i \in DOMAIN surfaces :
        surfaces[i].backend # "nothing" /\ surfaces[i].size # 0
            => asked[surfaces[i].id].pending = surfaces[i].size

\* Dynamic surfaces are never destroyed by name: every one created is there.
DynamicSurfacesStay == \A id \in 1 .. created : handles[id].dynamic => id \in SurfaceIds

RegistryIsSound == BackendsAreBound /\ HandlesHold /\ SizesAreAsked /\ DynamicSurfacesStay
=============================================================================
