--------------------------- MODULE WestonSurfaces ---------------------------
(***************************************************************************)
(* Surfaces, sub-surfaces and buffers (src/libweston/compositor.c).        *)
(*                                                                         *)
(* A request changes the pending state of a surface.  A commit applies it, *)
(* or, for a sub-surface that is effectively synchronised, adds it to a    *)
(* cache that the commit of a surface above applies.  The cache, the       *)
(* surface and the renderer can thus hold a buffer of the client, which    *)
(* counts those it may not write to by the releases it is sent.  A repaint *)
(* lets the renderer copy what it can and the surface drop its reference,  *)
(* so that a buffer may be released while its contents are on the screen.  *)
(*                                                                         *)
(* A request is handled to its end before the next one.  One that makes    *)
(* sub-surfaces wait no longer walks the tree and commits one cache after  *)
(* the other: each of them is a step, and flushing holds those to come.    *)
(***************************************************************************)
EXTENDS Naturals, FiniteSets

CONSTANTS
    Surfaces,
    Buffers,    \* wl_buffers of the client
    Copied,     \* those the renderer copies: wl_shm buffers, if it uses GL
    Frames,     \* wl_callbacks of the client, each used once
    Users,      \* bound: the surfaces buffers and callbacks are used with
    NULL,
    Nothing     \* no attach since the last commit

ASSUME FiniteAssumption == IsFiniteSet(Surfaces)
ASSUME NullAssumption == NULL \notin Surfaces \cup Buffers
ASSUME NothingAssumption == Nothing \notin Buffers \cup {NULL}
ASSUME UsersAssumption == Users \subseteq Surfaces
ASSUME CopiedAssumption == Copied \subseteq Buffers

VARIABLES
    alive,      \* the weston_surfaces
    subs,       \* those with a weston_subsurface
    parent,     \* weston_subsurface::parent
    synchronized,
    pending,    \* weston_surface::pending
    cached,     \* weston_subsurface::cached
    held,       \* weston_subsurface::cached_buffer_ref
    buffer,     \* weston_surface::buffer_ref
    drawn,      \* buffer_ref of the renderer's surface state
    copy,       \* the buffer whose contents the renderer has copied
    frames,     \* weston_surface::frame_callback_list
    busy_count, \* of the weston_buffer
    lent,       \* the buffers committed since their last release
    flushing    \* the caches that the walk in progress has still to commit

tree_vars == <<alive, subs, parent, synchronized>>
use_vars == <<held, buffer, drawn, copy, busy_count, lent>>
vars == <<tree_vars, pending, cached, use_vars, frames, flushing>>

Empty == [newly |-> FALSE, buffer |-> NULL, frames |-> {}]
EmptyCache == [has |-> FALSE, newly |-> FALSE, buffer |-> NULL, frames |-> {}]

Init ==
    /\ alive = {} /\ subs = {} /\ synchronized = {}
    /\ parent = [s \in Surfaces |-> NULL]
    /\ pending = [s \in Surfaces |-> Empty]
    /\ cached = [s \in Surfaces |-> EmptyCache]
    /\ held = [s \in Surfaces |-> NULL]
    /\ buffer = [s \in Surfaces |-> NULL]
    /\ drawn = buffer /\ copy = buffer
    /\ frames = [s \in Surfaces |-> {}]
    /\ busy_count = [b \in Buffers |-> 0]
    /\ lent = {} /\ flushing = {}

-----------------------------------------------------------------------------
(* The tree of sub-surfaces.                                               *)

\* sets that hold the parent of all they hold
ParentClosed(A) == \A t \in A : parent[t] \in A \cup {NULL}

\* s and the surfaces above it: the least such set with s in it
UpTo(s) ==
    {t \in Surfaces :
        \A A \in SUBSET Surfaces : s \in A /\ ParentClosed(A) => t \in A}

Under(s) == {t \in Surfaces : s \in UpTo(t)}
Children(s) == {t \in subs : parent[t] = s}

\* weston_subsurface_is_synchronized
IsSynchronized(s, flags) == UpTo(s) \cap flags # {}

\* what the commit of s commits from caches: of each synchronised child the
\* whole tree, whatever the modes in it
Dependents(s) == UNION {Under(c) : c \in Children(s) \cap synchronized}

-----------------------------------------------------------------------------
(* Buffer references.  What a commit does to them, one after the other, is *)
(* worked out on a record use of the variables they change.                *)

Use == [held |-> held, buffer |-> buffer, drawn |-> drawn, copy |-> copy,
        frames |-> frames, cached |-> cached, pending |-> pending,
        busy |-> busy_count, lent |-> lent]

Uses(use) ==
    /\ held' = use.held /\ buffer' = use.buffer /\ drawn' = use.drawn
    /\ copy' = use.copy /\ frames' = use.frames
    /\ cached' = use.cached /\ pending' = use.pending
    /\ busy_count' = use.busy /\ lent' = use.lent

\* weston_buffer_reference drops old: the last reference sends a release
Unreferenced(use, old) ==
    IF old = NULL THEN use
    ELSE LET n == use.busy[old] - 1 IN
         [use EXCEPT !.busy[old] = n,
                     !.lent = IF n = 0 THEN @ \ {old} ELSE @]

Referenced(use, new) ==
    IF new = NULL THEN use ELSE [use EXCEPT !.busy[new] = @ + 1]

\* weston_buffer_reference from old to new; it drops before it takes
Rereferenced(use, old, new) ==
    IF old = new THEN use ELSE Referenced(Unreferenced(use, old), new)

\* weston_buffer_reference of the cache, of the surface and of the renderer
Held(use, s, b) == [Rereferenced(use, use.held[s], b) EXCEPT !.held[s] = b]
Based(use, s, b) == [Rereferenced(use, use.buffer[s], b) EXCEPT !.buffer[s] = b]
Drawn(use, s, b) == [Rereferenced(use, use.drawn[s], b) EXCEPT !.drawn[s] = b]

\* weston_surface_attach
Attached(use, s, b) ==
    [Drawn(Based(use, s, b), s, b) EXCEPT !.copy[s] = NULL]

\* weston_surface_commit_state
StateCommitted(use, s, state) ==
    LET attached == IF state.newly THEN Attached(use, s, state.buffer) ELSE use
    IN  [attached EXCEPT !.frames[s] = @ \cup state.frames]

\* what a client commits is the compositor's until it is released
Lent(use, s) == [use EXCEPT !.lent = (@ \cup {use.pending[s].buffer}) \ {NULL}]

\* weston_surface_commit
Committed(use, s) ==
    [StateCommitted(Lent(use, s), s, use.pending[s]) EXCEPT !.pending[s] = Empty]

\* Mutant: the cache lets go of its buffer before the surface has it.
CommittedLetGo(use, s) ==
    LET state == use.cached[s]
        let_go == Held(use, s, NULL)
    IN  [StateCommitted(let_go, s, state) EXCEPT !.cached[s] = EmptyCache]

\* weston_subsurface_commit_from_cache
CommittedFromCache(use, s) ==
    LET committed == StateCommitted(use, s, use.cached[s])
    IN  [Held(committed, s, NULL) EXCEPT !.cached[s] = EmptyCache]

\* weston_subsurface_commit_to_cache
CommittedToCache(use, s) ==
    LET state == use.pending[s]
        b == IF state.newly THEN state.buffer ELSE use.cached[s].buffer
        holding == IF state.newly THEN Held(Lent(use, s), s, b) ELSE use
    IN  [holding EXCEPT
            !.pending[s] = Empty,
            !.cached[s] = [has |-> TRUE, newly |-> @.newly \/ state.newly,
                           buffer |-> b, frames |-> @.frames \cup state.frames]]

\* the caches among those of S that there is something in, to be committed
\* one after the other
Flushes(S) == flushing' = {t \in S : cached[t].has}

\* weston_surface_state_fini and the last references, when s goes
Finished(use, s) ==
    [Attached(Held(use, s, NULL), s, NULL) EXCEPT
        !.pending[s] = Empty, !.cached[s] = EmptyCache, !.frames[s] = {}]

-----------------------------------------------------------------------------
(* The requests of a client.                                               *)

Create(s) ==
    /\ s \notin alive
    /\ alive' = alive \cup {s}
    /\ UNCHANGED <<subs, parent, synchronized, pending, cached, use_vars,
                   frames, flushing>>

Attach(s, b) ==
    /\ s \in alive \cap Users
    /\ pending' = [pending EXCEPT ![s].newly = TRUE, ![s].buffer = b]
    /\ UNCHANGED <<tree_vars, cached, use_vars, frames, flushing>>

\* where callbacks are that have not been called
Waiting == UNION {pending[s].frames \cup cached[s].frames \cup frames[s] :
                     s \in Surfaces}

Frame(s, f) ==
    /\ s \in alive \cap Users /\ f \notin Waiting
    /\ pending' = [pending EXCEPT ![s].frames = @ \cup {f}]
    /\ UNCHANGED <<tree_vars, cached, use_vars, frames, flushing>>

\* Mutant: what was cached before a sub-surface stopped waiting stays there.
CommitNow(s) ==
    /\ s \in alive
    /\ IF s \in subs /\ IsSynchronized(s, synchronized)
       THEN Uses(CommittedToCache(Use, s)) /\ Flushes({})
       ELSE Uses(Committed(Use, s)) /\ Flushes(Dependents(s))
    /\ UNCHANGED tree_vars

\* surface_commit
Commit(s) ==
    /\ s \in alive
    /\ \/ /\ s \in subs /\ IsSynchronized(s, synchronized)
          /\ Uses(CommittedToCache(Use, s))
          /\ Flushes({})
       \/ /\ ~(s \in subs /\ IsSynchronized(s, synchronized))
          /\ Uses(IF cached[s].has
                  THEN CommittedFromCache(CommittedToCache(Use, s), s)
                  ELSE Committed(Use, s))
          /\ Flushes(Dependents(s))
    /\ UNCHANGED tree_vars

\* Mutant: only the sub-surface itself is flushed.
DesyncOnly(s) ==
    /\ s \in subs \cap synchronized
    /\ synchronized' = synchronized \ {s}
    /\ Flushes(IF IsSynchronized(s, synchronized') THEN {} ELSE {s})
    /\ UNCHANGED <<alive, subs, parent, pending, cached, use_vars, frames>>

\* subsurface_set_desync
Desync(s) ==
    /\ s \in subs \cap synchronized
    /\ synchronized' = synchronized \ {s}
    /\ Flushes(IF IsSynchronized(s, synchronized') THEN {} ELSE Under(s))
    /\ UNCHANGED <<alive, subs, parent, pending, cached, use_vars, frames>>

\* weston_subsurface_synchronized_commit, of one of the surfaces it visits
Flush(s) ==
    /\ s \in flushing
    /\ Uses(CommittedFromCache(Use, s))
    /\ flushing' = flushing \ {s}
    /\ UNCHANGED tree_vars

\* subsurface_set_sync
Sync(s) ==
    /\ s \in subs
    /\ synchronized' = synchronized \cup {s}
    /\ UNCHANGED <<alive, subs, parent, pending, cached, use_vars, frames,
                   flushing>>

\* Mutant: only the direct parent is looked at for a circle.
GetSubsurfaceNear(s, p) ==
    /\ {s, p} \subseteq alive /\ s \notin subs
    /\ s # p /\ parent[p] # s
    /\ subs' = subs \cup {s}
    /\ synchronized' = synchronized \cup {s}
    /\ parent' = [parent EXCEPT ![s] = p]
    /\ UNCHANGED <<alive, pending, cached, use_vars, frames, flushing>>

\* subcompositor_get_subsurface; the surface at the top of p is not s
GetSubsurface(s, p) ==
    /\ {s, p} \subseteq alive /\ s \notin subs
    /\ s \notin UpTo(p)
    /\ subs' = subs \cup {s}
    /\ synchronized' = synchronized \cup {s}
    /\ parent' = [parent EXCEPT ![s] = p]
    /\ UNCHANGED <<alive, pending, cached, use_vars, frames, flushing>>

\* weston_subsurface_destroy: the cache and all it holds are dropped
SubsurfaceDestroyed(s) ==
    /\ s \in subs
    /\ subs' = subs \ {s} /\ synchronized' = synchronized \ {s}
    /\ parent' = [parent EXCEPT ![s] = NULL]
    /\ Uses([Held(Use, s, NULL) EXCEPT !.cached[s] = EmptyCache])
    /\ UNCHANGED <<alive, flushing>>

\* weston_surface_destroy; its sub-surfaces lose their parent
Destroyed(s) ==
    /\ s \in alive
    /\ alive' = alive \ {s}
    /\ subs' = subs \ {s} /\ synchronized' = synchronized \ {s}
    /\ parent' = [t \in Surfaces |->
                     IF t = s \/ parent[t] = s THEN NULL ELSE parent[t]]
    /\ Uses(Finished(Use, s))
    /\ UNCHANGED flushing

\* Mutant: the cache does not notice.
BufferDestroyedPending(b) ==
    LET Without(f) == [s \in Surfaces |-> IF f[s] = b THEN NULL ELSE f[s]] IN
    /\ pending' = [s \in Surfaces |-> IF pending[s].buffer = b
                     THEN [pending[s] EXCEPT !.buffer = NULL] ELSE pending[s]]
    /\ held' = Without(held) /\ buffer' = Without(buffer)
    /\ drawn' = Without(drawn)
    /\ busy_count' = [busy_count EXCEPT ![b] = 0]
    /\ lent' = lent \ {b}
    /\ UNCHANGED <<tree_vars, cached, copy, frames, flushing>>

\* weston_buffer_destroy_handler: all that points to the buffer is cleared;
\* the client may make another one at the same address
BufferDestroyed(b) ==
    LET Without(f) == [s \in Surfaces |-> IF f[s] = b THEN NULL ELSE f[s]]
        Cleared(f) == [s \in Surfaces |-> IF f[s].buffer = b
                          THEN [f[s] EXCEPT !.buffer = NULL] ELSE f[s]]
    IN
    /\ pending' = Cleared(pending) /\ cached' = Cleared(cached)
    /\ held' = Without(held) /\ buffer' = Without(buffer)
    /\ drawn' = Without(drawn)
    /\ busy_count' = [busy_count EXCEPT ![b] = 0]
    /\ lent' = lent \ {b}
    /\ UNCHANGED <<tree_vars, copy, frames, flushing>>

-----------------------------------------------------------------------------
(* Repainting.                                                             *)

\* Mutant: the renderer lets go of a buffer it takes for copied already.
FlushedUncopied(use, s) ==
    IF use.buffer[s] \in Copied THEN Drawn(use, s, NULL) ELSE use

\* surface_flush_damage of a surface with a view on the primary plane
Flushed(use, s) ==
    IF use.buffer[s] \in Copied /\ use.drawn[s] # NULL
    THEN [Drawn(use, s, NULL) EXCEPT !.copy[s] = use.drawn[s]]
    ELSE use

\* Mutant: the surface drops its reference before the renderer has seen it.
PaintedFirst(use, s, composited, keep) ==
    LET dropped == IF keep THEN use ELSE Based(use, s, NULL)
    IN  IF composited THEN Flushed(dropped, s) ELSE dropped

\* output_accumulate_damage, of one surface
Painted(use, s, composited, keep) ==
    LET flushed == IF composited THEN Flushed(use, s) ELSE use
    IN  IF keep THEN flushed ELSE Based(flushed, s, NULL)

\* weston_output_repaint, of one of the surfaces it visits.  It calls the
\* callbacks on the output the surface is on most.  Only a surface that can be
\* on a plane is not composited, and the surface keeps the buffer of such a one.
Repaint(s) ==
    /\ frames[s] # {} \/ buffer[s] # NULL
    /\ \E composited, keep \in BOOLEAN, left \in {{}, frames[s]} :
        /\ composited \/ keep \/ buffer[s] \notin Copied
        /\ Uses(Painted([Use EXCEPT !.frames[s] = left], s, composited, keep))
    /\ UNCHANGED <<tree_vars, flushing>>

Request ==
    \/ \E s \in Surfaces :
        \/ Create(s) \/ Commit(s) \/ Desync(s) \/ Sync(s)
        \/ SubsurfaceDestroyed(s) \/ Destroyed(s) \/ Repaint(s)
        \/ \E b \in Buffers \cup {NULL} : Attach(s, b)
        \/ \E f \in Frames : Frame(s, f)
        \/ \E p \in Surfaces : GetSubsurface(s, p)
    \/ \E b \in Buffers : BufferDestroyed(b)

Next == (flushing = {} /\ Request) \/ \E s \in Surfaces : Flush(s)

Spec == Init /\ [][Next]_vars

-----------------------------------------------------------------------------
(* What must hold.                                                         *)

\* Every variable holds values of its type.
SurfacesTypeOK ==
    /\ subs \subseteq alive /\ alive \subseteq Surfaces
    /\ synchronized \subseteq subs
    /\ parent \in [Surfaces -> alive \cup {NULL}]
    /\ pending \in [Surfaces -> [newly : BOOLEAN, buffer : Buffers \cup {NULL},
                                 frames : SUBSET Frames]]
    /\ cached \in [Surfaces -> [has : BOOLEAN, newly : BOOLEAN,
                                buffer : Buffers \cup {NULL},
                                frames : SUBSET Frames]]
    /\ held \in [Surfaces -> Buffers \cup {NULL}]
    /\ buffer \in [Surfaces -> Buffers \cup {NULL}]
    /\ drawn \in [Surfaces -> Buffers \cup {NULL}]
    /\ copy \in [Surfaces -> Buffers \cup {NULL}]
    /\ frames \in [Surfaces -> SUBSET Frames]
    /\ busy_count \in [Buffers -> 0..3 * Cardinality(Surfaces)]
    /\ lent \subseteq Buffers
    /\ flushing \subseteq subs

\* A buffer is the compositor's from its commit to its release, and is
\* released exactly when no cache, no surface and no renderer has a use for it;
\* what the renderer has still to copy is still the surface's, so that the
\* next repaint copies it: it is neither written to while it is read, nor
\* lost to the client, nor off the screen for good.
LentIsUsed ==
    /\ lent = {b \in Buffers :
                  \E s \in Surfaces : b \in {held[s], buffer[s], drawn[s]}}
    /\ \A s \in Surfaces : drawn[s] \in Copied => buffer[s] = drawn[s]

\* A cache never points to a buffer it does not keep busy: what a commit will
\* show later has neither been released nor destroyed.
CacheIsHeld == \A s \in Surfaces : cached[s].buffer = held[s]

\* No surface is above itself, so that every walk up or down the tree ends.
NoCircle == \A s \in subs : parent[s] = NULL \/ s \notin UpTo(parent[s])

\* The surfaces are trees, and what they hold is alive and counted.
SurfacesOK == SurfacesTypeOK /\ NoCircle

-----------------------------------------------------------------------------
(* The caches implement what WestonSync promises: a commit takes effect at *)
(* once for all that waits for it.                                         *)

\* what the renderer would draw
Shown(s) == IF drawn[s] # NULL THEN drawn[s] ELSE copy[s]

\* the walk in progress has still to show what is cached
Flushing(s) == s \in flushing /\ cached[s].newly

Promise == INSTANCE WestonSync WITH
    sync <- synchronized,
    told <- [s \in Surfaces |->
                IF pending[s].newly THEN pending[s].buffer ELSE Nothing],
    next <- [s \in Surfaces |->
                IF cached[s].newly /\ s \notin flushing
                THEN cached[s].buffer ELSE Nothing],
    shown <- [s \in Surfaces |->
                IF Flushing(s) THEN cached[s].buffer ELSE Shown(s)],
    copied <- {s \in Surfaces :
                ~Flushing(s) /\ drawn[s] = NULL /\ copy[s] # NULL},
    wanted <- [s \in Surfaces |-> pending[s].frames],
    asked <- [s \in Surfaces |->
                IF s \in flushing THEN {} ELSE cached[s].frames],
    due <- [s \in Surfaces |->
                frames[s] \cup (IF s \in flushing THEN cached[s].frames ELSE {})]

\* What a surface shows is what it was last told to, from the commit on that
\* the modes of the surfaces above make it wait for, and together with all
\* that waits for the same; callbacks follow what they came with.  It shows
\* it until it is told otherwise, whoever lets go of the buffer; only a
\* buffer destroyed before it was copied takes it away.
KeepsPromise == Promise!Spec
=============================================================================
