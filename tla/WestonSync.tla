----------------------------- MODULE WestonSync -----------------------------
(***************************************************************************)
(* What libweston promises of the surfaces of a client and their           *)
(* sub-surfaces: a commit settles what a surface shows next; a commit of a *)
(* surface that does not have to wait shows it, together with what every   *)
(* sub-surface synchronised to it, at any depth, was last to show next.    *)
(* There are no caches and no half-committed states here, and no           *)
(* references either: a surface shows what it was told until it is told    *)
(* otherwise, or until the client takes the buffer away uncopied.          *)
(***************************************************************************)

CONSTANTS
    Surfaces,
    Buffers,
    Frames,     \* frame callbacks
    NULL,
    Nothing     \* not a buffer, nor the NULL that shows none: no change

VARIABLES
    alive,
    subs,       \* the surfaces that are sub-surfaces
    parent,     \* of a sub-surface; NULL once the parent is destroyed
    sync,       \* the sub-surfaces in synchronised mode
    told,       \* what each surface is told to show, before the commit
    next,       \* what it is to show next, if anything waits
    shown,      \* what it shows
    copied,     \* the surfaces that can do without the buffer they show
    wanted,     \* the callbacks that come with what it is told
    asked,      \* with what it is to show next
    due         \* with what it shows

tree_vars == <<alive, subs, parent, sync>>
show_vars == <<told, next, shown, copied>>
vars == <<tree_vars, show_vars, wanted, asked, due>>

\* s, and what it is a sub-surface of, at any level
UpTo(s) ==
    {t \in Surfaces :
        \A A \in SUBSET Surfaces :
            s \in A /\ (\A u \in A : parent[u] \in A \cup {NULL}) => t \in A}

Under(s) == {t \in Surfaces : s \in UpTo(t)}
Children(s) == {t \in subs : parent[t] = s}

\* a sub-surface waits for its parent if it, or anything above, says so
Waits(s) == \E t \in UpTo(s) : t \in sync

\* the surfaces that show what is next when s does
With(s) == {s} \cup UNION {Under(c) : c \in Children(s) \cap sync}

Init ==
    /\ alive = {} /\ subs = {} /\ sync = {}
    /\ parent = [s \in Surfaces |-> NULL]
    /\ told = [s \in Surfaces |-> Nothing]
    /\ next = told
    /\ shown = [s \in Surfaces |-> NULL] /\ copied = {}
    /\ wanted = [s \in Surfaces |-> {}] /\ asked = wanted /\ due = wanted

Tell(s, b) ==
    /\ s \in alive
    /\ told' = [told EXCEPT ![s] = b]
    /\ UNCHANGED <<tree_vars, next, shown, copied, wanted, asked, due>>

Want(s, f) ==
    /\ s \in alive
    /\ wanted' = [wanted EXCEPT ![s] = @ \cup {f}]
    /\ UNCHANGED <<tree_vars, show_vars, asked, due>>

\* the surfaces in S show what is next for them, if anything is, with the
\* callbacks in asks
Show(S, nexts, asks) ==
    LET changed == {t \in S : nexts[t] # Nothing} IN
    /\ shown' = [t \in Surfaces |-> IF t \in changed THEN nexts[t] ELSE shown[t]]
    /\ copied' = copied \ changed
    /\ next' = [t \in Surfaces |-> IF t \in S THEN Nothing ELSE nexts[t]]
    /\ due' = [t \in Surfaces |->
                   IF t \in S THEN due[t] \cup asks[t] ELSE due[t]]
    /\ asked' = [t \in Surfaces |-> IF t \in S THEN {} ELSE asks[t]]

Commit(s) ==
    /\ s \in alive
    /\ told' = [told EXCEPT ![s] = Nothing]
    /\ wanted' = [wanted EXCEPT ![s] = {}]
    /\ Show(IF Waits(s) THEN {} ELSE With(s),
            [next EXCEPT ![s] = IF told[s] = Nothing THEN @ ELSE told[s]],
            [asked EXCEPT ![s] = @ \cup wanted[s]])
    /\ UNCHANGED tree_vars

\* a sub-surface that has to wait no longer shows what it waited with, and
\* so does all that is under it
Desync(s) ==
    /\ s \in sync
    /\ sync' = sync \ {s}
    /\ UNCHANGED <<alive, subs, parent, told, wanted>>
    /\ Show(IF UpTo(s) \cap sync' # {} THEN {} ELSE Under(s), next, asked)

Sync(s) ==
    /\ s \in subs
    /\ sync' = sync \cup {s}
    /\ UNCHANGED <<alive, subs, parent, show_vars, wanted, asked, due>>

Link(s, p) ==
    /\ {s, p} \subseteq alive /\ s \notin subs
    /\ subs' = subs \cup {s} /\ sync' = sync \cup {s}
    /\ parent' = [parent EXCEPT ![s] = p]
    /\ s \notin UpTo(p)
    /\ UNCHANGED <<alive, show_vars, wanted, asked, due>>

\* what a sub-surface was to show next is forgotten with it
Unlink(s) ==
    /\ s \in subs
    /\ subs' = subs \ {s} /\ sync' = sync \ {s}
    /\ parent' = [parent EXCEPT ![s] = NULL]
    /\ next' = [next EXCEPT ![s] = Nothing]
    /\ asked' = [asked EXCEPT ![s] = {}]
    /\ UNCHANGED <<alive, told, shown, copied, wanted, due>>

Create(s) ==
    /\ s \notin alive
    /\ alive' = alive \cup {s}
    /\ UNCHANGED <<subs, parent, sync, show_vars, wanted, asked, due>>

Destroy(s) ==
    /\ s \in alive
    /\ alive' = alive \ {s}
    /\ subs' = subs \ {s} /\ sync' = sync \ {s}
    /\ parent' = [t \in Surfaces |->
                     IF t = s \/ parent[t] = s THEN NULL ELSE parent[t]]
    /\ told' = [told EXCEPT ![s] = Nothing]
    /\ next' = [next EXCEPT ![s] = Nothing]
    /\ shown' = [shown EXCEPT ![s] = NULL]
    /\ copied' = copied \ {s}
    /\ wanted' = [wanted EXCEPT ![s] = {}]
    /\ asked' = [asked EXCEPT ![s] = {}]
    /\ due' = [due EXCEPT ![s] = {}]

\* a client destroys a buffer that is shown, or is to be
BufferGone(b) ==
    LET Without(f) == [s \in Surfaces |-> IF f[s] = b THEN NULL ELSE f[s]] IN
    /\ told' = Without(told) /\ next' = Without(next)
    /\ shown' = [s \in Surfaces |-> IF shown[s] = b /\ s \notin copied
                                   THEN NULL ELSE shown[s]]
    /\ UNCHANGED <<tree_vars, copied, wanted, asked, due>>

\* callbacks are called, and what is shown may be copied
Repaint(s) ==
    /\ due' \in {due, [due EXCEPT ![s] = {}]}
    /\ copied' = copied \/ (shown[s] # NULL /\ copied' = copied \cup {s})
    /\ UNCHANGED <<tree_vars, told, next, shown, wanted, asked>>

Next ==
    \/ \E s \in Surfaces :
        \/ \E b \in Buffers \cup {NULL} : Tell(s, b)
        \/ \E f \in Frames : Want(s, f)
        \/ Repaint(s) \/ Create(s)
    \/ \E b \in Buffers : BufferGone(b)
    \/ \E s \in Surfaces :
        \/ Sync(s) \/ Desync(s) \/ Unlink(s) \/ Destroy(s) \/ Commit(s)
        \/ \E p \in Surfaces : Link(s, p)

Spec == Init /\ [][Next]_vars
=============================================================================
