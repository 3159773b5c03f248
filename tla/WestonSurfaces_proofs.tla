------------------------- MODULE WestonSurfaces_proofs -------------------------
(***************************************************************************)
(* Proofs about WestonSurfaces, for any number of surfaces, buffers and    *)
(* callbacks: the surfaces are trees, a buffer is the compositor's exactly *)
(* as long as a cache, a surface or the renderer has a use for it, what a  *)
(* cache points to is busy, and the caches and the early release of        *)
(* buffers implement WestonSync.                                           *)
(***************************************************************************)
EXTENDS WestonSurfaces, FiniteSetTheorems, TLAPS

-----------------------------------------------------------------------------
(* The tree.                                                               *)

\* What is above a surface: itself, the parents of all that is, and no more
\* than any set that holds these.
LEMMA UpToLeast ==
    ASSUME NEW s \in Surfaces, parent \in [Surfaces -> Surfaces \cup {NULL}]
    PROVE  /\ UpTo(s) \subseteq Surfaces /\ s \in UpTo(s)
           /\ \A t \in UpTo(s) : parent[t] # NULL => parent[t] \in UpTo(s)
           /\ \A A \in SUBSET Surfaces :
                s \in A /\ ParentClosed(A) => UpTo(s) \subseteq A
<1>1. UpTo(s) \subseteq Surfaces /\ s \in UpTo(s)
  BY DEF UpTo
<1>2. ASSUME NEW A \in SUBSET Surfaces, s \in A, ParentClosed(A)
      PROVE  UpTo(s) \subseteq A
  BY <1>2 DEF UpTo
<1>3. ASSUME NEW t \in UpTo(s), parent[t] # NULL
      PROVE  parent[t] \in UpTo(s)
  <2>1. t \in Surfaces /\ parent[t] \in Surfaces
    BY <1>1, <1>3
  <2> SUFFICES ASSUME NEW A \in SUBSET Surfaces, s \in A, ParentClosed(A)
               PROVE  parent[t] \in A
    BY <2>1 DEF UpTo
  <2>2. t \in A
    BY <1>2, <1>3
  <2> QED BY <1>3, <2>2 DEF ParentClosed
<1> QED BY <1>1, <1>2, <1>3

\* What is above something above s is above s.
LEMMA UpToUp ==
    ASSUME NEW s \in Surfaces, parent \in [Surfaces -> Surfaces \cup {NULL}],
           NEW t \in UpTo(s)
    PROVE  UpTo(t) \subseteq UpTo(s)
<1>1. t \in Surfaces /\ UpTo(s) \in SUBSET Surfaces
  BY UpToLeast
<1>2. ParentClosed(UpTo(s))
  BY UpToLeast DEF ParentClosed
<1> QED BY <1>1, <1>2, UpToLeast

\* A surface without a parent is at the top.
LEMMA UpToTop ==
    ASSUME NEW s \in Surfaces, parent \in [Surfaces -> Surfaces \cup {NULL}],
           parent[s] = NULL
    PROVE  UpTo(s) = {s}
<1>1. ParentClosed({s})
  BY DEF ParentClosed
<1> QED BY <1>1, UpToLeast

\* The walk up from the parent.
LEMMA UpToParent ==
    ASSUME NEW s \in Surfaces, parent \in [Surfaces -> Surfaces \cup {NULL}],
           parent[s] # NULL
    PROVE  UpTo(s) = {s} \cup UpTo(parent[s])
<1> DEFINE A == {s} \cup UpTo(parent[s])
<1>1. parent[s] \in Surfaces
  OBVIOUS
<1>2. UpTo(parent[s]) \subseteq UpTo(s) /\ s \in UpTo(s)
  BY UpToLeast, UpToUp
<1>3. /\ UpTo(parent[s]) \subseteq Surfaces /\ parent[s] \in UpTo(parent[s])
      /\ \A t \in UpTo(parent[s]) :
            parent[t] # NULL => parent[t] \in UpTo(parent[s])
  BY <1>1, UpToLeast
<1>4. ParentClosed(A) /\ A \in SUBSET Surfaces /\ s \in A
  BY <1>3 DEF ParentClosed
<1>5. UpTo(s) \subseteq A
  BY <1>4, UpToLeast
<1> QED BY <1>2, <1>5

\* Taking links away leaves nothing more above a surface than there was.
LEMMA UpToFewer ==
    ASSUME NEW s \in Surfaces, parent \in [Surfaces -> Surfaces \cup {NULL}],
           parent' \in [Surfaces -> Surfaces \cup {NULL}],
           \A t \in UpTo(s) : parent'[t] \in {parent[t], NULL}
    PROVE  UpTo(s)' \subseteq UpTo(s)
<1>1. /\ UpTo(s) \in SUBSET Surfaces /\ s \in UpTo(s)
      /\ \A t \in UpTo(s) : parent[t] # NULL => parent[t] \in UpTo(s)
  BY UpToLeast
<1>2. ParentClosed(UpTo(s))
  BY <1>1 DEF ParentClosed
<1>3. \A t \in UpTo(s) : parent'[t] \in UpTo(s) \cup {NULL}
  BY <1>1
<1> QED BY <1>1, <1>3 DEF UpTo, ParentClosed

-----------------------------------------------------------------------------
(* How many of the surfaces a function takes to a buffer.                  *)

Count(f, b) == Cardinality({s \in Surfaces : f[s] = b})

\* There are no more references of a kind than surfaces.
LEMMA CountType ==
    ASSUME NEW f, NEW b
    PROVE  Count(f, b) \in 0..Cardinality(Surfaces)
<1>1. /\ Cardinality({s \in Surfaces : f[s] = b}) <= Cardinality(Surfaces)
      /\ IsFiniteSet({s \in Surfaces : f[s] = b})
  BY FS_Subset, FiniteAssumption
<1> QED BY <1>1, FS_CardinalityType, FiniteAssumption DEF Count

\* One surface less to the old value, one more to the new one.
OneOther(f, s, v, b) ==
    Count([f EXCEPT ![s] = v], b) =
        Count(f, b) + (IF v = b THEN 1 ELSE 0) - (IF f[s] = b THEN 1 ELSE 0)

LEMMA CountExcept ==
    ASSUME NEW f \in [Surfaces -> Buffers \cup {NULL}], NEW s \in Surfaces,
           NEW v, NEW b
    PROVE  OneOther(f, s, v, b)
<1> DEFINE g == [f EXCEPT ![s] = v]
           Old == {t \in Surfaces : f[t] = b}
           New == {t \in Surfaces : g[t] = b}
<1>1. IsFiniteSet(Old) /\ IsFiniteSet(New)
  BY FS_Subset, FiniteAssumption
<1>2. Cardinality(Old) \in Nat
  BY <1>1, FS_CardinalityType
<1>3. CASE v = b
  <2>1. New = Old \cup {s}
    BY <1>3
  <2>2. Cardinality(New) =
          IF s \in Old THEN Cardinality(Old) ELSE Cardinality(Old) + 1
    BY <1>1, <2>1, FS_AddElement
  <2> QED BY <1>2, <1>3, <2>2 DEF Count, OneOther
<1>4. CASE v # b
  <2>1. New = Old \ {s}
    BY <1>4
  <2>2. Cardinality(New) =
          IF s \in Old THEN Cardinality(Old) - 1 ELSE Cardinality(Old)
    BY <1>1, <2>1, FS_RemoveElement
  <2> QED BY <1>2, <1>4, <2>2 DEF Count, OneOther
<1> QED BY <1>3, <1>4

-----------------------------------------------------------------------------
(* The record that a commit works on.                                      *)

StateType == [newly : BOOLEAN, buffer : Buffers \cup {NULL},
              frames : SUBSET Frames]
CacheType == [has : BOOLEAN, newly : BOOLEAN, buffer : Buffers \cup {NULL},
              frames : SUBSET Frames]
UseType == [held : [Surfaces -> Buffers \cup {NULL}],
            buffer : [Surfaces -> Buffers \cup {NULL}],
            drawn : [Surfaces -> Buffers \cup {NULL}],
            copy : [Surfaces -> Buffers \cup {NULL}],
            frames : [Surfaces -> SUBSET Frames],
            cached : [Surfaces -> CacheType],
            pending : [Surfaces -> StateType],
            busy : [Buffers -> Nat],
            lent : SUBSET Buffers]

\* The count of a buffer is the number of references there are to it.
Counted(use) ==
    \A b \in Buffers :
        use.busy[b] =
            Count(use.held, b) + Count(use.buffer, b) + Count(use.drawn, b)

\* Lent is what is referenced, and n, which is about to be.
Fair(use, n) ==
    \A b \in Buffers : b \in use.lent <=> use.busy[b] > 0 \/ b = n

\* A cache points to what it holds and is empty unless there is something in
\* it; what was not attached is not there.
Kept(use) ==
    \A s \in Surfaces :
        /\ use.cached[s].buffer = use.held[s]
        /\ ~use.cached[s].has => use.cached[s] = EmptyCache
        /\ ~use.pending[s].newly => use.pending[s].buffer = NULL

\* What is drawn is not copied yet, and what has to be copied is still the
\* surface's.
Drawing(use) ==
    \A s \in Surfaces :
        /\ use.drawn[s] # NULL => use.copy[s] = NULL
        /\ use.drawn[s] \in Copied => use.buffer[s] = use.drawn[s]

Good(use) ==
    /\ use \in UseType /\ Counted(use) /\ Fair(use, NULL) /\ Kept(use)
    /\ Drawing(use)

\* What a change of references leaves alone.
Alike(use, r) ==
    r.frames = use.frames /\ r.cached = use.cached /\ r.pending = use.pending

\* In r surface s shows b, if it is newly attached, and what it did if not.
Shows(use, r, s, newly, b) ==
    /\ r.drawn = [use.drawn EXCEPT ![s] = IF newly THEN b ELSE use.drawn[s]]
    /\ r.copy = [use.copy EXCEPT ![s] = IF newly THEN NULL ELSE use.copy[s]]

\* Nothing shows anything else.
ShowsSame(use, r) == r.drawn = use.drawn /\ r.copy = use.copy

\* The same references.
Same(use, r) ==
    /\ r.held = use.held /\ r.buffer = use.buffer
    /\ r.drawn = use.drawn /\ r.copy = use.copy

\* The fields of a use.
LEMMA UseFields ==
    ASSUME NEW use \in UseType
    PROVE  /\ use.held \in [Surfaces -> Buffers \cup {NULL}]
           /\ use.buffer \in [Surfaces -> Buffers \cup {NULL}]
           /\ use.drawn \in [Surfaces -> Buffers \cup {NULL}]
           /\ use.copy \in [Surfaces -> Buffers \cup {NULL}]
           /\ use.frames \in [Surfaces -> SUBSET Frames]
           /\ use.cached \in [Surfaces -> CacheType]
           /\ use.pending \in [Surfaces -> StateType]
           /\ use.busy \in [Buffers -> Nat]
           /\ use.lent \in SUBSET Buffers
BY DEF UseType

\* Dropping a reference.
LEMMA UnreferencedIs ==
    ASSUME NEW use \in UseType, NEW old \in Buffers \cup {NULL},
           old # NULL => use.busy[old] > 0
    PROVE  LET r == Unreferenced(use, old) IN
           /\ r \in UseType
           /\ Same(use, r) /\ Alike(use, r)
           /\ \A b \in Buffers :
                /\ r.busy[b] = IF b = old THEN use.busy[b] - 1 ELSE use.busy[b]
                /\ b \in r.lent <=> b \in use.lent /\ (b = old => r.busy[b] > 0)
<1> DEFINE r == Unreferenced(use, old)
<1>1. CASE old = NULL
  BY <1>1, NullAssumption DEF Unreferenced, Alike, Same
<1>2. CASE old # NULL
  <2> DEFINE n == use.busy[old] - 1
             busy == [use.busy EXCEPT ![old] = n]
             lent_left == IF n = 0 THEN use.lent \ {old} ELSE use.lent
  <2>1. old \in Buffers /\ n \in Nat
    BY <1>2 DEF UseType
  <2>2. busy \in [Buffers -> Nat] /\ lent_left \in SUBSET Buffers
    BY <2>1 DEF UseType
  <2>3. r = [use EXCEPT !.busy = busy, !.lent = lent_left]
    BY <1>2 DEF Unreferenced, UseType
  <2>4. r \in UseType /\ r.busy = busy /\ r.lent = lent_left
        /\ Same(use, r) /\ Alike(use, r)
    <3> HIDE DEF busy, lent_left, r
    <3> QED BY <2>2, <2>3 DEF UseType, Alike, Same
  <2>5. ASSUME NEW b \in Buffers
        PROVE  /\ busy[b] = IF b = old THEN use.busy[b] - 1 ELSE use.busy[b]
               /\ b \in lent_left <=> b \in use.lent /\ (b = old => busy[b] > 0)
    BY <2>1, UseFields
  <2> QED BY <2>4, <2>5
<1> QED BY <1>1, <1>2

\* Taking one.
LEMMA ReferencedIs ==
    ASSUME NEW use \in UseType, NEW new \in Buffers \cup {NULL}
    PROVE  LET r == Referenced(use, new) IN
           /\ r \in UseType /\ r.lent = use.lent
           /\ Same(use, r) /\ Alike(use, r)
           /\ \A b \in Buffers :
                r.busy[b] = IF b = new THEN use.busy[b] + 1 ELSE use.busy[b]
<1> DEFINE r == Referenced(use, new)
<1>1. CASE new = NULL
  BY <1>1, NullAssumption DEF Referenced, Alike, Same
<1>2. CASE new # NULL
  <2> DEFINE busy == [use.busy EXCEPT ![new] = use.busy[new] + 1]
  <2>1. busy \in [Buffers -> Nat] /\ new \in Buffers
    BY <1>2 DEF UseType
  <2>2. r = [use EXCEPT !.busy = busy]
    BY <1>2 DEF Referenced, UseType
  <2>3. r \in UseType /\ r.busy = busy /\ r.lent = use.lent
        /\ Same(use, r) /\ Alike(use, r)
    <3> HIDE DEF busy, r
    <3> QED BY <2>1, <2>2 DEF UseType, Alike, Same
  <2> QED BY <2>1, <2>3, UseFields
<1> QED BY <1>1, <1>2

\* From one buffer to another, which the client has just lent or which is
\* referenced already: what is lent is what is referenced.
LEMMA RereferencedIs ==
    ASSUME NEW use \in UseType, NEW old \in Buffers \cup {NULL},
           NEW new \in Buffers \cup {NULL},
           old # NULL => use.busy[old] > 0, Fair(use, new)
    PROVE  LET r == Rereferenced(use, old, new) IN
           /\ r \in UseType /\ Fair(r, NULL)
           /\ Same(use, r) /\ Alike(use, r)
           /\ \A b \in Buffers :
                r.busy[b] = use.busy[b] + (IF new = b THEN 1 ELSE 0)
                                        - (IF old = b THEN 1 ELSE 0)
<1> DEFINE u == Unreferenced(use, old)
           r == Rereferenced(use, old, new)
<1>0. \A b \in Buffers : use.busy[b] \in Nat
  BY UseFields
<1>1. CASE old = new
  <2>1. r = use
    BY <1>1 DEF Rereferenced
  <2>2. Fair(use, NULL)
    BY <1>1, NullAssumption DEF Fair
  <2> QED BY <1>0, <1>1, <2>1, <2>2 DEF Alike, Same
<1>2. CASE old # new
  <2>1. r = Referenced(u, new)
    BY <1>2 DEF Rereferenced
  <2>2. /\ u \in UseType
        /\ Same(use, u) /\ Alike(use, u)
        /\ \A b \in Buffers :
             /\ u.busy[b] = IF b = old THEN use.busy[b] - 1 ELSE use.busy[b]
             /\ b \in u.lent <=> b \in use.lent /\ (b = old => u.busy[b] > 0)
    BY UnreferencedIs
  <2>3. /\ r \in UseType /\ r.lent = u.lent
        /\ Same(u, r) /\ Alike(u, r)
        /\ \A b \in Buffers :
             r.busy[b] = IF b = new THEN u.busy[b] + 1 ELSE u.busy[b]
    <3> HIDE DEF u, r
    <3> QED BY <2>1, <2>2, ReferencedIs
  <2> HIDE DEF u, r
  <2>4. ASSUME NEW b \in Buffers
        PROVE  /\ r.busy[b] = use.busy[b] + (IF new = b THEN 1 ELSE 0)
                                          - (IF old = b THEN 1 ELSE 0)
               /\ b \in r.lent <=> r.busy[b] > 0
    <3>1. use.busy[b] \in Nat /\ (b = old => use.busy[b] > 0)
      BY <1>0, NullAssumption
    <3>2. b \in use.lent <=> use.busy[b] > 0 \/ b = new
      BY DEF Fair
    <3> QED BY <1>2, <2>2, <2>3, <3>1, <3>2
  <2>5. Fair(r, NULL)
    BY <2>4, NullAssumption DEF Fair
  <2>6. Alike(use, r) /\ Same(use, r)
    BY <2>2, <2>3 DEF Alike, Same
  <2> QED BY <2>3, <2>4, <2>5, <2>6 DEF r
<1> QED BY <1>1, <1>2

\* A count with references to it is not zero.
LEMMA ReferencedIsBusy ==
    ASSUME NEW use \in UseType, Counted(use), NEW s \in Surfaces
    PROVE  /\ use.buffer[s] # NULL => use.busy[use.buffer[s]] > 0
           /\ use.held[s] # NULL => use.busy[use.held[s]] > 0
           /\ use.drawn[s] # NULL => use.busy[use.drawn[s]] > 0
<1>1. ASSUME NEW f \in [Surfaces -> Buffers \cup {NULL}], NEW b, f[s] = b
      PROVE  Count(f, b) > 0
  <2>1. IsFiniteSet({t \in Surfaces : f[t] = b}) /\ s \in {t \in Surfaces : f[t] = b}
    BY <1>1, FS_Subset, FiniteAssumption
  <2>2. Count(f, b) # 0
    BY <2>1, FS_EmptySet DEF Count
  <2>3. Count(f, b) \in Nat
    BY CountType, FS_CardinalityType, FiniteAssumption
  <2> QED BY <2>2, <2>3
<1>2. /\ use.held \in [Surfaces -> Buffers \cup {NULL}]
      /\ use.buffer \in [Surfaces -> Buffers \cup {NULL}]
      /\ use.drawn \in [Surfaces -> Buffers \cup {NULL}]
  BY UseFields
<1>3. \A b : /\ Count(use.held, b) \in Nat /\ Count(use.buffer, b) \in Nat
             /\ Count(use.drawn, b) \in Nat
  BY CountType, FS_CardinalityType, FiniteAssumption
<1>4. ASSUME NEW b \in Buffers,
             \/ Count(use.held, b) > 0 \/ Count(use.buffer, b) > 0
             \/ Count(use.drawn, b) > 0
      PROVE  use.busy[b] > 0
  <2>1. use.busy[b] =
            Count(use.held, b) + Count(use.buffer, b) + Count(use.drawn, b)
    BY DEF Counted
  <2> QED BY <1>3, <1>4, <2>1
<1>5. ASSUME NEW f \in [Surfaces -> Buffers \cup {NULL}], f[s] # NULL
      PROVE  f[s] \in Buffers /\ Count(f, f[s]) > 0
  BY <1>1, <1>5
<1> QED BY <1>2, <1>4, <1>5

\* The cache holds another buffer.
LEMMA HeldIs ==
    ASSUME NEW use \in UseType, Counted(use), NEW s \in Surfaces,
           NEW new \in Buffers \cup {NULL}, Fair(use, new)
    PROVE  LET r == Held(use, s, new) IN
           /\ r \in UseType /\ Counted(r) /\ Fair(r, NULL) /\ Alike(use, r)
           /\ r.held = [use.held EXCEPT ![s] = new]
           /\ r.buffer = use.buffer /\ r.drawn = use.drawn /\ r.copy = use.copy
<1> DEFINE u == Rereferenced(use, use.held[s], new)
           refs == [use.held EXCEPT ![s] = new]
           r == Held(use, s, new)
<1>1. use.held \in [Surfaces -> Buffers \cup {NULL}]
  BY UseFields
<1>2. /\ u \in UseType /\ Fair(u, NULL) /\ Same(use, u) /\ Alike(use, u)
      /\ \A b \in Buffers :
           u.busy[b] = use.busy[b] + (IF new = b THEN 1 ELSE 0)
                                   - (IF use.held[s] = b THEN 1 ELSE 0)
  <2> DEFINE old == use.held[s]
  <2>1. old \in Buffers \cup {NULL} /\ (old # NULL => use.busy[old] > 0)
    BY <1>1, ReferencedIsBusy
  <2> HIDE DEF old, r, refs
  <2>2. /\ Rereferenced(use, old, new) \in UseType
        /\ Fair(Rereferenced(use, old, new), NULL)
        /\ Same(use, Rereferenced(use, old, new))
        /\ Alike(use, Rereferenced(use, old, new))
        /\ \A b \in Buffers :
             Rereferenced(use, old, new).busy[b] =
                 use.busy[b] + (IF new = b THEN 1 ELSE 0)
                             - (IF old = b THEN 1 ELSE 0)
    BY <2>1, RereferencedIs
  <2> QED BY <2>2 DEF old
<1>3. refs \in [Surfaces -> Buffers \cup {NULL}]
  BY <1>1
<1>4. r = [u EXCEPT !.held = refs]
  BY <1>2 DEF Held, UseType, Same
<1>5. ASSUME NEW b \in Buffers
      PROVE  u.busy[b] = Count(refs, b) + Count(use.buffer, b) + Count(use.drawn, b)
  <2>1. use.busy[b] =
            Count(use.held, b) + Count(use.buffer, b) + Count(use.drawn, b)
    BY DEF Counted
  <2>2. Count(refs, b) = Count(use.held, b) + (IF new = b THEN 1 ELSE 0)
                             - (IF use.held[s] = b THEN 1 ELSE 0)
    <3>1. OneOther(use.held, s, new, b)
      BY <1>1, CountExcept
    <3> QED BY <3>1 DEF OneOther
  <2>3. /\ Count(use.held, b) \in Nat /\ Count(use.buffer, b) \in Nat
        /\ Count(use.drawn, b) \in Nat
    BY CountType, FS_CardinalityType, FiniteAssumption
  <2> DEFINE one == IF new = b THEN 1 ELSE 0
             was == IF use.held[s] = b THEN 1 ELSE 0
  <2>4. one \in Nat /\ was \in Nat
    OBVIOUS
  <2>5. /\ u.busy[b] = use.busy[b] + one - was
        /\ Count(refs, b) = Count(use.held, b) + one - was
    BY <1>2, <2>2
  <2> HIDE DEF refs, u, one, was
  <2> QED BY <2>1, <2>3, <2>4, <2>5
<1> HIDE DEF refs, u, r
<1>6. /\ r \in UseType /\ Alike(use, r) /\ r.held = refs
      /\ r.buffer = use.buffer /\ r.drawn = use.drawn /\ r.copy = use.copy
      /\ r.busy = u.busy /\ r.lent = u.lent
  BY <1>2, <1>3, <1>4 DEF UseType, Alike, Same
<1>7. \A b : /\ Count(refs, b) \in Nat /\ Count(use.buffer, b) \in Nat
             /\ Count(use.drawn, b) \in Nat
  BY CountType, FS_CardinalityType, FiniteAssumption
<1>8. Counted(r) /\ Fair(r, NULL)
  BY <1>2, <1>5, <1>6, <1>7 DEF Counted, Fair
<1> QED BY <1>6, <1>8 DEF refs, r

\* The surface refers to another one.
LEMMA BasedIs ==
    ASSUME NEW use \in UseType, Counted(use), NEW s \in Surfaces,
           NEW new \in Buffers \cup {NULL}, Fair(use, new)
    PROVE  LET r == Based(use, s, new) IN
           /\ r \in UseType /\ Counted(r) /\ Fair(r, NULL) /\ Alike(use, r)
           /\ r.buffer = [use.buffer EXCEPT ![s] = new]
           /\ r.held = use.held /\ r.drawn = use.drawn /\ r.copy = use.copy
<1> DEFINE u == Rereferenced(use, use.buffer[s], new)
           refs == [use.buffer EXCEPT ![s] = new]
           r == Based(use, s, new)
<1>1. use.buffer \in [Surfaces -> Buffers \cup {NULL}]
  BY UseFields
<1>2. /\ u \in UseType /\ Fair(u, NULL) /\ Same(use, u) /\ Alike(use, u)
      /\ \A b \in Buffers :
           u.busy[b] = use.busy[b] + (IF new = b THEN 1 ELSE 0)
                                   - (IF use.buffer[s] = b THEN 1 ELSE 0)
  <2> DEFINE old == use.buffer[s]
  <2>1. old \in Buffers \cup {NULL} /\ (old # NULL => use.busy[old] > 0)
    BY <1>1, ReferencedIsBusy
  <2> HIDE DEF old, r, refs
  <2>2. /\ Rereferenced(use, old, new) \in UseType
        /\ Fair(Rereferenced(use, old, new), NULL)
        /\ Same(use, Rereferenced(use, old, new))
        /\ Alike(use, Rereferenced(use, old, new))
        /\ \A b \in Buffers :
             Rereferenced(use, old, new).busy[b] =
                 use.busy[b] + (IF new = b THEN 1 ELSE 0)
                             - (IF old = b THEN 1 ELSE 0)
    BY <2>1, RereferencedIs
  <2> QED BY <2>2 DEF old
<1>3. refs \in [Surfaces -> Buffers \cup {NULL}]
  BY <1>1
<1>4. r = [u EXCEPT !.buffer = refs]
  BY <1>2 DEF Based, UseType, Same
<1>5. ASSUME NEW b \in Buffers
      PROVE  u.busy[b] = Count(refs, b) + Count(use.held, b) + Count(use.drawn, b)
  <2>1. use.busy[b] =
            Count(use.held, b) + Count(use.buffer, b) + Count(use.drawn, b)
    BY DEF Counted
  <2>2. Count(refs, b) = Count(use.buffer, b) + (IF new = b THEN 1 ELSE 0)
                             - (IF use.buffer[s] = b THEN 1 ELSE 0)
    <3>1. OneOther(use.buffer, s, new, b)
      BY <1>1, CountExcept
    <3> QED BY <3>1 DEF OneOther
  <2>3. /\ Count(use.held, b) \in Nat /\ Count(use.buffer, b) \in Nat
        /\ Count(use.drawn, b) \in Nat
    BY CountType, FS_CardinalityType, FiniteAssumption
  <2> DEFINE one == IF new = b THEN 1 ELSE 0
             was == IF use.buffer[s] = b THEN 1 ELSE 0
  <2>4. one \in Nat /\ was \in Nat
    OBVIOUS
  <2>5. /\ u.busy[b] = use.busy[b] + one - was
        /\ Count(refs, b) = Count(use.buffer, b) + one - was
    BY <1>2, <2>2
  <2> HIDE DEF refs, u, one, was
  <2> QED BY <2>1, <2>3, <2>4, <2>5
<1> HIDE DEF refs, u, r
<1>6. /\ r \in UseType /\ Alike(use, r) /\ r.buffer = refs
      /\ r.held = use.held /\ r.drawn = use.drawn /\ r.copy = use.copy
      /\ r.busy = u.busy /\ r.lent = u.lent
  BY <1>2, <1>3, <1>4 DEF UseType, Alike, Same
<1>7. \A b : /\ Count(refs, b) \in Nat /\ Count(use.held, b) \in Nat
             /\ Count(use.drawn, b) \in Nat
  BY CountType, FS_CardinalityType, FiniteAssumption
<1>8. Counted(r) /\ Fair(r, NULL)
  BY <1>2, <1>5, <1>6, <1>7 DEF Counted, Fair
<1> QED BY <1>6, <1>8 DEF refs, r

\* The renderer does.
LEMMA DrawnIs ==
    ASSUME NEW use \in UseType, Counted(use), NEW s \in Surfaces,
           NEW new \in Buffers \cup {NULL}, Fair(use, new)
    PROVE  LET r == Drawn(use, s, new) IN
           /\ r \in UseType /\ Counted(r) /\ Fair(r, NULL) /\ Alike(use, r)
           /\ r.drawn = [use.drawn EXCEPT ![s] = new]
           /\ r.held = use.held /\ r.buffer = use.buffer /\ r.copy = use.copy
<1> DEFINE u == Rereferenced(use, use.drawn[s], new)
           refs == [use.drawn EXCEPT ![s] = new]
           r == Drawn(use, s, new)
<1>1. use.drawn \in [Surfaces -> Buffers \cup {NULL}]
  BY UseFields
<1>2. /\ u \in UseType /\ Fair(u, NULL) /\ Same(use, u) /\ Alike(use, u)
      /\ \A b \in Buffers :
           u.busy[b] = use.busy[b] + (IF new = b THEN 1 ELSE 0)
                                   - (IF use.drawn[s] = b THEN 1 ELSE 0)
  <2> DEFINE old == use.drawn[s]
  <2>1. old \in Buffers \cup {NULL} /\ (old # NULL => use.busy[old] > 0)
    BY <1>1, ReferencedIsBusy
  <2> HIDE DEF old, r, refs
  <2>2. /\ Rereferenced(use, old, new) \in UseType
        /\ Fair(Rereferenced(use, old, new), NULL)
        /\ Same(use, Rereferenced(use, old, new))
        /\ Alike(use, Rereferenced(use, old, new))
        /\ \A b \in Buffers :
             Rereferenced(use, old, new).busy[b] =
                 use.busy[b] + (IF new = b THEN 1 ELSE 0)
                             - (IF old = b THEN 1 ELSE 0)
    BY <2>1, RereferencedIs
  <2> QED BY <2>2 DEF old
<1>3. refs \in [Surfaces -> Buffers \cup {NULL}]
  BY <1>1
<1>4. r = [u EXCEPT !.drawn = refs]
  BY <1>2 DEF Drawn, UseType, Same
<1>5. ASSUME NEW b \in Buffers
      PROVE  u.busy[b] = Count(refs, b) + Count(use.held, b) + Count(use.buffer, b)
  <2>1. use.busy[b] =
            Count(use.held, b) + Count(use.buffer, b) + Count(use.drawn, b)
    BY DEF Counted
  <2>2. Count(refs, b) = Count(use.drawn, b) + (IF new = b THEN 1 ELSE 0)
                             - (IF use.drawn[s] = b THEN 1 ELSE 0)
    <3>1. OneOther(use.drawn, s, new, b)
      BY <1>1, CountExcept
    <3> QED BY <3>1 DEF OneOther
  <2>3. /\ Count(use.held, b) \in Nat /\ Count(use.buffer, b) \in Nat
        /\ Count(use.drawn, b) \in Nat
    BY CountType, FS_CardinalityType, FiniteAssumption
  <2> DEFINE one == IF new = b THEN 1 ELSE 0
             was == IF use.drawn[s] = b THEN 1 ELSE 0
  <2>4. one \in Nat /\ was \in Nat
    OBVIOUS
  <2>5. /\ u.busy[b] = use.busy[b] + one - was
        /\ Count(refs, b) = Count(use.drawn, b) + one - was
    BY <1>2, <2>2
  <2> HIDE DEF refs, u, one, was
  <2> QED BY <2>1, <2>3, <2>4, <2>5
<1> HIDE DEF refs, u, r
<1>6. /\ r \in UseType /\ Alike(use, r) /\ r.drawn = refs
      /\ r.held = use.held /\ r.buffer = use.buffer /\ r.copy = use.copy
      /\ r.busy = u.busy /\ r.lent = u.lent
  BY <1>2, <1>3, <1>4 DEF UseType, Alike, Same
<1>7. \A b : /\ Count(refs, b) \in Nat /\ Count(use.held, b) \in Nat
             /\ Count(use.buffer, b) \in Nat
  BY CountType, FS_CardinalityType, FiniteAssumption
<1>8. Counted(r) /\ Fair(r, NULL)
  BY <1>2, <1>5, <1>6, <1>7 DEF Counted, Fair
<1> QED BY <1>6, <1>8 DEF refs, r

\* The surface has another buffer, and the renderer too.
LEMMA AttachedIs ==
    ASSUME NEW use \in UseType, Counted(use), Drawing(use), NEW s \in Surfaces,
           NEW new \in Buffers \cup {NULL}, Fair(use, new)
    PROVE  LET r == Attached(use, s, new) IN
           /\ r \in UseType /\ Counted(r) /\ Fair(r, NULL) /\ Alike(use, r)
           /\ Drawing(r) /\ r.held = use.held
           /\ r.drawn = [use.drawn EXCEPT ![s] = new]
           /\ r.copy = [use.copy EXCEPT ![s] = NULL]
<1> DEFINE u == Based(use, s, new)
           v == Drawn(u, s, new)
           r == Attached(use, s, new)
           copies == [use.copy EXCEPT ![s] = NULL]
<1>0. /\ use.buffer \in [Surfaces -> Buffers \cup {NULL}]
      /\ use.drawn \in [Surfaces -> Buffers \cup {NULL}]
      /\ use.copy \in [Surfaces -> Buffers \cup {NULL}]
  BY UseFields
<1>1. /\ u \in UseType /\ Counted(u) /\ Fair(u, NULL) /\ Alike(use, u)
      /\ u.buffer = [use.buffer EXCEPT ![s] = new]
      /\ u.held = use.held /\ u.drawn = use.drawn /\ u.copy = use.copy
  BY BasedIs
<1> HIDE DEF u
<1>2. Fair(u, new)
  <2>1. u.buffer[s] = new
    BY <1>0, <1>1
  <2>2. new # NULL => u.busy[new] > 0
    BY <1>1, <2>1, ReferencedIsBusy
  <2> QED BY <1>1, <2>2, NullAssumption DEF Fair
<1>3. /\ v \in UseType /\ Counted(v) /\ Fair(v, NULL) /\ Alike(u, v)
      /\ v.drawn = [u.drawn EXCEPT ![s] = new]
      /\ v.held = u.held /\ v.buffer = u.buffer /\ v.copy = u.copy
  BY <1>1, <1>2, DrawnIs
<1>4. r = [v EXCEPT !.copy = copies]
  BY <1>1, <1>3 DEF Attached, UseType, u
<1> HIDE DEF v, r, copies
<1>5. copies \in [Surfaces -> Buffers \cup {NULL}]
  BY <1>0 DEF copies
<1>6. /\ r \in UseType /\ Alike(use, r) /\ r.copy = copies
      /\ r.held = use.held /\ r.buffer = v.buffer /\ r.drawn = v.drawn
      /\ r.busy = v.busy /\ r.lent = v.lent /\ r.held = v.held
  BY <1>1, <1>3, <1>4, <1>5 DEF UseType, Alike
<1>7. Counted(r) /\ Fair(r, NULL)
  BY <1>3, <1>6 DEF Counted, Fair
<1>8. /\ r.drawn = [use.drawn EXCEPT ![s] = new]
      /\ r.buffer = [use.buffer EXCEPT ![s] = new]
  BY <1>1, <1>3, <1>6
<1>9. Drawing(r)
  BY <1>0, <1>6, <1>8 DEF Drawing, copies
<1> QED BY <1>6, <1>7, <1>8, <1>9 DEF r, copies

\* A state is applied to the surface.
LEMMA StateCommittedIs ==
    ASSUME NEW use \in UseType, Counted(use), Drawing(use), NEW s \in Surfaces,
           NEW state, state.newly \in BOOLEAN,
           state.buffer \in Buffers \cup {NULL}, state.frames \in SUBSET Frames,
           Fair(use, IF state.newly THEN state.buffer ELSE NULL)
    PROVE  LET r == StateCommitted(use, s, state) IN
           /\ r \in UseType /\ Counted(r) /\ Fair(r, NULL) /\ Drawing(r)
           /\ Shows(use, r, s, state.newly, state.buffer)
           /\ r.frames = [use.frames EXCEPT ![s] = use.frames[s] \cup state.frames]
           /\ r.held = use.held /\ r.cached = use.cached
           /\ r.pending = use.pending
<1> DEFINE u == IF state.newly THEN Attached(use, s, state.buffer) ELSE use
           calls == [use.frames EXCEPT ![s] = use.frames[s] \cup state.frames]
           r == StateCommitted(use, s, state)
<1>1. /\ u \in UseType /\ Counted(u) /\ Fair(u, NULL) /\ Alike(use, u)
      /\ Shows(use, u, s, state.newly, state.buffer) /\ u.held = use.held
      /\ Drawing(u)
  <2>1. CASE state.newly
    <3>1. u = Attached(use, s, state.buffer)
      BY <2>1
    <3> HIDE DEF u
    <3> QED BY <2>1, <3>1, AttachedIs DEF Shows
  <2>2. CASE ~state.newly
    <3>1. /\ use.drawn \in [Surfaces -> Buffers \cup {NULL}]
          /\ use.copy \in [Surfaces -> Buffers \cup {NULL}]
      BY UseFields
    <3> QED BY <2>2, <3>1 DEF Alike, Shows
  <2> QED BY <2>1, <2>2
<1>2. calls \in [Surfaces -> SUBSET Frames]
  BY UseFields
<1>3. r = [u EXCEPT !.frames = [u.frames EXCEPT ![s] = @ \cup state.frames]]
  BY DEF StateCommitted
<1> HIDE DEF u
<1>4. r = [u EXCEPT !.frames = calls]
  BY <1>1, <1>3 DEF Alike
<1> HIDE DEF calls, r
<1>5. /\ r \in UseType /\ r.frames = calls /\ Same(u, r)
      /\ r.cached = use.cached /\ r.pending = use.pending
      /\ r.busy = u.busy /\ r.lent = u.lent
  BY <1>1, <1>2, <1>4 DEF UseType, Alike, Same
<1>6. Counted(r) /\ Fair(r, NULL) /\ Drawing(r) /\ r.held = use.held
  BY <1>1, <1>5 DEF Counted, Fair, Drawing, Same
<1>7. Shows(use, r, s, state.newly, state.buffer)
  BY <1>1, <1>5 DEF Shows, Same
<1> QED BY <1>5, <1>6, <1>7 DEF r, calls

\* What a state of a surface has in it.
LEMMA StateFields ==
    ASSUME NEW use \in UseType, NEW s \in Surfaces
    PROVE  /\ use.pending[s] \in StateType
           /\ use.pending[s].newly \in BOOLEAN
           /\ use.pending[s].buffer \in Buffers \cup {NULL}
           /\ use.pending[s].frames \in SUBSET Frames
           /\ use.cached[s] \in CacheType
           /\ use.cached[s].has \in BOOLEAN
           /\ use.cached[s].newly \in BOOLEAN
           /\ use.cached[s].buffer \in Buffers \cup {NULL}
           /\ use.cached[s].frames \in SUBSET Frames
<1>1. use.pending[s] \in StateType /\ use.cached[s] \in CacheType
  BY UseFields
<1> QED BY <1>1 DEF StateType, CacheType

\* What is pending and what is cached at first, or after a commit.
LEMMA Empties ==
    /\ Empty \in StateType /\ EmptyCache \in CacheType
    /\ Empty.newly = FALSE /\ Empty.buffer = NULL /\ Empty.frames = {}
    /\ EmptyCache.has = FALSE /\ EmptyCache.newly = FALSE
    /\ EmptyCache.buffer = NULL /\ EmptyCache.frames = {}
BY DEF Empty, EmptyCache, StateType, CacheType

\* What the client commits is lent before it is referenced.
LEMMA LentIs ==
    ASSUME NEW use, Good(use), NEW s \in Surfaces
    PROVE  LET r == Lent(use, s) IN
           /\ r \in UseType /\ Counted(r) /\ Alike(use, r)
           /\ Fair(r, use.pending[s].buffer)
           /\ Same(use, r) /\ Drawing(r)
<1> DEFINE r == Lent(use, s)
           lends == (use.lent \cup {use.pending[s].buffer}) \ {NULL}
<1>1. use \in UseType /\ use.pending[s].buffer \in Buffers \cup {NULL}
  BY StateFields DEF Good
<1>2. lends \in SUBSET Buffers
  BY <1>1, UseFields
<1>3. r = [use EXCEPT !.lent = lends]
  BY DEF Lent
<1> HIDE DEF lends, r
<1>4. r \in UseType /\ Alike(use, r) /\ Same(use, r)
      /\ r.busy = use.busy /\ r.lent = lends
  BY <1>1, <1>2, <1>3 DEF UseType, Alike, Same
<1>5. Counted(r) /\ Drawing(r)
  BY <1>4 DEF Good, Counted, Drawing, Same
<1>6. ASSUME NEW b \in Buffers
      PROVE  b \in lends <=> use.busy[b] > 0 \/ b = use.pending[s].buffer
  <2>1. b \in use.lent <=> use.busy[b] > 0
    BY NullAssumption DEF Good, Fair
  <2> QED BY <2>1, NullAssumption DEF lends
<1>7. Fair(r, use.pending[s].buffer)
  BY <1>4, <1>6 DEF Fair
<1> QED BY <1>4, <1>5, <1>7 DEF r

\* A commit that does not wait, and has nothing cached.
LEMMA CommittedIs ==
    ASSUME NEW use, Good(use), NEW s \in Surfaces
    PROVE  LET r == Committed(use, s)
               state == use.pending[s]
           IN
           /\ Good(r)
           /\ Shows(use, r, s, state.newly, state.buffer)
           /\ r.frames = [use.frames EXCEPT ![s] = use.frames[s] \cup state.frames]
           /\ r.pending = [use.pending EXCEPT ![s] = Empty]
           /\ r.cached = use.cached
<1> DEFINE state == use.pending[s]
           u == Lent(use, s)
           v == StateCommitted(u, s, state)
           r == Committed(use, s)
           pends == [use.pending EXCEPT ![s] = Empty]
<1>1. /\ use \in UseType /\ state.newly \in BOOLEAN
      /\ state.buffer \in Buffers \cup {NULL} /\ state.frames \in SUBSET Frames
      /\ ~state.newly => state.buffer = NULL
  BY StateFields DEF Good, Kept
<1>2. /\ u \in UseType /\ Counted(u) /\ Alike(use, u)
      /\ Fair(u, state.buffer)
      /\ Same(use, u) /\ Drawing(u)
  BY LentIs
<1>3. Fair(u, IF state.newly THEN state.buffer ELSE NULL)
  BY <1>1, <1>2
<1> HIDE DEF u, state
<1>4. /\ v \in UseType /\ Counted(v) /\ Fair(v, NULL) /\ Drawing(v)
      /\ Shows(u, v, s, state.newly, state.buffer)
      /\ v.frames = [u.frames EXCEPT ![s] = u.frames[s] \cup state.frames]
      /\ v.held = u.held /\ v.cached = u.cached /\ v.pending = u.pending
  BY <1>1, <1>2, <1>3, StateCommittedIs
<1>5. pends \in [Surfaces -> StateType]
  BY <1>1, UseFields, Empties
<1>6. r = [v EXCEPT !.pending = pends]
  BY <1>2, <1>4 DEF Committed, UseType, Alike, u, state
<1> HIDE DEF v, r, pends
<1>7. r \in UseType /\ Same(v, r) /\ r.frames = v.frames
      /\ r.cached = v.cached /\ r.pending = pends
      /\ r.busy = v.busy /\ r.lent = v.lent
  BY <1>4, <1>5, <1>6 DEF UseType, Same
<1>8. Counted(r) /\ Fair(r, NULL) /\ Drawing(r)
  BY <1>4, <1>7 DEF Counted, Fair, Drawing, Same
<1>9. Kept(r)
  <2>1. r.cached = use.cached /\ r.held = use.held
    BY <1>2, <1>4, <1>7 DEF Alike, Same
  <2>2. \A t \in Surfaces : ~pends[t].newly => pends[t].buffer = NULL
    BY <1>1, UseFields, Empties DEF Good, Kept, pends
  <2> QED BY <1>7, <2>1, <2>2 DEF Good, Kept
<1>10. Shows(use, r, s, state.newly, state.buffer)
  BY <1>2, <1>4, <1>7 DEF Shows, Same
<1> QED BY <1>2, <1>4, <1>7, <1>8, <1>9, <1>10 DEF Alike, Good, r, pends, state

\* One that waits is added to the cache.
LEMMA CommittedToCacheIs ==
    ASSUME NEW use, Good(use), NEW s \in Surfaces
    PROVE  LET r == CommittedToCache(use, s)
               state == use.pending[s]
               was == use.cached[s]
           IN
           /\ Good(r) /\ ShowsSame(use, r) /\ r.frames = use.frames
           /\ r.pending = [use.pending EXCEPT ![s] = Empty]
           /\ r.cached = [use.cached EXCEPT ![s] =
                [has |-> TRUE, newly |-> was.newly \/ state.newly,
                 buffer |-> IF state.newly THEN state.buffer ELSE was.buffer,
                 frames |-> was.frames \cup state.frames]]
<1> DEFINE state == use.pending[s]
           was == use.cached[s]
           b == IF state.newly THEN state.buffer ELSE was.buffer
           v == IF state.newly THEN Held(Lent(use, s), s, b) ELSE use
           now == [has |-> TRUE, newly |-> was.newly \/ state.newly,
                   buffer |-> b, frames |-> was.frames \cup state.frames]
           r == CommittedToCache(use, s)
           pends == [use.pending EXCEPT ![s] = Empty]
           caches == [use.cached EXCEPT ![s] = now]
           holds == [use.held EXCEPT ![s] = b]
<1>1. /\ use \in UseType /\ state.newly \in BOOLEAN
      /\ state.buffer \in Buffers \cup {NULL} /\ state.frames \in SUBSET Frames
      /\ was.newly \in BOOLEAN /\ was.buffer \in Buffers \cup {NULL}
      /\ was.frames \in SUBSET Frames
      /\ was.buffer = use.held[s]
  BY StateFields DEF Good, Kept
<1>2. b \in Buffers \cup {NULL} /\ now \in CacheType
  BY <1>1 DEF CacheType
<1>3. /\ v \in UseType /\ Counted(v) /\ Fair(v, NULL) /\ Alike(use, v)
      /\ v.held = holds /\ ShowsSame(use, v) /\ Drawing(v)
  <2>1. CASE state.newly
    <3> DEFINE u == Lent(use, s)
    <3>1. /\ u \in UseType /\ Counted(u) /\ Alike(use, u)
          /\ Fair(u, state.buffer)
          /\ Same(use, u) /\ Drawing(u)
      BY LentIs
    <3>2. v = Held(u, s, state.buffer) /\ b = state.buffer
      BY <2>1
    <3> HIDE DEF u, v, b, state
    <3>3. /\ v \in UseType /\ Counted(v) /\ Fair(v, NULL) /\ Alike(u, v)
          /\ v.held = [u.held EXCEPT ![s] = state.buffer]
          /\ v.buffer = u.buffer /\ v.drawn = u.drawn /\ v.copy = u.copy
      BY <1>1, <3>1, <3>2, HeldIs
    <3>4. Drawing(v) /\ ShowsSame(use, v)
      BY <3>1, <3>3 DEF Drawing, ShowsSame, Same
    <3> QED BY <3>1, <3>2, <3>3, <3>4 DEF Alike, Same
  <2>2. CASE ~state.newly
    <3>1. v = use /\ b = use.held[s]
      BY <1>1, <2>2
    <3>2. holds = use.held
      BY <1>1, <3>1, UseFields
    <3> QED BY <1>1, <3>1, <3>2 DEF Good, Alike, ShowsSame
  <2> QED BY <1>1, <2>1, <2>2
<1>4. pends \in [Surfaces -> StateType] /\ caches \in [Surfaces -> CacheType]
  BY <1>1, <1>2, UseFields, Empties
<1>5. r = [v EXCEPT !.pending = [v.pending EXCEPT ![s] = Empty],
                    !.cached = [v.cached EXCEPT ![s] =
                       [has |-> TRUE, newly |-> v.cached[s].newly \/ state.newly,
                        buffer |-> b,
                        frames |-> v.cached[s].frames \cup state.frames]]]
  BY <1>3 DEF CommittedToCache, UseType
<1>6. r = [v EXCEPT !.pending = pends, !.cached = caches]
  <2> HIDE DEF v, r, b, state
  <2> QED BY <1>3, <1>5 DEF Alike
<1> HIDE DEF v, r, pends, caches, holds
<1>7. r \in UseType /\ Same(v, r) /\ r.frames = v.frames
      /\ r.cached = caches /\ r.pending = pends
      /\ r.busy = v.busy /\ r.lent = v.lent
  BY <1>3, <1>4, <1>6 DEF UseType, Same
<1>8. Counted(r) /\ Fair(r, NULL) /\ Drawing(r) /\ ShowsSame(use, r)
  BY <1>3, <1>7 DEF Counted, Fair, Drawing, Same, ShowsSame
<1>9. Kept(r)
  <2>1. \A t \in Surfaces : ~pends[t].newly => pends[t].buffer = NULL
    BY <1>1, UseFields, Empties DEF Good, Kept, pends
  <2>2. \A t \in Surfaces : caches[t].buffer = holds[t]
    BY <1>1, UseFields DEF Good, Kept, caches, holds
  <2>3. \A t \in Surfaces : ~caches[t].has => caches[t] = EmptyCache
    BY <1>1, UseFields DEF Good, Kept, caches
  <2> QED BY <1>3, <1>7, <2>1, <2>2, <2>3 DEF Kept, Same
<1> QED BY <1>3, <1>7, <1>8, <1>9 DEF Alike, Good, r, pends, caches

\* The cache of a surface is let go of; it may point elsewhere before.
Dropped(use, s) == [Held(use, s, NULL) EXCEPT !.cached[s] = EmptyCache]

KeptBut(use, s) ==
    /\ \A t \in Surfaces :
         ~use.pending[t].newly => use.pending[t].buffer = NULL
    /\ \A t \in Surfaces \ {s} :
         /\ use.cached[t].buffer = use.held[t]
         /\ ~use.cached[t].has => use.cached[t] = EmptyCache

\* Without its cache a surface's references are good again.
LEMMA DroppedIs ==
    ASSUME NEW use \in UseType, Counted(use), Fair(use, NULL), Drawing(use),
           NEW s \in Surfaces, KeptBut(use, s)
    PROVE  LET r == Dropped(use, s) IN
           /\ Good(r) /\ ShowsSame(use, r) /\ r.frames = use.frames
           /\ r.pending = use.pending
           /\ r.cached = [use.cached EXCEPT ![s] = EmptyCache]
           /\ r.held = [use.held EXCEPT ![s] = NULL]
<1> DEFINE r == Dropped(use, s)
           v == Held(use, s, NULL)
           caches == [use.cached EXCEPT ![s] = EmptyCache]
           holds == [use.held EXCEPT ![s] = NULL]
<1>1. /\ v \in UseType /\ Counted(v) /\ Fair(v, NULL) /\ Alike(use, v)
      /\ v.held = holds /\ v.buffer = use.buffer
      /\ v.drawn = use.drawn /\ v.copy = use.copy
  BY HeldIs
<1>2. caches \in [Surfaces -> CacheType]
  BY UseFields, Empties
<1>3. r = [v EXCEPT !.cached = caches]
  BY <1>1 DEF Alike, UseType, Dropped, v
<1> HIDE DEF v, r, caches, holds
<1>4. r \in UseType /\ Same(v, r) /\ r.frames = v.frames
      /\ r.cached = caches /\ r.pending = v.pending
      /\ r.busy = v.busy /\ r.lent = v.lent
  BY <1>1, <1>2, <1>3 DEF UseType, Same
<1>5. Counted(r) /\ Fair(r, NULL) /\ Drawing(r) /\ ShowsSame(use, r)
  BY <1>1, <1>4 DEF Counted, Fair, Drawing, Same, ShowsSame
<1>6. \A t \in Surfaces : /\ caches[t].buffer = holds[t]
                          /\ ~caches[t].has => caches[t] = EmptyCache
  BY UseFields, Empties DEF KeptBut, caches, holds
<1>7. Kept(r)
  <2>1. r.pending = use.pending /\ r.held = holds /\ r.cached = caches
    BY <1>1, <1>4 DEF Alike, Same
  <2> QED BY <1>6, <2>1 DEF Kept, KeptBut
<1> QED BY <1>1, <1>4, <1>5, <1>7 DEF Good, Alike, Same, r, v, caches, holds

\* The cache is committed: what it holds is on the surface before it lets go.
LEMMA CommittedFromCacheIs ==
    ASSUME NEW use, Good(use), NEW s \in Surfaces
    PROVE  LET r == CommittedFromCache(use, s)
               was == use.cached[s]
           IN
           /\ Good(r)
           /\ Shows(use, r, s, was.newly, was.buffer)
           /\ r.frames = [use.frames EXCEPT ![s] = use.frames[s] \cup was.frames]
           /\ r.pending = use.pending
           /\ r.cached = [use.cached EXCEPT ![s] = EmptyCache]
<1> DEFINE was == use.cached[s]
           v == StateCommitted(use, s, was)
           r == CommittedFromCache(use, s)
<1>1. /\ use \in UseType /\ Counted(use) /\ Fair(use, NULL) /\ Drawing(use)
      /\ was.newly \in BOOLEAN /\ was.buffer \in Buffers \cup {NULL}
      /\ was.frames \in SUBSET Frames /\ was.buffer = use.held[s]
  BY StateFields DEF Good, Kept
<1>2. Fair(use, was.buffer)
  <2>1. was.buffer # NULL => use.busy[was.buffer] > 0
    BY <1>1, ReferencedIsBusy
  <2> QED BY <1>1, <2>1, NullAssumption DEF Fair
<1>3. Fair(use, IF was.newly THEN was.buffer ELSE NULL)
  BY <1>1, <1>2
<1> HIDE DEF was
<1>4. /\ v \in UseType /\ Counted(v) /\ Fair(v, NULL) /\ Drawing(v)
      /\ Shows(use, v, s, was.newly, was.buffer)
      /\ v.frames = [use.frames EXCEPT ![s] = use.frames[s] \cup was.frames]
      /\ v.held = use.held /\ v.cached = use.cached /\ v.pending = use.pending
  BY <1>1, <1>3, StateCommittedIs
<1> HIDE DEF v
<1>5. r = Dropped(v, s)
  BY DEF CommittedFromCache, Dropped, v, was
<1> HIDE DEF r
<1>6. /\ Good(r) /\ ShowsSame(v, r) /\ r.frames = v.frames
      /\ r.pending = v.pending
      /\ r.cached = [v.cached EXCEPT ![s] = EmptyCache]
  <2>1. KeptBut(v, s)
    BY <1>4 DEF Good, Kept, KeptBut
  <2>2. v \in UseType /\ Counted(v) /\ Fair(v, NULL) /\ Drawing(v)
    BY <1>4
  <2> QED BY <1>5, <2>1, <2>2, DroppedIs
<1>7. Shows(use, r, s, was.newly, was.buffer)
  BY <1>4, <1>6 DEF Shows, ShowsSame
<1> QED BY <1>4, <1>6, <1>7 DEF r, was

\* All that a surface has goes with it.
LEMMA FinishedIs ==
    ASSUME NEW use, Good(use), NEW s \in Surfaces
    PROVE  LET r == Finished(use, s) IN
           /\ Good(r)
           /\ Shows(use, r, s, TRUE, NULL)
           /\ r.frames = [use.frames EXCEPT ![s] = {}]
           /\ r.pending = [use.pending EXCEPT ![s] = Empty]
           /\ r.cached = [use.cached EXCEPT ![s] = EmptyCache]
<1> DEFINE u == Held(use, s, NULL)
           v == Attached(u, s, NULL)
           r == Finished(use, s)
           calls == [use.frames EXCEPT ![s] = {}]
           pends == [use.pending EXCEPT ![s] = Empty]
           caches == [use.cached EXCEPT ![s] = EmptyCache]
<1>1. /\ u \in UseType /\ Counted(u) /\ Fair(u, NULL) /\ Alike(use, u)
      /\ u.held = [use.held EXCEPT ![s] = NULL] /\ u.buffer = use.buffer
      /\ u.drawn = use.drawn /\ u.copy = use.copy
  BY HeldIs DEF Good
<1> HIDE DEF u
<1>2. /\ v \in UseType /\ Counted(v) /\ Fair(v, NULL) /\ Alike(u, v)
      /\ v.drawn = [u.drawn EXCEPT ![s] = NULL] /\ v.held = u.held
      /\ v.copy = [u.copy EXCEPT ![s] = NULL] /\ Drawing(v)
  <2>1. Drawing(u)
    BY <1>1 DEF Good, Drawing
  <2> QED BY <1>1, <2>1, AttachedIs
<1> HIDE DEF v
<1>3. /\ calls \in [Surfaces -> SUBSET Frames]
      /\ pends \in [Surfaces -> StateType] /\ caches \in [Surfaces -> CacheType]
  BY UseFields, Empties DEF Good
<1>4. r = [v EXCEPT !.pending = [v.pending EXCEPT ![s] = Empty],
                    !.cached = [v.cached EXCEPT ![s] = EmptyCache],
                    !.frames = [v.frames EXCEPT ![s] = {}]]
  BY <1>2 DEF Finished, UseType, v, u
<1> HIDE DEF r
<1>5. r = [v EXCEPT !.pending = pends, !.cached = caches, !.frames = calls]
  BY <1>1, <1>2, <1>4 DEF Alike
<1> HIDE DEF calls, pends, caches
<1>6. r \in UseType /\ Same(v, r) /\ r.frames = calls
      /\ r.cached = caches /\ r.pending = pends
      /\ r.busy = v.busy /\ r.lent = v.lent
  BY <1>2, <1>3, <1>5 DEF UseType, Same
<1>7. Counted(r) /\ Fair(r, NULL) /\ Drawing(r)
  BY <1>2, <1>6 DEF Counted, Fair, Drawing, Same
<1>8. ASSUME NEW t \in Surfaces
      PROVE  /\ caches[t].buffer = r.held[t]
             /\ ~caches[t].has => caches[t] = EmptyCache
             /\ ~pends[t].newly => pends[t].buffer = NULL
  <2>1. /\ use.held \in [Surfaces -> Buffers \cup {NULL}]
        /\ use.cached \in [Surfaces -> CacheType]
        /\ use.pending \in [Surfaces -> StateType]
    BY UseFields DEF Good
  <2>2. r.held = [use.held EXCEPT ![s] = NULL]
    BY <1>1, <1>2, <1>6 DEF Same
  <2>3. /\ use.cached[t].buffer = use.held[t]
        /\ ~use.cached[t].has => use.cached[t] = EmptyCache
        /\ ~use.pending[t].newly => use.pending[t].buffer = NULL
    BY DEF Good, Kept
  <2>4. CASE t = s
    BY <2>1, <2>2, <2>4, Empties DEF caches, pends
  <2>5. CASE t # s
    BY <2>1, <2>2, <2>3, <2>5 DEF caches, pends
  <2> QED BY <2>4, <2>5
<1>9. Kept(r)
  BY <1>6, <1>8 DEF Kept
<1>10. Shows(use, r, s, TRUE, NULL)
  BY <1>1, <1>2, <1>6 DEF Shows, Same
<1> QED BY <1>6, <1>7, <1>9, <1>10 DEF Good, r, calls, pends, caches

-----------------------------------------------------------------------------
(* Repainting leaves what is shown.                                        *)

ShownIn(use, s) == IF use.drawn[s] # NULL THEN use.drawn[s] ELSE use.copy[s]
IsCopy(use, s) == use.drawn[s] = NULL /\ use.copy[s] # NULL

\* r shows what use did, if not from the same place; only s may be copied.
Repainted(use, r, s) ==
    \A t \in Surfaces :
        /\ ShownIn(r, t) = ShownIn(use, t)
        /\ IsCopy(use, t) => IsCopy(r, t)
        /\ IsCopy(r, t) => t = s \/ IsCopy(use, t)

\* A surface that is composited is copied, if its buffer can be.
LEMMA FlushedIs ==
    ASSUME NEW use, Good(use), NEW s \in Surfaces
    PROVE  LET r == Flushed(use, s) IN
           /\ Good(r) /\ r.frames = use.frames /\ r.cached = use.cached
           /\ r.pending = use.pending /\ Repainted(use, r, s)
           /\ r.drawn[s] \notin Copied
<1> DEFINE r == Flushed(use, s)
<1>1. CASE use.buffer[s] \in Copied /\ use.drawn[s] # NULL
  <2> DEFINE v == Drawn(use, s, NULL)
             copies == [use.copy EXCEPT ![s] = use.drawn[s]]
  <2>0. /\ use.drawn \in [Surfaces -> Buffers \cup {NULL}]
        /\ use.copy \in [Surfaces -> Buffers \cup {NULL}]
    BY UseFields DEF Good
  <2>1. /\ v \in UseType /\ Counted(v) /\ Fair(v, NULL) /\ Alike(use, v)
        /\ v.drawn = [use.drawn EXCEPT ![s] = NULL]
        /\ v.held = use.held /\ v.buffer = use.buffer /\ v.copy = use.copy
    BY DrawnIs DEF Good
  <2>2. r = [v EXCEPT !.copy = copies]
    BY <1>1, <2>1 DEF Flushed, UseType
  <2>3. copies \in [Surfaces -> Buffers \cup {NULL}]
    BY <2>0
  <2> HIDE DEF v, r, copies
  <2>4. /\ r \in UseType /\ r.copy = copies /\ r.drawn = v.drawn
        /\ r.held = v.held /\ r.buffer = v.buffer
        /\ Alike(use, r) /\ r.busy = v.busy /\ r.lent = v.lent
    BY <2>1, <2>2, <2>3 DEF UseType, Alike
  <2>5. Counted(r) /\ Fair(r, NULL)
    BY <2>1, <2>4 DEF Counted, Fair
  <2>6. Kept(r)
    BY <2>1, <2>4 DEF Good, Kept, Alike
  <2>7. Drawing(r)
    BY <2>0, <2>1, <2>4, NullAssumption, CopiedAssumption
       DEF Good, Drawing, copies
  <2>8. Repainted(use, r, s)
    BY <1>1, <2>0, <2>1, <2>4 DEF Repainted, ShownIn, IsCopy, copies
  <2>9. r.drawn[s] \notin Copied
    BY <2>0, <2>1, <2>4, NullAssumption, CopiedAssumption
  <2> QED BY <2>4, <2>5, <2>6, <2>7, <2>8, <2>9 DEF Good, Alike, r
<1>2. CASE ~(use.buffer[s] \in Copied /\ use.drawn[s] # NULL)
  <2>1. r = use
    BY <1>2 DEF Flushed
  <2>2. use.drawn[s] \notin Copied
    BY <1>2, NullAssumption, CopiedAssumption DEF Good, Drawing
  <2> QED BY <2>1, <2>2 DEF Repainted
<1> QED BY <1>1, <1>2

\* A surface lets go of a buffer only when the renderer does not have to see
\* it again.
LEMMA PaintedIs ==
    ASSUME NEW use, Good(use), NEW s \in Surfaces,
           NEW composited \in BOOLEAN, NEW keep \in BOOLEAN,
           composited \/ keep \/ use.buffer[s] \notin Copied
    PROVE  LET r == Painted(use, s, composited, keep) IN
           /\ Good(r) /\ r.frames = use.frames /\ r.cached = use.cached
           /\ r.pending = use.pending /\ Repainted(use, r, s)
<1> DEFINE u == IF composited THEN Flushed(use, s) ELSE use
           v == Based(u, s, NULL)
           r == Painted(use, s, composited, keep)
<1>1. /\ Good(u) /\ u.frames = use.frames /\ u.cached = use.cached
      /\ u.pending = use.pending /\ Repainted(use, u, s)
      /\ keep \/ u.drawn[s] \notin Copied
  <2>1. CASE composited
    <3>1. u = Flushed(use, s)
      BY <2>1
    <3> HIDE DEF u
    <3> QED BY <3>1, FlushedIs
  <2>2. CASE ~composited
    <3>1. u = use
      BY <2>2
    <3>2. keep \/ use.drawn[s] \notin Copied
      BY <2>2 DEF Good, Drawing
    <3> HIDE DEF u
    <3> QED BY <3>1, <3>2 DEF Repainted
  <2> QED BY <2>1, <2>2
<1>2. r = IF keep THEN u ELSE v
  BY DEF Painted
<1> HIDE DEF u, r
<1>3. CASE keep
  BY <1>1, <1>2, <1>3 DEF r
<1>4. CASE ~keep
  <2>1. /\ v \in UseType /\ Counted(v) /\ Fair(v, NULL) /\ Alike(u, v)
        /\ v.buffer = [u.buffer EXCEPT ![s] = NULL]
        /\ v.held = u.held /\ v.drawn = u.drawn /\ v.copy = u.copy
    BY <1>1, BasedIs DEF Good
  <2>2. u.buffer \in [Surfaces -> Buffers \cup {NULL}]
    BY <1>1, UseFields DEF Good
  <2> HIDE DEF v
  <2>3. Kept(v)
    BY <1>1, <2>1 DEF Good, Kept, Alike
  <2>4. Drawing(v)
    BY <1>1, <1>4, <2>1, <2>2 DEF Good, Drawing
  <2>5. Repainted(use, v, s)
    BY <1>1, <2>1 DEF Repainted, ShownIn, IsCopy
  <2>6. r = v
    BY <1>2, <1>4
  <2> QED BY <1>1, <2>1, <2>3, <2>4, <2>5, <2>6 DEF Good, Alike, r
<1> QED BY <1>3, <1>4

-----------------------------------------------------------------------------
(* The surfaces stay trees.                                                *)

TreeOK ==
    /\ subs \subseteq alive /\ alive \subseteq Surfaces
    /\ synchronized \subseteq subs
    /\ parent \in [Surfaces -> alive \cup {NULL}]
    /\ \A s \in Surfaces : parent[s] # NULL => s \in subs
    /\ NoCircle

\* What a step leaves above a surface is within any set that holds it and
\* the parents that all in it then have.
LEMMA UpToNext ==
    ASSUME NEW s \in Surfaces, NEW A \in SUBSET Surfaces, s \in A,
           \A t \in A : parent'[t] \in A \cup {NULL}
    PROVE  UpTo(s)' \subseteq A
BY DEF UpTo, ParentClosed

\* What no sub-surface may be after a step: above itself.
LEMMA NoCircleNext ==
    ASSUME subs' \subseteq Surfaces,
           parent' \in [Surfaces -> Surfaces \cup {NULL}],
           \A t \in subs' : \A q \in Surfaces : parent'[t] = q => t \notin UpTo(q)'
    PROVE  NoCircle'
BY DEF NoCircle, UpTo

\* A step that moves no sub-surface keeps the tree.
LEMMA TreeStays ==
    ASSUME TreeOK, parent' = parent, subs' = subs, alive \subseteq alive',
           alive' \subseteq Surfaces, synchronized' \subseteq subs
    PROVE  TreeOK'
<1>1. parent' \in [Surfaces -> alive' \cup {NULL}]
  BY DEF TreeOK
<1>2. NoCircle'
  BY DEF TreeOK, NoCircle, UpTo, ParentClosed
<1> QED BY <1>1, <1>2 DEF TreeOK

\* Nor does one that takes sub-surfaces from it.
LEMMA TreeShrinks ==
    ASSUME TreeOK, subs' \subseteq subs, subs' \subseteq alive',
           alive' \subseteq alive, synchronized' \subseteq subs',
           parent' \in [Surfaces -> alive' \cup {NULL}],
           \A t \in Surfaces : parent'[t] \in {parent[t], NULL},
           \A t \in subs \ subs' : parent'[t] = NULL
    PROVE  TreeOK'
<1>1. /\ parent \in [Surfaces -> Surfaces \cup {NULL}]
      /\ parent' \in [Surfaces -> Surfaces \cup {NULL}]
  BY DEF TreeOK
<1>2. ASSUME NEW t \in subs', NEW q \in Surfaces, parent'[t] = q
      PROVE  t \notin UpTo(q)'
  <2>1. t \in subs /\ t \in Surfaces /\ parent[t] = q /\ q # NULL
    BY <1>1, <1>2, NullAssumption DEF TreeOK
  <2>2. t \notin UpTo(q)
    BY <2>1 DEF TreeOK, NoCircle
  <2>3. UpTo(q)' \subseteq UpTo(q)
    <3>1. UpTo(q) \subseteq Surfaces
      BY DEF UpTo
    <3> QED BY <1>1, <3>1, UpToFewer
  <2> QED BY <2>2, <2>3
<1>3. NoCircle'
  BY <1>1, <1>2, NoCircleNext DEF TreeOK
<1>4. \A s \in Surfaces : parent'[s] # NULL => s \in subs'
  BY DEF TreeOK
<1> QED BY <1>3, <1>4 DEF TreeOK

\* Nor one that links a surface to another that is not under it.
LEMMA TreeGrows ==
    ASSUME TreeOK, NEW s \in Surfaces, NEW p \in Surfaces, GetSubsurface(s, p)
    PROVE  TreeOK'
<1>1. /\ parent \in [Surfaces -> Surfaces \cup {NULL}]
      /\ parent' = [parent EXCEPT ![s] = p]
      /\ parent' \in [Surfaces -> alive' \cup {NULL}]
      /\ subs' = subs \cup {s} /\ synchronized' = synchronized \cup {s}
      /\ alive' = alive /\ {s, p} \subseteq alive /\ s \notin subs
  BY DEF GetSubsurface, TreeOK
<1> DEFINE B == UpTo(p)
<1>2. /\ s \notin B /\ p \in B /\ B \in SUBSET Surfaces
      /\ \A t \in B : parent[t] \in B \cup {NULL}
  BY <1>1, UpToLeast DEF GetSubsurface
<1>3. UpTo(p)' \subseteq B
  <2>1. \A t \in B : parent'[t] \in B \cup {NULL}
    BY <1>1, <1>2
  <2> QED BY <1>2, <2>1, UpToNext
<1>4. ASSUME NEW t \in subs, t # s, NEW q \in Surfaces, q = parent[t], q # NULL
      PROVE  t \notin UpTo(q)'
  <2>1. t \in Surfaces /\ t \notin UpTo(q)
    BY <1>1, <1>4 DEF TreeOK, NoCircle
  <2> DEFINE A == UpTo(q)
  <2>2. q \in A /\ A \in SUBSET Surfaces
        /\ \A u \in A : parent[u] \in A \cup {NULL}
    BY <1>1, UpToLeast
  <2>3. CASE s \notin A
    <3>1. \A u \in A : parent'[u] \in A \cup {NULL}
      BY <1>1, <2>2, <2>3
    <3>2. UpTo(q)' \subseteq A
      BY <2>2, <3>1, UpToNext
    <3> QED BY <2>1, <3>2
  <2>4. CASE s \in A
    <3>1. \A u \in A \cup B : parent'[u] \in A \cup B \cup {NULL}
      BY <1>1, <1>2, <2>2
    <3>2. UpTo(q)' \subseteq A \cup B
      <4> HIDE DEF A, B
      <4> QED BY <1>2, <2>2, <3>1, UpToNext
    <3>3. UpTo(t) = {t} \cup UpTo(q)
      BY <1>1, <1>4, <2>1, UpToParent
    <3>4. t \notin B
      BY <1>1, <1>2, <2>4, <3>3, UpToUp
    <3> QED BY <2>1, <3>2, <3>4
  <2> QED BY <2>3, <2>4
<1>5. ASSUME NEW t \in subs', NEW q \in Surfaces, parent'[t] = q
      PROVE  t \notin UpTo(q)'
  <2>1. CASE t = s
    <3>1. q = p
      BY <1>1, <1>5, <2>1
    <3> QED BY <1>2, <1>3, <2>1, <3>1
  <2>2. CASE t # s
    <3>1. t \in subs /\ parent[t] = q /\ q # NULL
      BY <1>1, <1>5, <2>2, NullAssumption DEF TreeOK
    <3> QED BY <1>4, <2>2, <3>1
  <2> QED BY <2>1, <2>2
<1>6. NoCircle'
  BY <1>1, <1>5, NoCircleNext DEF TreeOK
<1>7. \A t \in Surfaces : parent'[t] # NULL => t \in subs'
  BY <1>1 DEF TreeOK
<1> QED BY <1>1, <1>6, <1>7 DEF TreeOK

-----------------------------------------------------------------------------
(* The inductive invariant.                                                *)

IInv ==
    /\ TreeOK
    /\ Good(Use)
    /\ \A s \in Surfaces : cached[s].has => s \in subs
    /\ flushing \subseteq subs

\* The fields of the record of the references.
LEMMA UseIs ==
    /\ Use.held = held /\ Use.buffer = buffer /\ Use.drawn = drawn
    /\ Use.copy = copy /\ Use.frames = frames
    /\ Use.cached = cached /\ Use.pending = pending
    /\ Use.busy = busy_count /\ Use.lent = lent
BY DEF Use

\* A step that works out a use leaves it in the variables.
LEMMA UsesIs ==
    ASSUME NEW use \in UseType, Uses(use)
    PROVE  Use' = use
BY DEF Uses, Use, UseType

\* The variables have the types of the record's fields.
LEMMA Types ==
    ASSUME Good(Use)
    PROVE  /\ held \in [Surfaces -> Buffers \cup {NULL}]
           /\ buffer \in [Surfaces -> Buffers \cup {NULL}]
           /\ drawn \in [Surfaces -> Buffers \cup {NULL}]
           /\ copy \in [Surfaces -> Buffers \cup {NULL}]
           /\ frames \in [Surfaces -> SUBSET Frames]
           /\ cached \in [Surfaces -> CacheType]
           /\ pending \in [Surfaces -> StateType]
           /\ busy_count \in [Buffers -> Nat]
           /\ lent \in SUBSET Buffers
BY UseIs, UseFields DEF Good

\* A step that changes what is pending, or waits to be called.
LEMMA PendingChanged ==
    ASSUME Good(Use), UNCHANGED <<use_vars, cached>>,
           pending' \in [Surfaces -> StateType],
           frames' \in [Surfaces -> SUBSET Frames],
           \A s \in Surfaces : ~pending'[s].newly => pending'[s].buffer = NULL
    PROVE  Good(Use')
<1>1. /\ Use'.held = Use.held /\ Use'.buffer = Use.buffer
      /\ Use'.drawn = Use.drawn /\ Use'.copy = Use.copy
      /\ Use'.cached = Use.cached /\ Use'.busy = Use.busy /\ Use'.lent = Use.lent
      /\ Use'.pending = pending' /\ Use'.frames = frames'
  BY DEF Use, use_vars
<1>2. Use' \in UseType
  BY Types DEF Use, use_vars, UseType
<1> QED BY <1>1, <1>2 DEF Good, Counted, Fair, Kept, Drawing

\* A buffer that is gone is nowhere.
LEMMA GoneIsNowhere ==
    ASSUME Good(Use), NEW b \in Buffers, BufferDestroyed(b)
    PROVE  Good(Use')
<1>1. /\ held \in [Surfaces -> Buffers \cup {NULL}]
      /\ buffer \in [Surfaces -> Buffers \cup {NULL}]
      /\ drawn \in [Surfaces -> Buffers \cup {NULL}]
      /\ copy \in [Surfaces -> Buffers \cup {NULL}]
      /\ frames \in [Surfaces -> SUBSET Frames]
      /\ cached \in [Surfaces -> CacheType]
      /\ pending \in [Surfaces -> StateType]
      /\ busy_count \in [Buffers -> Nat]
      /\ lent \in SUBSET Buffers
  BY Types
<1>2. /\ held' = [s \in Surfaces |-> IF held[s] = b THEN NULL ELSE held[s]]
      /\ buffer' = [s \in Surfaces |-> IF buffer[s] = b THEN NULL ELSE buffer[s]]
      /\ drawn' = [s \in Surfaces |-> IF drawn[s] = b THEN NULL ELSE drawn[s]]
      /\ busy_count' = [busy_count EXCEPT ![b] = 0]
      /\ lent' = lent \ {b} /\ frames' = frames /\ copy' = copy
  BY DEF BufferDestroyed
<1>3. ASSUME NEW s \in Surfaces
      PROVE  /\ pending'[s] = IF pending[s].buffer = b
                   THEN [pending[s] EXCEPT !.buffer = NULL] ELSE pending[s]
             /\ cached'[s] = IF cached[s].buffer = b
                   THEN [cached[s] EXCEPT !.buffer = NULL] ELSE cached[s]
  BY DEF BufferDestroyed
<1>4. pending' \in [Surfaces -> StateType] /\ cached' \in [Surfaces -> CacheType]
  <2>1. pending' = [s \in Surfaces |-> IF pending[s].buffer = b
                   THEN [pending[s] EXCEPT !.buffer = NULL] ELSE pending[s]]
    BY DEF BufferDestroyed
  <2>2. cached' = [s \in Surfaces |-> IF cached[s].buffer = b
                   THEN [cached[s] EXCEPT !.buffer = NULL] ELSE cached[s]]
    BY DEF BufferDestroyed
  <2>3. \A s \in Surfaces : [pending[s] EXCEPT !.buffer = NULL] \in StateType
    BY <1>1 DEF StateType
  <2>4. \A s \in Surfaces : [cached[s] EXCEPT !.buffer = NULL] \in CacheType
    BY <1>1 DEF CacheType
  <2> QED BY <1>1, <2>1, <2>2, <2>3, <2>4
<1>5. held' \in [Surfaces -> Buffers \cup {NULL}]
      /\ buffer' \in [Surfaces -> Buffers \cup {NULL}]
      /\ drawn' \in [Surfaces -> Buffers \cup {NULL}]
      /\ busy_count' \in [Buffers -> Nat] /\ lent' \in SUBSET Buffers
  BY <1>1, <1>2
<1>6. Use' \in UseType
  BY <1>1, <1>2, <1>4, <1>5 DEF Use, UseType
<1>7. ASSUME NEW f \in [Surfaces -> Buffers \cup {NULL}], NEW g,
             g = [s \in Surfaces |-> IF f[s] = b THEN NULL ELSE f[s]],
             NEW c \in Buffers
      PROVE  Count(g, c) = IF c = b THEN 0 ELSE Count(f, c)
  <2>1. CASE c = b
    <3>1. {s \in Surfaces : g[s] = c} = {}
      BY <1>7, <2>1, NullAssumption
    <3> QED BY <2>1, <3>1, FS_EmptySet DEF Count
  <2>2. CASE c # b
    <3>1. {s \in Surfaces : g[s] = c} = {s \in Surfaces : f[s] = c}
      BY <1>7, <2>2, NullAssumption
    <3> QED BY <2>2, <3>1 DEF Count
  <2> QED BY <2>1, <2>2
<1>8. \A c \in Buffers :
         busy_count[c] = Count(held, c) + Count(buffer, c) + Count(drawn, c)
  BY UseIs DEF Good, Counted
<1>9. ASSUME NEW c \in Buffers
      PROVE  busy_count'[c] =
                 Count(held', c) + Count(buffer', c) + Count(drawn', c)
  <2>1. /\ Count(held', c) = IF c = b THEN 0 ELSE Count(held, c)
        /\ Count(buffer', c) = IF c = b THEN 0 ELSE Count(buffer, c)
        /\ Count(drawn', c) = IF c = b THEN 0 ELSE Count(drawn, c)
    BY <1>1, <1>2, <1>7
  <2> QED BY <1>1, <1>2, <1>8, <2>1
<1>10. ASSUME NEW c \in Buffers
       PROVE  c \in lent' <=> busy_count'[c] > 0 \/ c = NULL
  <2>1. c \in lent <=> busy_count[c] > 0
    BY UseIs, NullAssumption DEF Good, Fair
  <2> QED BY <1>1, <1>2, <2>1, NullAssumption
<1>11. ASSUME NEW s \in Surfaces
       PROVE  /\ cached'[s].buffer = held'[s]
              /\ ~cached'[s].has => cached'[s] = EmptyCache
              /\ ~pending'[s].newly => pending'[s].buffer = NULL
  <2>1. /\ cached[s].buffer = held[s]
        /\ ~cached[s].has => cached[s] = EmptyCache
        /\ ~pending[s].newly => pending[s].buffer = NULL
    BY UseIs DEF Good, Kept
  <2>2. cached[s] \in CacheType /\ pending[s] \in StateType
    BY <1>1
  <2>3. /\ cached'[s].buffer = IF cached[s].buffer = b THEN NULL ELSE cached[s].buffer
        /\ cached'[s].has = cached[s].has
        /\ cached[s].buffer # b => cached'[s] = cached[s]
    BY <1>3, <2>2 DEF CacheType
  <2>4. /\ pending'[s].buffer = IF pending[s].buffer = b THEN NULL ELSE pending[s].buffer
        /\ pending'[s].newly = pending[s].newly
    BY <1>3, <2>2 DEF StateType
  <2> QED BY <1>2, <2>1, <2>3, <2>4, Empties, NullAssumption
<1>12. Use'.held = held' /\ Use'.buffer = buffer' /\ Use'.drawn = drawn'
       /\ Use'.copy = copy' /\ Use'.cached = cached'
       /\ Use'.pending = pending' /\ Use'.busy = busy_count' /\ Use'.lent = lent'
  BY DEF Use
<1>13. Drawing(Use')
  <2>1. \A s \in Surfaces :
           /\ drawn[s] # NULL => copy[s] = NULL
           /\ drawn[s] \in Copied => buffer[s] = drawn[s]
    BY UseIs DEF Good, Drawing
  <2> QED BY <1>1, <1>2, <1>12, <2>1, NullAssumption, CopiedAssumption DEF Drawing
<1> QED BY <1>6, <1>9, <1>10, <1>11, <1>12, <1>13 DEF Good, Counted, Fair, Kept

\* At first there are no references.
LEMMA InitIInv ==
    ASSUME Init
    PROVE  IInv
<1>1. TreeOK
  BY DEF Init, TreeOK, NoCircle
<1>2. Use \in UseType
  BY Empties DEF Init, Use, UseType
<1>3. Counted(Use)
  <2>1. ASSUME NEW b \in Buffers
        PROVE  Count(held, b) = 0 /\ Count(buffer, b) = 0 /\ Count(drawn, b) = 0
    <3>1. /\ {s \in Surfaces : held[s] = b} = {}
          /\ {s \in Surfaces : buffer[s] = b} = {}
          /\ {s \in Surfaces : drawn[s] = b} = {}
      BY NullAssumption DEF Init
    <3> QED BY <3>1, FS_EmptySet DEF Count
  <2>2. \A b \in Buffers : busy_count[b] = 0
    BY DEF Init
  <2> QED BY <2>1, <2>2, UseIs DEF Counted
<1>4. Fair(Use, NULL)
  <2>1. \A b \in Buffers : busy_count[b] = 0 /\ b \notin lent
    BY DEF Init
  <2> QED BY <2>1, UseIs, NullAssumption DEF Fair
<1>5. Kept(Use)
  BY UseIs, Empties DEF Init, Kept
<1>6. Drawing(Use)
  BY UseIs, NullAssumption, CopiedAssumption DEF Init, Drawing
<1> QED BY <1>1, <1>2, <1>3, <1>4, <1>5, <1>6, Empties DEF IInv, Good, Init

-----------------------------------------------------------------------------
(* What the steps that move buffers do.                                    *)

\* A commit that waits.
LEMMA WaitingCommit ==
    ASSUME Good(Use), NEW s \in Surfaces, Uses(CommittedToCache(Use, s))
    PROVE  /\ Good(Use')
           /\ drawn' = drawn /\ copy' = copy /\ frames' = frames
           /\ pending' = [pending EXCEPT ![s] = Empty]
           /\ cached' = [cached EXCEPT ![s] =
                [has |-> TRUE, newly |-> cached[s].newly \/ pending[s].newly,
                 buffer |-> IF pending[s].newly THEN pending[s].buffer
                            ELSE cached[s].buffer,
                 frames |-> cached[s].frames \cup pending[s].frames]]
<1> DEFINE r == CommittedToCache(Use, s)
<1>1. /\ Good(r) /\ ShowsSame(Use, r) /\ r.frames = Use.frames
      /\ r.pending = [Use.pending EXCEPT ![s] = Empty]
      /\ r.cached = [Use.cached EXCEPT ![s] =
           [has |-> TRUE, newly |-> Use.cached[s].newly \/ Use.pending[s].newly,
            buffer |-> IF Use.pending[s].newly THEN Use.pending[s].buffer
                       ELSE Use.cached[s].buffer,
            frames |-> Use.cached[s].frames \cup Use.pending[s].frames]]
  BY CommittedToCacheIs
<1>2. Uses(r)
  OBVIOUS
<1> HIDE DEF r
<1>3. Use' = r
  BY <1>1, <1>2, UsesIs DEF Good
<1>4. /\ drawn' = r.drawn /\ copy' = r.copy /\ frames' = r.frames
      /\ pending' = r.pending /\ cached' = r.cached
  BY <1>2 DEF Uses
<1> QED BY <1>1, <1>3, <1>4, UseIs DEF ShowsSame

\* A surface shows b, if it is newly attached, and what it did if not.
ShowsNow(s, newly, b) ==
    /\ drawn' = [drawn EXCEPT ![s] = IF newly THEN b ELSE drawn[s]]
    /\ copy' = [copy EXCEPT ![s] = IF newly THEN NULL ELSE copy[s]]

\* One that shows what is next: what is pending, or else cached.
LEMMA ShowingCommit ==
    ASSUME Good(Use), NEW s \in Surfaces,
           Uses(IF cached[s].has
                THEN CommittedFromCache(CommittedToCache(Use, s), s)
                ELSE Committed(Use, s))
    PROVE  /\ Good(Use')
           /\ ShowsNow(s, cached[s].newly \/ pending[s].newly,
                IF pending[s].newly THEN pending[s].buffer ELSE cached[s].buffer)
           /\ frames' = [frames EXCEPT ![s] =
                frames[s] \cup cached[s].frames \cup pending[s].frames]
           /\ pending' = [pending EXCEPT ![s] = Empty]
           /\ cached' = [cached EXCEPT ![s] = EmptyCache]
<1> DEFINE r == IF cached[s].has
                THEN CommittedFromCache(CommittedToCache(Use, s), s)
                ELSE Committed(Use, s)
           what == IF pending[s].newly THEN pending[s].buffer ELSE cached[s].buffer
<1>0. /\ cached \in [Surfaces -> CacheType] /\ pending \in [Surfaces -> StateType]
      /\ drawn \in [Surfaces -> Buffers \cup {NULL}]
      /\ copy \in [Surfaces -> Buffers \cup {NULL}]
      /\ frames \in [Surfaces -> SUBSET Frames]
  BY Types
<1>1. /\ Good(r)
      /\ Shows(Use, r, s, cached[s].newly \/ pending[s].newly, what)
      /\ r.frames = [frames EXCEPT ![s] =
           frames[s] \cup cached[s].frames \cup pending[s].frames]
      /\ r.pending = [pending EXCEPT ![s] = Empty]
      /\ r.cached = [cached EXCEPT ![s] = EmptyCache]
  <2>1. CASE cached[s].has
    <3> DEFINE u == CommittedToCache(Use, s)
               v == CommittedFromCache(u, s)
    <3>1. /\ Good(u) /\ ShowsSame(Use, u) /\ u.frames = Use.frames
          /\ u.pending = [Use.pending EXCEPT ![s] = Empty]
          /\ u.cached = [Use.cached EXCEPT ![s] =
               [has |-> TRUE,
                newly |-> Use.cached[s].newly \/ Use.pending[s].newly,
                buffer |-> IF Use.pending[s].newly THEN Use.pending[s].buffer
                           ELSE Use.cached[s].buffer,
                frames |-> Use.cached[s].frames \cup Use.pending[s].frames]]
      BY CommittedToCacheIs
    <3> HIDE DEF u
    <3>2. /\ Good(v)
          /\ Shows(u, v, s, u.cached[s].newly, u.cached[s].buffer)
          /\ v.frames = [u.frames EXCEPT ![s] = u.frames[s] \cup u.cached[s].frames]
          /\ v.pending = u.pending
          /\ v.cached = [u.cached EXCEPT ![s] = EmptyCache]
      BY <3>1, CommittedFromCacheIs
    <3>3. r = v
      BY <2>1 DEF u
    <3> HIDE DEF v, r
    <3>4. u.cached[s] =
             [has |-> TRUE, newly |-> cached[s].newly \/ pending[s].newly,
              buffer |-> IF pending[s].newly THEN pending[s].buffer
                         ELSE cached[s].buffer,
              frames |-> cached[s].frames \cup pending[s].frames]
      BY <1>0, <3>1, UseIs
    <3>5. /\ u.cached[s].newly = (cached[s].newly \/ pending[s].newly)
          /\ u.cached[s].buffer = what
          /\ u.cached[s].frames = cached[s].frames \cup pending[s].frames
      BY <3>4
    <3>6. Shows(Use, v, s, cached[s].newly \/ pending[s].newly, what)
      BY <3>1, <3>2, <3>5 DEF Shows, ShowsSame
    <3>7. v.frames = [frames EXCEPT ![s] =
            frames[s] \cup cached[s].frames \cup pending[s].frames]
      <4>1. u.frames = frames
        BY <3>1, UseIs
      <4>2. frames[s] \cup u.cached[s].frames =
              frames[s] \cup cached[s].frames \cup pending[s].frames
        BY <3>5
      <4> QED BY <3>2, <4>1, <4>2
    <3>8. v.cached = [cached EXCEPT ![s] = EmptyCache]
      BY <1>0, <3>1, <3>2, UseIs
    <3>9. v.pending = [pending EXCEPT ![s] = Empty]
      BY <3>1, <3>2, UseIs
    <3> QED BY <3>2, <3>3, <3>6, <3>7, <3>8, <3>9
  <2>2. CASE ~cached[s].has
    <3> DEFINE v == Committed(Use, s)
    <3>1. /\ Good(v)
          /\ Shows(Use, v, s, Use.pending[s].newly, Use.pending[s].buffer)
          /\ v.frames = [Use.frames EXCEPT ![s] =
                Use.frames[s] \cup Use.pending[s].frames]
          /\ v.pending = [Use.pending EXCEPT ![s] = Empty]
          /\ v.cached = Use.cached
      BY CommittedIs
    <3>2. cached[s] = EmptyCache
      BY <2>2, UseIs DEF Good, Kept
    <3>3. ~cached[s].newly /\ cached[s].frames = {}
          /\ cached = [cached EXCEPT ![s] = EmptyCache]
      BY <1>0, <3>2, Empties
    <3>4. r = v
      BY <2>2
    <3> HIDE DEF v, r
    <3>5. frames[s] \cup cached[s].frames \cup pending[s].frames =
            frames[s] \cup pending[s].frames
      BY <3>3
    <3>6. /\ v.frames = [frames EXCEPT ![s] =
                frames[s] \cup cached[s].frames \cup pending[s].frames]
          /\ v.pending = [pending EXCEPT ![s] = Empty]
          /\ v.cached = [cached EXCEPT ![s] = EmptyCache]
      BY <3>1, <3>3, <3>5, UseIs
    <3>7. Shows(Use, v, s, cached[s].newly \/ pending[s].newly, what)
      BY <1>0, <3>1, <3>3, UseIs DEF Shows
    <3> QED BY <3>1, <3>4, <3>6, <3>7
  <2> QED BY <2>1, <2>2
<1>2. Uses(r)
  OBVIOUS
<1> HIDE DEF r, what
<1>3. Use' = r
  BY <1>1, <1>2, UsesIs DEF Good
<1>4. /\ drawn' = r.drawn /\ copy' = r.copy /\ frames' = r.frames
      /\ pending' = r.pending /\ cached' = r.cached
  BY <1>2 DEF Uses
<1> QED BY <1>1, <1>3, <1>4, UseIs DEF Shows, ShowsNow, what

\* A cache is committed.
LEMMA CacheCommit ==
    ASSUME Good(Use), NEW s \in Surfaces, Uses(CommittedFromCache(Use, s))
    PROVE  /\ Good(Use')
           /\ ShowsNow(s, cached[s].newly, cached[s].buffer)
           /\ frames' = [frames EXCEPT ![s] = frames[s] \cup cached[s].frames]
           /\ pending' = pending
           /\ cached' = [cached EXCEPT ![s] = EmptyCache]
<1> DEFINE r == CommittedFromCache(Use, s)
<1>1. /\ Good(r)
      /\ Shows(Use, r, s, Use.cached[s].newly, Use.cached[s].buffer)
      /\ r.frames = [Use.frames EXCEPT ![s] =
                        Use.frames[s] \cup Use.cached[s].frames]
      /\ r.pending = Use.pending
      /\ r.cached = [Use.cached EXCEPT ![s] = EmptyCache]
  BY CommittedFromCacheIs
<1>2. Uses(r)
  OBVIOUS
<1> HIDE DEF r
<1>3. Use' = r
  BY <1>1, <1>2, UsesIs DEF Good
<1>4. /\ drawn' = r.drawn /\ copy' = r.copy /\ frames' = r.frames
      /\ pending' = r.pending /\ cached' = r.cached
  BY <1>2 DEF Uses
<1> QED BY <1>1, <1>3, <1>4, UseIs DEF Shows, ShowsNow

\* A sub-surface is one no longer.
LEMMA CacheDropped ==
    ASSUME Good(Use), NEW s \in Surfaces,
           Uses([Held(Use, s, NULL) EXCEPT !.cached[s] = EmptyCache])
    PROVE  /\ Good(Use')
           /\ drawn' = drawn /\ copy' = copy /\ frames' = frames
           /\ pending' = pending
           /\ cached' = [cached EXCEPT ![s] = EmptyCache]
<1> DEFINE r == Dropped(Use, s)
<1>1. /\ Good(r) /\ ShowsSame(Use, r) /\ r.frames = Use.frames
      /\ r.pending = Use.pending
      /\ r.cached = [Use.cached EXCEPT ![s] = EmptyCache]
  <2>1. /\ KeptBut(Use, s) /\ Use \in UseType /\ Counted(Use) /\ Fair(Use, NULL)
        /\ Drawing(Use)
    BY DEF Good, Kept, KeptBut
  <2> QED BY <2>1, DroppedIs
<1>2. Uses(r)
  BY DEF Dropped
<1> HIDE DEF r
<1>3. Use' = r
  BY <1>1, <1>2, UsesIs DEF Good
<1>4. /\ drawn' = r.drawn /\ copy' = r.copy /\ frames' = r.frames
      /\ pending' = r.pending /\ cached' = r.cached
  BY <1>2 DEF Uses
<1> QED BY <1>1, <1>3, <1>4, UseIs DEF ShowsSame

\* A surface is gone.
LEMMA SurfaceGone ==
    ASSUME Good(Use), NEW s \in Surfaces, Uses(Finished(Use, s))
    PROVE  /\ Good(Use')
           /\ ShowsNow(s, TRUE, NULL)
           /\ frames' = [frames EXCEPT ![s] = {}]
           /\ pending' = [pending EXCEPT ![s] = Empty]
           /\ cached' = [cached EXCEPT ![s] = EmptyCache]
<1> DEFINE r == Finished(Use, s)
<1>1. /\ Good(r)
      /\ Shows(Use, r, s, TRUE, NULL)
      /\ r.frames = [Use.frames EXCEPT ![s] = {}]
      /\ r.pending = [Use.pending EXCEPT ![s] = Empty]
      /\ r.cached = [Use.cached EXCEPT ![s] = EmptyCache]
  BY FinishedIs
<1>2. Uses(r)
  OBVIOUS
<1> HIDE DEF r
<1>3. Use' = r
  BY <1>1, <1>2, UsesIs DEF Good
<1>4. /\ drawn' = r.drawn /\ copy' = r.copy /\ frames' = r.frames
      /\ pending' = r.pending /\ cached' = r.cached
  BY <1>2 DEF Uses
<1> QED BY <1>1, <1>3, <1>4, UseIs DEF Shows, ShowsNow

\* A surface has been painted.
LEMMA SurfacePainted ==
    ASSUME Good(Use), NEW s \in Surfaces, Repaint(s)
    PROVE  /\ Good(Use')
           /\ frames' \in {frames, [frames EXCEPT ![s] = {}]}
           /\ pending' = pending /\ cached' = cached
           /\ Repainted(Use, Use', s)
<1>1. PICK composited \in BOOLEAN, keep \in BOOLEAN, left \in {{}, frames[s]} :
        /\ composited \/ keep \/ buffer[s] \notin Copied
        /\ Uses(Painted([Use EXCEPT !.frames[s] = left], s, composited, keep))
  BY DEF Repaint
<1> DEFINE use == [Use EXCEPT !.frames[s] = left]
           r == Painted(use, s, composited, keep)
           calls == [frames EXCEPT ![s] = left]
<1>2. frames \in [Surfaces -> SUBSET Frames]
  BY Types
<1>3. /\ calls \in [Surfaces -> SUBSET Frames]
      /\ calls \in {frames, [frames EXCEPT ![s] = {}]}
  BY <1>2
<1>4. use = [Use EXCEPT !.frames = calls]
  BY UseIs
<1>5. Uses(r)
  BY <1>1
<1> HIDE DEF r, use, calls
<1>6. /\ use \in UseType /\ Same(Use, use) /\ use.frames = calls
      /\ use.cached = cached /\ use.pending = pending
      /\ use.busy = busy_count /\ use.lent = lent
  BY <1>3, <1>4, UseIs DEF Good, UseType, Same
<1>7. Good(use)
  BY <1>6, UseIs DEF Good, Counted, Fair, Kept, Drawing, Same
<1>8. /\ Good(r) /\ r.frames = calls /\ r.cached = cached
      /\ r.pending = pending /\ Repainted(use, r, s)
  <2>1. composited \/ keep \/ use.buffer[s] \notin Copied
    BY <1>1, <1>6, UseIs DEF Same
  <2> QED BY <1>6, <1>7, <2>1, PaintedIs DEF r
<1>9. Repainted(Use, r, s)
  BY <1>6, <1>8 DEF Repainted, ShownIn, IsCopy, Same
<1>10. Use' = r
  BY <1>5, <1>8, UsesIs DEF Good
<1>11. frames' = r.frames /\ pending' = r.pending /\ cached' = r.cached
  BY <1>5 DEF Uses
<1> QED BY <1>3, <1>8, <1>9, <1>10, <1>11

-----------------------------------------------------------------------------
(* Every step keeps the invariant.                                         *)

\* Only sub-surfaces have caches to flush.
LEMMA FlushesSubs ==
    ASSUME IInv, NEW S \in SUBSET Surfaces, Flushes(S)
    PROVE  flushing' \subseteq subs
BY DEF IInv, Flushes

\* Trees are of surfaces.
LEMMA UnderType ==
    ASSUME NEW s
    PROVE  Under(s) \subseteq Surfaces /\ Dependents(s) \subseteq Surfaces
BY DEF Under, Dependents

\* A surface without a cache was not waiting for anything.
LEMMA CommitKeeps ==
    ASSUME IInv, NEW s \in Surfaces, Commit(s)
    PROVE  IInv'
<1>1. UNCHANGED tree_vars
  BY DEF Commit
<1>2. TreeOK'
  BY <1>1, TreeStays DEF IInv, TreeOK, tree_vars
<1>3. cached \in [Surfaces -> CacheType] /\ Good(Use)
  BY Types DEF IInv
<1>4. CASE /\ s \in subs /\ IsSynchronized(s, synchronized)
           /\ Uses(CommittedToCache(Use, s))
           /\ Flushes({})
  <2>1. flushing' \subseteq subs
    BY <1>4, FlushesSubs
  <2>2. /\ Good(Use')
        /\ \A t \in Surfaces \ {s} : cached'[t] = cached[t]
    BY <1>3, <1>4, WaitingCommit
  <2> QED BY <1>1, <1>2, <1>4, <2>1, <2>2 DEF IInv, tree_vars
<1>5. CASE /\ Uses(IF cached[s].has
                   THEN CommittedFromCache(CommittedToCache(Use, s), s)
                   ELSE Committed(Use, s))
           /\ Flushes(Dependents(s))
  <2>1. flushing' \subseteq subs
    BY <1>5, FlushesSubs, UnderType
  <2>2. Good(Use') /\ cached' = [cached EXCEPT ![s] = EmptyCache]
    BY <1>3, <1>5, ShowingCommit
  <2>3. \A t \in Surfaces : cached'[t].has => cached[t].has
    BY <1>3, <2>2, Empties
  <2> QED BY <1>1, <1>2, <2>1, <2>2, <2>3 DEF IInv, tree_vars
<1> QED BY <1>4, <1>5 DEF Commit

\* A cache that is applied leaves the references good.
LEMMA FlushKeeps ==
    ASSUME IInv, NEW s \in Surfaces, Flush(s)
    PROVE  IInv'
<1>1. UNCHANGED tree_vars /\ flushing' = flushing \ {s}
  BY DEF Flush
<1>2. TreeOK'
  BY <1>1, TreeStays DEF IInv, TreeOK, tree_vars
<1>3. cached \in [Surfaces -> CacheType]
  BY Types DEF IInv
<1>4. Good(Use') /\ cached' = [cached EXCEPT ![s] = EmptyCache]
  BY CacheCommit DEF Flush, IInv
<1>5. \A t \in Surfaces : cached'[t].has => cached[t].has
  BY <1>3, <1>4, Empties
<1> QED BY <1>1, <1>2, <1>4, <1>5 DEF IInv, tree_vars

\* A sub-surface that goes leaves the tree and loses its cache.
LEMMA SubsurfaceDestroyedKeeps ==
    ASSUME IInv, NEW s \in Surfaces, SubsurfaceDestroyed(s), flushing = {}
    PROVE  IInv'
<1>1. /\ subs' = subs \ {s} /\ synchronized' = synchronized \ {s}
      /\ parent' = [parent EXCEPT ![s] = NULL]
      /\ alive' = alive /\ flushing' = flushing
  BY DEF SubsurfaceDestroyed
<1>2. TreeOK'
  BY <1>1, TreeShrinks DEF IInv, TreeOK
<1>3. cached \in [Surfaces -> CacheType]
  BY Types DEF IInv
<1>4. Good(Use') /\ cached' = [cached EXCEPT ![s] = EmptyCache]
  BY CacheDropped DEF SubsurfaceDestroyed, IInv
<1>5. \A t \in Surfaces : cached'[t].has => cached[t].has /\ t # s
  BY <1>3, <1>4, Empties
<1> QED BY <1>1, <1>2, <1>4, <1>5 DEF IInv

\* A surface that goes loses its references, and its children their parent.
LEMMA DestroyedKeeps ==
    ASSUME IInv, NEW s \in Surfaces, Destroyed(s), flushing = {}
    PROVE  IInv'
<1>1. /\ subs' = subs \ {s} /\ synchronized' = synchronized \ {s}
      /\ parent' = [t \in Surfaces |->
                     IF t = s \/ parent[t] = s THEN NULL ELSE parent[t]]
      /\ alive' = alive \ {s} /\ flushing' = flushing
  BY DEF Destroyed
<1>2. TreeOK'
  BY <1>1, TreeShrinks DEF IInv, TreeOK
<1>3. cached \in [Surfaces -> CacheType]
  BY Types DEF IInv
<1>4. Good(Use') /\ cached' = [cached EXCEPT ![s] = EmptyCache]
  BY SurfaceGone DEF Destroyed, IInv
<1>5. \A t \in Surfaces : cached'[t].has => cached[t].has /\ t # s
  BY <1>3, <1>4, Empties
<1> QED BY <1>1, <1>2, <1>4, <1>5 DEF IInv

\* A buffer that goes is taken out of what is pending and cached.
LEMMA BufferDestroyedKeeps ==
    ASSUME IInv, NEW b \in Buffers, BufferDestroyed(b)
    PROVE  IInv'
<1>1. UNCHANGED tree_vars /\ flushing' = flushing
  BY DEF BufferDestroyed
<1>2. TreeOK'
  BY <1>1, TreeStays DEF IInv, TreeOK, tree_vars
<1>3. cached \in [Surfaces -> CacheType] /\ Good(Use')
  BY Types, GoneIsNowhere DEF IInv
<1>4. \A t \in Surfaces : cached'[t] = IF cached[t].buffer = b
                  THEN [cached[t] EXCEPT !.buffer = NULL] ELSE cached[t]
  BY DEF BufferDestroyed
<1>5. \A t \in Surfaces : cached'[t].has = cached[t].has
  BY <1>3, <1>4 DEF CacheType
<1> QED BY <1>1, <1>2, <1>3, <1>5 DEF IInv, tree_vars

\* A surface that is painted lets go of its buffer and calls back.
LEMMA RepaintKeeps ==
    ASSUME IInv, NEW s \in Surfaces, Repaint(s)
    PROVE  IInv'
<1>1. UNCHANGED tree_vars /\ flushing' = flushing
  BY DEF Repaint
<1>2. TreeOK'
  BY <1>1, TreeStays DEF IInv, TreeOK, tree_vars
<1>3. Good(Use') /\ cached' = cached
  BY SurfacePainted DEF IInv
<1> QED BY <1>1, <1>2, <1>3 DEF IInv, tree_vars

\* The requests that only change what is pending.
LEMMA PendingKeeps ==
    ASSUME IInv, NEW s \in Surfaces,
           \/ \E b \in Buffers \cup {NULL} : Attach(s, b)
           \/ \E f \in Frames : Frame(s, f)
    PROVE  IInv'
<1>0. /\ pending \in [Surfaces -> StateType] /\ Good(Use)
      /\ frames \in [Surfaces -> SUBSET Frames]
      /\ \A t \in Surfaces : ~pending[t].newly => pending[t].buffer = NULL
  BY Types, UseIs DEF IInv, Good, Kept
<1>1. UNCHANGED <<tree_vars, cached, use_vars, flushing>>
  BY DEF Attach, Frame
<1>2. TreeOK'
  BY <1>1, TreeStays DEF IInv, TreeOK, tree_vars
<1>3. Good(Use')
  <2>1. ASSUME NEW b \in Buffers \cup {NULL}, Attach(s, b)
        PROVE  Good(Use')
    <3> DEFINE state == [pending[s] EXCEPT !.newly = TRUE, !.buffer = b]
    <3>1. pending' = [pending EXCEPT ![s] = state]
      BY <1>0, <2>1 DEF Attach
    <3>2. state \in StateType /\ state.newly
      <4>1. ASSUME NEW was \in StateType
            PROVE  /\ [was EXCEPT !.newly = TRUE, !.buffer = b] \in StateType
                   /\ [was EXCEPT !.newly = TRUE, !.buffer = b].newly
        BY <2>1 DEF StateType
      <4> QED BY <1>0, <4>1
    <3>3. frames' = frames
      BY <2>1 DEF Attach
    <3> HIDE DEF state
    <3> QED BY <1>0, <1>1, <3>1, <3>2, <3>3, PendingChanged
  <2>2. ASSUME NEW f \in Frames, Frame(s, f)
        PROVE  Good(Use')
    <3> DEFINE state == [newly |-> pending[s].newly, buffer |-> pending[s].buffer,
                         frames |-> pending[s].frames \cup {f}]
    <3>1. pending' = [pending EXCEPT ![s] = state]
      <4>1. pending[s] \in StateType
        BY <1>0
      <4>2. [pending[s] EXCEPT !.frames = pending[s].frames \cup {f}] = state
        BY <4>1 DEF StateType
      <4>3. pending' = [pending EXCEPT ![s] =
                 [pending[s] EXCEPT !.frames = pending[s].frames \cup {f}]]
        BY <1>0, <2>2 DEF Frame
      <4> QED BY <4>2, <4>3
    <3>2. /\ state \in StateType
          /\ state.newly = pending[s].newly /\ state.buffer = pending[s].buffer
      BY <1>0 DEF StateType
    <3>3. frames' = frames
      BY <2>2 DEF Frame
    <3> HIDE DEF state
    <3>4. /\ pending' \in [Surfaces -> StateType]
          /\ \A t \in Surfaces : ~pending'[t].newly => pending'[t].buffer = NULL
      BY <1>0, <3>1, <3>2
    <3> QED BY <1>0, <1>1, <3>3, <3>4, PendingChanged
  <2> QED BY <2>1, <2>2
<1> QED BY <1>1, <1>2, <1>3 DEF IInv, tree_vars

\* Those that only change the tree.
LEMMA TreeKeeps ==
    ASSUME IInv, NEW s \in Surfaces, flushing = {},
           \/ Create(s) \/ Desync(s) \/ Sync(s)
           \/ \E p \in Surfaces : GetSubsurface(s, p)
    PROVE  IInv'
<1>1. UNCHANGED <<pending, cached, use_vars, frames>> /\ subs \subseteq subs'
  BY DEF Create, Desync, Sync, GetSubsurface
<1>2. Use' = Use
  BY <1>1 DEF Use, use_vars
<1>3. TreeOK'
  <2>1. CASE Create(s)
    BY <2>1, TreeStays DEF IInv, TreeOK, Create
  <2>2. CASE Desync(s)
    BY <2>2, TreeStays DEF IInv, TreeOK, Desync
  <2>3. CASE Sync(s)
    BY <2>3, TreeStays DEF IInv, TreeOK, Sync
  <2>4. CASE \E p \in Surfaces : GetSubsurface(s, p)
    BY <2>4, TreeGrows DEF IInv
  <2> QED BY <2>1, <2>2, <2>3, <2>4
<1>4. flushing' \subseteq subs
  <2>1. CASE Desync(s)
    <3>1. Flushes(IF IsSynchronized(s, synchronized') THEN {} ELSE Under(s))
      BY <2>1 DEF Desync
    <3> QED BY <3>1, FlushesSubs, UnderType
  <2>2. CASE flushing' = flushing
    BY <2>2
  <2> QED BY <2>1, <2>2 DEF Create, Sync, GetSubsurface
<1> QED BY <1>1, <1>2, <1>3, <1>4 DEF IInv

\* Every step keeps the invariant.
LEMMA Inductive ==
    ASSUME IInv, [Next]_vars
    PROVE  IInv'
<1>1. CASE UNCHANGED vars
  <2>1. Use' = Use
    BY <1>1 DEF vars, Use, use_vars
  <2>2. TreeOK'
    BY <1>1, TreeStays DEF IInv, TreeOK, vars, tree_vars
  <2> QED BY <1>1, <2>1, <2>2 DEF IInv, vars, tree_vars
<1>2. CASE flushing = {} /\ Request
  BY <1>2, CommitKeeps, SubsurfaceDestroyedKeeps, DestroyedKeeps,
     BufferDestroyedKeeps, RepaintKeeps, PendingKeeps, TreeKeeps DEF Request
<1>3. CASE \E s \in Surfaces : Flush(s)
  BY <1>3, FlushKeeps
<1> QED BY <1>1, <1>2, <1>3 DEF Next

\* In every reachable state the surfaces form trees, the counts of buffers
\* are the numbers of references to them, caches point to what they hold, and
\* what the renderer has still to copy is still the surface's.
THEOREM AlwaysIInv == Spec => []IInv
BY InitIInv, Inductive, PTL DEF Spec

\* A buffer is referenced as often as it is held, on a surface and drawn.
LEMMA BusyIs ==
    ASSUME IInv, NEW b \in Buffers
    PROVE  /\ busy_count[b] = Count(held, b) + Count(buffer, b) + Count(drawn, b)
           /\ busy_count[b] \in 0..3 * Cardinality(Surfaces)
           /\ busy_count[b] > 0
                <=> \E s \in Surfaces : b \in {held[s], buffer[s], drawn[s]}
<1>1. busy_count[b] = Count(held, b) + Count(buffer, b) + Count(drawn, b)
  BY UseIs DEF IInv, Good, Counted
<1>2. Cardinality(Surfaces) \in Nat
  BY FS_CardinalityType, FiniteAssumption
<1>3. ASSUME NEW f
      PROVE  /\ Count(f, b) \in 0..Cardinality(Surfaces)
             /\ Count(f, b) = 0 <=> ~\E s \in Surfaces : f[s] = b
  <2>1. IsFiniteSet({s \in Surfaces : f[s] = b})
    BY FS_Subset, FiniteAssumption
  <2>2. Count(f, b) = 0 <=> {s \in Surfaces : f[s] = b} = {}
    BY <2>1, FS_EmptySet DEF Count
  <2> QED BY <2>2, CountType
<1>4. /\ Count(held, b) \in 0..Cardinality(Surfaces)
      /\ Count(buffer, b) \in 0..Cardinality(Surfaces)
      /\ Count(drawn, b) \in 0..Cardinality(Surfaces)
  BY <1>3
<1>5. busy_count[b] \in 0..3 * Cardinality(Surfaces)
  BY <1>1, <1>2, <1>4
<1>6. /\ Count(held, b) = 0 <=> ~\E s \in Surfaces : held[s] = b
      /\ Count(buffer, b) = 0 <=> ~\E s \in Surfaces : buffer[s] = b
      /\ Count(drawn, b) = 0 <=> ~\E s \in Surfaces : drawn[s] = b
  BY <1>3
<1>7. busy_count[b] > 0 <=> \/ Count(held, b) # 0 \/ Count(buffer, b) # 0
                            \/ Count(drawn, b) # 0
  BY <1>1, <1>2, <1>4
<1> QED BY <1>1, <1>5, <1>6, <1>7

\* The invariants that the runs check follow.
LEMMA InvImplies ==
    ASSUME IInv
    PROVE  SurfacesOK /\ LentIsUsed /\ CacheIsHeld
<1>0. /\ held \in [Surfaces -> Buffers \cup {NULL}]
      /\ buffer \in [Surfaces -> Buffers \cup {NULL}]
      /\ drawn \in [Surfaces -> Buffers \cup {NULL}]
      /\ copy \in [Surfaces -> Buffers \cup {NULL}]
      /\ frames \in [Surfaces -> SUBSET Frames]
      /\ cached \in [Surfaces -> CacheType]
      /\ pending \in [Surfaces -> StateType]
      /\ busy_count \in [Buffers -> Nat]
      /\ lent \in SUBSET Buffers
  BY Types DEF IInv
<1>1. busy_count \in [Buffers -> 0..3 * Cardinality(Surfaces)]
  BY <1>0, BusyIs
<1>2. SurfacesTypeOK
  BY <1>0, <1>1 DEF SurfacesTypeOK, IInv, TreeOK, StateType, CacheType
<1>3. LentIsUsed
  <2>1. \A b \in Buffers : b \in lent <=> busy_count[b] > 0
    BY UseIs, NullAssumption DEF IInv, Good, Fair
  <2>2. lent = {b \in Buffers :
                   \E s \in Surfaces : b \in {held[s], buffer[s], drawn[s]}}
    BY <1>0, <2>1, BusyIs
  <2>3. \A s \in Surfaces : drawn[s] \in Copied => buffer[s] = drawn[s]
    BY UseIs DEF IInv, Good, Drawing
  <2> QED BY <2>2, <2>3 DEF LentIsUsed
<1>4. CacheIsHeld
  BY UseIs DEF IInv, Good, Kept, CacheIsHeld
<1> QED BY <1>2, <1>3, <1>4 DEF IInv, TreeOK, SurfacesOK

\* The surfaces are trees, whatever is linked, destroyed or committed, and
\* what they hold is alive and counted.
THEOREM SurfacesAlwaysOK == Spec => []SurfacesOK
BY AlwaysIInv, InvImplies, PTL

\* A buffer is lent exactly as long as a cache, a surface or the renderer has a
\* use for it, and a surface that is repainted lets go of it early only when
\* the renderer has its contents, or draws from the buffer itself.
THEOREM LentIsAlwaysUsed == Spec => []LentIsUsed
BY AlwaysIInv, InvImplies, PTL

\* What a cache points to is busy.
THEOREM CacheIsAlwaysHeld == Spec => []CacheIsHeld
BY AlwaysIInv, InvImplies, PTL

-----------------------------------------------------------------------------
(* The caches implement WestonSync.                                        *)

\* What WestonSync sees of a surface.
ToldOf(s) == IF pending[s].newly THEN pending[s].buffer ELSE Nothing
NextOf(s) ==
    IF cached[s].newly /\ s \notin flushing THEN cached[s].buffer ELSE Nothing
ShownOf(s) == IF Flushing(s) THEN cached[s].buffer ELSE Shown(s)
IsCopied(s) == ~Flushing(s) /\ drawn[s] = NULL /\ copy[s] # NULL
AskedOf(s) == IF s \in flushing THEN {} ELSE cached[s].frames
DueOf(s) ==
    frames[s] \cup (IF s \in flushing THEN cached[s].frames ELSE {})

\* What is shown and what is next of s, from the variables alone.
LEMMA Views ==
    ASSUME NEW s, UNCHANGED <<cached[s], drawn[s], copy[s]>>,
           s \in flushing' <=> s \in flushing
    PROVE  /\ NextOf(s)' = NextOf(s) /\ ShownOf(s)' = ShownOf(s)
           /\ IsCopied(s)' = IsCopied(s)
BY DEF NextOf, ShownOf, IsCopied, Flushing, Shown

\* The promise reads the tree as the code does.
LEMMA SameTree ==
    ASSUME NEW s
    PROVE  Promise!UpTo(s) = UpTo(s) /\ Promise!Under(s) = Under(s)
           /\ Promise!Children(s) = Children(s)
<1>1. \A t : Promise!UpTo(t) = UpTo(t)
  BY DEF Promise!UpTo, UpTo, ParentClosed
<1>2. Promise!Under(s) = Under(s)
  BY <1>1 DEF Promise!Under, Under
<1>3. Promise!Children(s) = Children(s)
  BY DEF Promise!Children, Children
<1> QED BY <1>1, <1>2, <1>3

\* At first nothing is told or shown.
LEMMA InitPromised ==
    ASSUME Init
    PROVE  Promise!Init
<1>1. ASSUME NEW s \in Surfaces
      PROVE  /\ ToldOf(s) = Nothing /\ NextOf(s) = Nothing
             /\ ShownOf(s) = NULL /\ ~IsCopied(s)
             /\ pending[s].frames = {} /\ AskedOf(s) = {} /\ DueOf(s) = {}
  BY Empties DEF Init, ToldOf, NextOf, ShownOf, IsCopied, AskedOf, DueOf,
                 Flushing, Shown
<1> QED BY <1>1 DEF Init, Promise!Init, ToldOf, NextOf, ShownOf, IsCopied,
                    AskedOf, DueOf

\* wl_surface.attach tells what is to be shown.
LEMMA AttachPromised ==
    ASSUME IInv, NEW s \in Surfaces, NEW b \in Buffers \cup {NULL}, Attach(s, b)
    PROVE  Promise!Tell(s, b)
<1>1. pending \in [Surfaces -> StateType]
  BY Types DEF IInv
<1>2. /\ s \in alive /\ UNCHANGED <<tree_vars, cached, use_vars, frames, flushing>>
      /\ pending' = [pending EXCEPT ![s].newly = TRUE, ![s].buffer = b]
  BY DEF Attach
<1>3. ASSUME NEW t \in Surfaces
      PROVE  /\ ToldOf(t)' = IF t = s THEN b ELSE ToldOf(t)
             /\ pending'[t].frames = pending[t].frames
  BY <1>1, <1>2 DEF ToldOf, StateType
<1> QED BY <1>2, <1>3 DEF Promise!Tell, Promise!tree_vars, ToldOf, tree_vars,
                          use_vars, Flushing, Shown

\* wl_surface.frame asks to be told when that is shown.
LEMMA FramePromised ==
    ASSUME IInv, NEW s \in Surfaces, NEW f \in Frames, Frame(s, f)
    PROVE  Promise!Want(s, f)
<1>1. pending \in [Surfaces -> StateType]
  BY Types DEF IInv
<1>2. /\ s \in alive /\ UNCHANGED <<tree_vars, cached, use_vars, frames, flushing>>
      /\ pending' = [pending EXCEPT ![s].frames = @ \cup {f}]
  BY DEF Frame
<1>3. ASSUME NEW t \in Surfaces
      PROVE  /\ ToldOf(t)' = ToldOf(t)
             /\ pending'[t].frames = IF t = s THEN pending[t].frames \cup {f}
                                     ELSE pending[t].frames
  BY <1>1, <1>2 DEF ToldOf, StateType
<1> QED BY <1>2, <1>3
        DEF Promise!Want, Promise!tree_vars, Promise!show_vars, ToldOf,
            tree_vars, use_vars, Flushing, Shown

\* A repaint calls those who asked; what is shown stays, though the surface
\* may let go of the buffer, and the renderer if it has a copy.
LEMMA RepaintPromised ==
    ASSUME IInv, NEW s \in Surfaces, Repaint(s), flushing = {}
    PROVE  Promise!Repaint(s)
<1>1. frames \in [Surfaces -> SUBSET Frames]
  BY Types DEF IInv
<1>2. UNCHANGED <<tree_vars, flushing>>
  BY DEF Repaint
<1>3. /\ frames' \in {frames, [frames EXCEPT ![s] = {}]}
      /\ pending' = pending /\ cached' = cached
      /\ Repainted(Use, Use', s)
  BY SurfacePainted DEF IInv
<1>4. /\ Use.drawn = drawn /\ Use.copy = copy
      /\ Use'.drawn = drawn' /\ Use'.copy = copy'
  BY DEF Use
<1>5. ASSUME NEW t \in Surfaces
      PROVE  /\ NextOf(t)' = NextOf(t) /\ ShownOf(t)' = ShownOf(t)
             /\ IsCopied(t) => IsCopied(t)'
             /\ IsCopied(t)' => /\ t = s \/ IsCopied(t)
                                /\ ShownOf(t) # NULL
             /\ DueOf(t) = frames[t] /\ DueOf(t)' = frames'[t]
  BY <1>2, <1>3, <1>4
     DEF NextOf, ShownOf, IsCopied, DueOf, Flushing, Shown, Repainted, ShownIn,
         IsCopy
<1> DEFINE due == [t \in Surfaces |-> DueOf(t)]
           was == {t \in Surfaces : IsCopied(t)}
           is == {t \in Surfaces : IsCopied(t)'}
           shown == [t \in Surfaces |-> ShownOf(t)]
<1>6. [t \in Surfaces |-> DueOf(t)'] \in {due, [due EXCEPT ![s] = {}]}
  BY <1>1, <1>3, <1>5
<1>7. is = was \/ (shown[s] # NULL /\ is = was \cup {s})
  BY <1>5
<1> QED BY <1>2, <1>3, <1>5, <1>6, <1>7
        DEF Promise!Repaint, Promise!tree_vars, DueOf, NextOf, ShownOf,
            IsCopied, AskedOf, tree_vars

\* Those that change the tree alone.
LEMMA TreePromised ==
    ASSUME NEW s \in Surfaces
    PROVE  /\ Create(s) => Promise!Create(s)
           /\ Sync(s) => Promise!Sync(s)
           /\ \A p \in Surfaces : GetSubsurface(s, p) => Promise!Link(s, p)
<1>2. ASSUME Create(s)
      PROVE  Promise!Create(s)
  BY <1>2 DEF Create, Promise!Create, Promise!show_vars, use_vars, Flushing, Shown
<1>3. ASSUME Sync(s)
      PROVE  Promise!Sync(s)
  BY <1>3 DEF Sync, Promise!Sync, Promise!show_vars, use_vars, Flushing, Shown
<1>4. ASSUME NEW p \in Surfaces, GetSubsurface(s, p)
      PROVE  Promise!Link(s, p)
  BY <1>4, SameTree
     DEF GetSubsurface, Promise!Link, Promise!show_vars, use_vars, Flushing, Shown
<1> QED BY <1>2, <1>3, <1>4

\* What is forgotten with a sub-surface.
LEMMA SubsurfaceDestroyedPromised ==
    ASSUME IInv, NEW s \in Surfaces, SubsurfaceDestroyed(s), flushing = {}
    PROVE  Promise!Unlink(s)
<1>1. cached \in [Surfaces -> CacheType]
  BY Types DEF IInv
<1>2. /\ drawn' = drawn /\ copy' = copy /\ frames' = frames /\ pending' = pending
      /\ cached' = [cached EXCEPT ![s] = EmptyCache]
  BY CacheDropped DEF SubsurfaceDestroyed, IInv
<1>3. /\ s \in subs /\ subs' = subs \ {s} /\ synchronized' = synchronized \ {s}
      /\ parent' = [parent EXCEPT ![s] = NULL]
      /\ alive' = alive /\ flushing' = flushing
  BY DEF SubsurfaceDestroyed
<1>4. ASSUME NEW t \in Surfaces
      PROVE  /\ NextOf(t)' = IF t = s THEN Nothing ELSE NextOf(t)
             /\ AskedOf(t)' = IF t = s THEN {} ELSE AskedOf(t)
             /\ ShownOf(t)' = ShownOf(t) /\ DueOf(t)' = DueOf(t)
             /\ IsCopied(t)' = IsCopied(t)
  BY <1>1, <1>2, <1>3, Empties
     DEF NextOf, ShownOf, IsCopied, AskedOf, DueOf, Flushing, Shown
<1> QED BY <1>2, <1>3, <1>4
        DEF Promise!Unlink, NextOf, ShownOf, IsCopied, AskedOf, DueOf

\* A surface that goes shows nothing.
LEMMA DestroyedPromised ==
    ASSUME IInv, NEW s \in Surfaces, Destroyed(s), flushing = {}
    PROVE  Promise!Destroy(s)
<1>1. /\ cached \in [Surfaces -> CacheType] /\ pending \in [Surfaces -> StateType]
      /\ drawn \in [Surfaces -> Buffers \cup {NULL}]
      /\ copy \in [Surfaces -> Buffers \cup {NULL}]
      /\ frames \in [Surfaces -> SUBSET Frames]
  BY Types DEF IInv
<1>2. /\ drawn' = [drawn EXCEPT ![s] = NULL] /\ copy' = [copy EXCEPT ![s] = NULL]
      /\ frames' = [frames EXCEPT ![s] = {}]
      /\ pending' = [pending EXCEPT ![s] = Empty]
      /\ cached' = [cached EXCEPT ![s] = EmptyCache]
  BY SurfaceGone DEF Destroyed, IInv, ShowsNow
<1>3. /\ s \in alive /\ alive' = alive \ {s}
      /\ subs' = subs \ {s} /\ synchronized' = synchronized \ {s}
      /\ parent' = [t \in Surfaces |->
                     IF t = s \/ parent[t] = s THEN NULL ELSE parent[t]]
      /\ flushing' = flushing
  BY DEF Destroyed
<1>4. ASSUME NEW t \in Surfaces
      PROVE  /\ NextOf(t)' = IF t = s THEN Nothing ELSE NextOf(t)
             /\ ShownOf(t)' = IF t = s THEN NULL ELSE ShownOf(t)
             /\ IsCopied(t)' <=> t # s /\ IsCopied(t)
             /\ AskedOf(t)' = IF t = s THEN {} ELSE AskedOf(t)
             /\ DueOf(t)' = IF t = s THEN {} ELSE DueOf(t)
             /\ ToldOf(t)' = IF t = s THEN Nothing ELSE ToldOf(t)
             /\ pending'[t].frames = IF t = s THEN {} ELSE pending[t].frames
  BY <1>1, <1>2, <1>3, Empties
     DEF NextOf, ShownOf, IsCopied, AskedOf, DueOf, ToldOf, Flushing, Shown
<1> QED BY <1>3, <1>4 DEF Promise!Destroy, NextOf, ShownOf, IsCopied, AskedOf,
                          DueOf, ToldOf

\* A buffer that goes is no longer to be shown, and no longer shown unless it
\* is copied.
LEMMA BufferDestroyedPromised ==
    ASSUME IInv, NEW b \in Buffers, BufferDestroyed(b), flushing = {}
    PROVE  Promise!BufferGone(b)
<1>1. /\ cached \in [Surfaces -> CacheType] /\ pending \in [Surfaces -> StateType]
      /\ \A s \in Surfaces : ~pending[s].newly => pending[s].buffer = NULL
      /\ \A s \in Surfaces : drawn[s] # NULL => copy[s] = NULL
      /\ b # NULL
  BY Types, UseIs, NullAssumption DEF IInv, Good, Kept, Drawing
<1>2. /\ drawn' = [s \in Surfaces |-> IF drawn[s] = b THEN NULL ELSE drawn[s]]
      /\ copy' = copy /\ frames' = frames /\ flushing' = flushing
      /\ UNCHANGED tree_vars
  BY DEF BufferDestroyed
<1>3. ASSUME NEW s \in Surfaces
      PROVE  /\ pending'[s] = IF pending[s].buffer = b
                   THEN [pending[s] EXCEPT !.buffer = NULL] ELSE pending[s]
             /\ cached'[s] = IF cached[s].buffer = b
                   THEN [cached[s] EXCEPT !.buffer = NULL] ELSE cached[s]
  BY DEF BufferDestroyed
<1>4. ASSUME NEW s \in Surfaces
      PROVE  /\ cached'[s].newly = cached[s].newly
             /\ cached'[s].frames = cached[s].frames
             /\ cached'[s].buffer =
                  IF cached[s].buffer = b THEN NULL ELSE cached[s].buffer
             /\ pending'[s].newly = pending[s].newly
             /\ pending'[s].frames = pending[s].frames
             /\ pending'[s].buffer =
                  IF pending[s].buffer = b THEN NULL ELSE pending[s].buffer
  BY <1>1, <1>3 DEF CacheType, StateType
<1>5. ASSUME NEW s \in Surfaces
      PROVE  /\ ShownOf(s)' = IF ShownOf(s) = b /\ ~IsCopied(s)
                              THEN NULL ELSE ShownOf(s)
             /\ IsCopied(s)' = IsCopied(s)
  BY <1>1, <1>2 DEF ShownOf, IsCopied, Flushing, Shown
<1>6. ASSUME NEW s \in Surfaces
      PROVE  /\ NextOf(s)' = IF NextOf(s) = b THEN NULL ELSE NextOf(s)
             /\ ToldOf(s)' = IF ToldOf(s) = b THEN NULL ELSE ToldOf(s)
             /\ AskedOf(s)' = AskedOf(s) /\ DueOf(s)' = DueOf(s)
  BY <1>2, <1>4, NothingAssumption DEF NextOf, ToldOf, AskedOf, DueOf
<1> QED BY <1>2, <1>4, <1>5, <1>6
        DEF Promise!BufferGone, Promise!tree_vars, tree_vars,
            NextOf, ShownOf, IsCopied, ToldOf, AskedOf, DueOf

\* The caches that are left when all is committed say nothing.
LEMMA NotCached ==
    ASSUME IInv, NEW s \in Surfaces, ~cached[s].has
    PROVE  ~cached[s].newly /\ cached[s].frames = {}
BY UseIs, Empties DEF IInv, Good, Kept

\* When all that waited with S is flushed, S shows what is next.
LEMMA FlushesPromised ==
    ASSUME IInv, NEW S \in SUBSET Surfaces, flushing = {}, Flushes(S),
           NEW t \in Surfaces,
           UNCHANGED <<drawn[t], copy[t], cached[t], frames[t]>>
    PROVE  /\ NextOf(t)' = IF t \in S THEN Nothing ELSE NextOf(t)
           /\ ShownOf(t)' = IF t \in S /\ NextOf(t) # Nothing THEN NextOf(t)
                            ELSE ShownOf(t)
           /\ IsCopied(t)' <=> IsCopied(t) /\ ~(t \in S /\ NextOf(t) # Nothing)
           /\ DueOf(t)' = IF t \in S THEN DueOf(t) \cup AskedOf(t) ELSE DueOf(t)
           /\ AskedOf(t)' = IF t \in S THEN {} ELSE AskedOf(t)
<1>1. t \in flushing' <=> t \in S /\ cached[t].has
  BY DEF Flushes
<1>2. ~cached[t].has => ~cached[t].newly /\ cached[t].frames = {}
  BY NotCached
<1>3. cached[t].buffer # Nothing
  <2>1. cached[t] \in CacheType
    BY Types DEF IInv
  <2> QED BY <2>1, NothingAssumption DEF CacheType
<1>4. /\ NextOf(t) = IF cached[t].newly THEN cached[t].buffer ELSE Nothing
      /\ ShownOf(t) = Shown(t) /\ IsCopied(t) = (drawn[t] = NULL /\ copy[t] # NULL)
      /\ Shown(t)' = Shown(t)
  BY DEF NextOf, ShownOf, IsCopied, Flushing, Shown
<1>5. /\ NextOf(t)' = IF t \in S THEN Nothing ELSE NextOf(t)
      /\ ShownOf(t)' = IF t \in S /\ NextOf(t) # Nothing THEN NextOf(t)
                       ELSE ShownOf(t)
      /\ IsCopied(t)' <=> IsCopied(t) /\ ~(t \in S /\ NextOf(t) # Nothing)
  BY <1>1, <1>2, <1>3, <1>4 DEF NextOf, ShownOf, IsCopied, Flushing
<1> QED BY <1>1, <1>2, <1>5 DEF DueOf, AskedOf

\* What a sub-surface has waiting is shown when it no longer has to wait.
LEMMA DesyncPromised ==
    ASSUME IInv, NEW s \in Surfaces, Desync(s), flushing = {}
    PROVE  Promise!Desync(s)
<1> DEFINE S == IF IsSynchronized(s, synchronized') THEN {} ELSE Under(s)
<1>1. /\ s \in synchronized /\ synchronized' = synchronized \ {s}
      /\ Flushes(S)
      /\ UNCHANGED <<alive, subs, parent, pending, cached, use_vars, frames>>
  BY DEF Desync
<1>2. S \in SUBSET Surfaces
  BY UnderType
<1>3. S = IF Promise!UpTo(s) \cap synchronized' # {} THEN {} ELSE Promise!Under(s)
  BY SameTree DEF IsSynchronized
<1> HIDE DEF S
<1>4. ASSUME NEW t \in Surfaces
      PROVE  /\ NextOf(t)' = IF t \in S THEN Nothing ELSE NextOf(t)
             /\ ShownOf(t)' = IF t \in S /\ NextOf(t) # Nothing THEN NextOf(t)
                              ELSE ShownOf(t)
             /\ IsCopied(t)' <=> IsCopied(t) /\ ~(t \in S /\ NextOf(t) # Nothing)
             /\ DueOf(t)' = IF t \in S THEN DueOf(t) \cup AskedOf(t) ELSE DueOf(t)
             /\ AskedOf(t)' = IF t \in S THEN {} ELSE AskedOf(t)
  BY <1>1, <1>2, FlushesPromised DEF use_vars
<1>5. /\ s \in synchronized /\ synchronized' = synchronized \ {s}
      /\ UNCHANGED <<alive, subs, parent, pending>>
  BY <1>1
<1> QED BY <1>3, <1>4, <1>5
        DEF Promise!Desync, Promise!Show, NextOf, ShownOf, IsCopied, DueOf, AskedOf

\* Waits and With, in the model's words.  No surface depends on itself.
LEMMA WaitsIs ==
    ASSUME IInv, NEW s \in Surfaces
    PROVE  /\ Promise!Waits(s) <=> s \in subs /\ IsSynchronized(s, synchronized)
           /\ Promise!With(s) = {s} \cup Dependents(s)
           /\ s \notin Dependents(s)
<1>0. parent \in [Surfaces -> Surfaces \cup {NULL}]
  BY DEF IInv, TreeOK
<1>1. Promise!Waits(s) <=> IsSynchronized(s, synchronized)
  BY SameTree DEF Promise!Waits, IsSynchronized
<1>2. ASSUME s \notin subs
      PROVE  ~IsSynchronized(s, synchronized)
  <2>1. UpTo(s) = {s}
    BY <1>0, <1>2, UpToTop DEF IInv, TreeOK
  <2> QED BY <1>2, <2>1 DEF IsSynchronized, IInv, TreeOK
<1>3. Promise!With(s) = {s} \cup Dependents(s)
  BY SameTree DEF Promise!With, Dependents
<1>4. ASSUME NEW c \in Children(s), s \in Under(c)
      PROVE  FALSE
  <2>1. c \in Surfaces /\ parent[c] = s /\ c \in UpTo(s)
    BY <1>4 DEF Children, Under, IInv, TreeOK
  <2>2. CASE parent[s] = NULL
    <3>1. UpTo(s) = {s}
      BY <1>0, <2>2, UpToTop
    <3> QED BY <2>1, <2>2, <3>1, NullAssumption
  <2>3. CASE parent[s] # NULL
    <3>1. /\ s \in subs /\ parent[s] \in Surfaces
          /\ s \notin UpTo(parent[s])
      BY <1>0, <2>3 DEF IInv, TreeOK, NoCircle
    <3>2. UpTo(s) = {s} \cup UpTo(parent[s])
      BY <1>0, <2>3, UpToParent
    <3>3. CASE c = s
      BY <1>0, <2>1, <3>1, <3>3, UpToLeast
    <3>4. CASE c \in UpTo(parent[s])
      BY <1>0, <2>1, <3>1, <3>4, NullAssumption, UpToLeast
    <3> QED BY <2>1, <3>2, <3>3, <3>4
  <2> QED BY <2>2, <2>3
<1>5. s \notin Dependents(s)
  BY <1>4 DEF Dependents
<1> QED BY <1>1, <1>2, <1>3, <1>5

\* The surfaces that a commit of s shows what is next on, what is next then
\* and what asks to be called.
Promised(s) == IF Promise!Waits(s) THEN {} ELSE Promise!With(s)
NextWith(s, t) ==
    IF t = s /\ ToldOf(s) # Nothing THEN ToldOf(s) ELSE NextOf(t)
AskedWith(s, t) ==
    IF t = s THEN AskedOf(t) \cup pending[t].frames ELSE AskedOf(t)

LEMMA ShownCommit ==
    ASSUME NEW s \in Surfaces, s \in alive, UNCHANGED tree_vars,
           Promised(s) \in SUBSET Surfaces,
           \A t \in Surfaces :
             LET shows == t \in Promised(s) /\ NextWith(s, t) # Nothing IN
             /\ NextOf(t)' = IF t \in Promised(s) THEN Nothing ELSE NextWith(s, t)
             /\ ShownOf(t)' = IF shows THEN NextWith(s, t) ELSE ShownOf(t)
             /\ IsCopied(t)' <=> IsCopied(t) /\ ~shows
             /\ DueOf(t)' = IF t \in Promised(s) THEN DueOf(t) \cup AskedWith(s, t)
                            ELSE DueOf(t)
             /\ AskedOf(t)' = IF t \in Promised(s) THEN {} ELSE AskedWith(s, t)
             /\ ToldOf(t)' = IF t = s THEN Nothing ELSE ToldOf(t)
             /\ pending'[t].frames = IF t = s THEN {} ELSE pending[t].frames
    PROVE  Promise!Commit(s)
<1> DEFINE S == IF Promise!Waits(s) THEN {} ELSE Promise!With(s)
           told == [t \in Surfaces |-> IF pending[t].newly THEN pending[t].buffer
                                       ELSE Nothing]
           next == [t \in Surfaces |-> IF cached[t].newly /\ t \notin flushing
                                       THEN cached[t].buffer ELSE Nothing]
           wanted == [t \in Surfaces |-> pending[t].frames]
           asked == [t \in Surfaces |-> IF t \in flushing THEN {}
                                        ELSE cached[t].frames]
           nexts == [next EXCEPT ![s] = IF told[s] = Nothing THEN @ ELSE told[s]]
           asks == [asked EXCEPT ![s] = @ \cup wanted[s]]
<1>1. \A t \in Surfaces : nexts[t] = NextWith(s, t) /\ asks[t] = AskedWith(s, t)
  BY DEF NextWith, AskedWith, NextOf, ToldOf, AskedOf
<1>2. S \in SUBSET Surfaces /\ Promised(s) = S
  BY DEF Promised
<1>3. Promise!Show(S, nexts, asks)
  <2> HIDE DEF S, nexts, asks
  <2>1. ASSUME NEW t \in Surfaces
        PROVE  /\ NextOf(t)' = IF t \in S THEN Nothing ELSE nexts[t]
               /\ ShownOf(t)' = IF t \in S /\ nexts[t] # Nothing THEN nexts[t]
                                ELSE ShownOf(t)
               /\ IsCopied(t)' <=> IsCopied(t) /\ ~(t \in S /\ nexts[t] # Nothing)
               /\ DueOf(t)' = IF t \in S THEN DueOf(t) \cup asks[t] ELSE DueOf(t)
               /\ AskedOf(t)' = IF t \in S THEN {} ELSE asks[t]
    BY <1>1, <1>2
  <2> QED BY <1>2, <2>1
          DEF Promise!Show, NextOf, ShownOf, IsCopied, DueOf, AskedOf
<1>4. told' = [told EXCEPT ![s] = Nothing] /\ wanted' = [wanted EXCEPT ![s] = {}]
  BY DEF ToldOf
<1> QED
  <2>1. told' = [told EXCEPT ![s] = Nothing]
    BY <1>4
  <2>2. wanted' = [wanted EXCEPT ![s] = {}]
    BY <1>4
  <2>3. UNCHANGED Promise!tree_vars
    BY DEF Promise!tree_vars, tree_vars
  <2> QED BY <1>3, <2>1, <2>2, <2>3, ZenonT(30) DEF Promise!Commit, Promise!Show

\* A commit shows the surface and those that wait for it, together.
LEMMA CommitPromised ==
    ASSUME IInv, NEW s \in Surfaces, Commit(s), flushing = {}
    PROVE  Promise!Commit(s)
<1>0. /\ cached \in [Surfaces -> CacheType] /\ pending \in [Surfaces -> StateType]
      /\ drawn \in [Surfaces -> Buffers \cup {NULL}]
      /\ copy \in [Surfaces -> Buffers \cup {NULL}]
      /\ frames \in [Surfaces -> SUBSET Frames] /\ Good(Use)
  BY Types DEF IInv
<1>1. s \in alive /\ UNCHANGED tree_vars
  BY DEF Commit
<1>2. /\ ToldOf(s) = Nothing <=> ~pending[s].newly
      /\ pending[s].newly => ToldOf(s) = pending[s].buffer
  <2>1. pending[s].buffer # Nothing
    BY <1>0, NothingAssumption DEF StateType
  <2> QED BY <2>1 DEF ToldOf
<1> DEFINE Nexts(t) == NextWith(s, t)
           Asks(t) == AskedWith(s, t)
           S == Promised(s)
<1>3. CASE /\ s \in subs /\ IsSynchronized(s, synchronized)
           /\ Uses(CommittedToCache(Use, s))
           /\ Flushes({})
  <2>1. /\ drawn' = drawn /\ copy' = copy /\ frames' = frames
        /\ pending' = [pending EXCEPT ![s] = Empty]
        /\ cached' = [cached EXCEPT ![s] =
             [has |-> TRUE, newly |-> cached[s].newly \/ pending[s].newly,
              buffer |-> IF pending[s].newly THEN pending[s].buffer
                         ELSE cached[s].buffer,
              frames |-> cached[s].frames \cup pending[s].frames]]
    BY <1>0, <1>3, WaitingCommit
  <2>2. flushing' = {}
    BY <1>3 DEF Flushes
  <2>3. /\ cached'[s].newly = (cached[s].newly \/ pending[s].newly)
        /\ cached'[s].buffer = IF pending[s].newly THEN pending[s].buffer
                               ELSE cached[s].buffer
        /\ cached'[s].frames = cached[s].frames \cup pending[s].frames
        /\ \A t \in Surfaces \ {s} : cached'[t] = cached[t]
    BY <1>0, <2>1
  <2>4. ASSUME NEW t \in Surfaces
        PROVE  /\ NextOf(t)' = Nexts(t)
               /\ ShownOf(t)' = ShownOf(t) /\ DueOf(t)' = DueOf(t)
               /\ IsCopied(t)' = IsCopied(t)
               /\ AskedOf(t)' = Asks(t)
               /\ ToldOf(t)' = IF t = s THEN Nothing ELSE ToldOf(t)
               /\ pending'[t].frames = IF t = s THEN {} ELSE pending[t].frames
    <3>1. NextOf(t)' = Nexts(t)
      <4>1. CASE t # s
        BY <2>2, <2>3, <4>1 DEF NextOf, NextWith
      <4>2. CASE t = s /\ pending[s].newly
        <5>1. cached'[s].newly /\ cached'[s].buffer = pending[s].buffer
          BY <2>3, <4>2
        <5> QED BY <1>2, <2>2, <4>2, <5>1 DEF NextOf, NextWith
      <4>3. CASE t = s /\ ~pending[s].newly
        <5>1. /\ cached'[s].newly <=> cached[s].newly
              /\ cached'[s].buffer = cached[s].buffer
          BY <2>3, <4>3
        <5> QED BY <1>2, <2>2, <4>3, <5>1 DEF NextOf, NextWith
      <4> QED BY <4>1, <4>2, <4>3
    <3>2. ShownOf(t)' = ShownOf(t) /\ DueOf(t)' = DueOf(t)
          /\ IsCopied(t)' = IsCopied(t)
      BY <2>1, <2>2 DEF ShownOf, IsCopied, DueOf, Flushing, Shown
    <3>3. AskedOf(t)' = Asks(t)
      BY <2>2, <2>3 DEF AskedOf, AskedWith
    <3>4. /\ ToldOf(t)' = IF t = s THEN Nothing ELSE ToldOf(t)
          /\ pending'[t].frames = IF t = s THEN {} ELSE pending[t].frames
      BY <1>0, <2>1, Empties DEF ToldOf
    <3> QED BY <3>1, <3>2, <3>3, <3>4
  <2>5. S = {}
    BY <1>3, WaitsIs DEF Promised
  <2> QED BY <1>1, <2>4, <2>5, ShownCommit
<1>4. CASE /\ ~(s \in subs /\ IsSynchronized(s, synchronized))
           /\ Uses(IF cached[s].has
                   THEN CommittedFromCache(CommittedToCache(Use, s), s)
                   ELSE Committed(Use, s))
           /\ Flushes(Dependents(s))
  <2>1. /\ ShowsNow(s, cached[s].newly \/ pending[s].newly,
             IF pending[s].newly THEN pending[s].buffer ELSE cached[s].buffer)
        /\ frames' = [frames EXCEPT ![s] =
             frames[s] \cup cached[s].frames \cup pending[s].frames]
        /\ pending' = [pending EXCEPT ![s] = Empty]
        /\ cached' = [cached EXCEPT ![s] = EmptyCache]
    BY <1>0, <1>4, ShowingCommit
  <2>2. S = {s} \cup Dependents(s) /\ s \notin Dependents(s)
        /\ Dependents(s) \in SUBSET Surfaces
    BY <1>4, WaitsIs, UnderType DEF Promised
  <2>3. s \notin flushing'
    BY <1>4, <2>2 DEF Flushes
  <2>4. ASSUME NEW t \in Surfaces
        PROVE  /\ NextOf(t)' = IF t \in S THEN Nothing ELSE Nexts(t)
               /\ ShownOf(t)' = IF t \in S /\ Nexts(t) # Nothing THEN Nexts(t)
                                ELSE ShownOf(t)
               /\ IsCopied(t)' <=> IsCopied(t) /\ ~(t \in S /\ Nexts(t) # Nothing)
               /\ DueOf(t)' = IF t \in S THEN DueOf(t) \cup Asks(t) ELSE DueOf(t)
               /\ AskedOf(t)' = IF t \in S THEN {} ELSE Asks(t)
               /\ ToldOf(t)' = IF t = s THEN Nothing ELSE ToldOf(t)
               /\ pending'[t].frames = IF t = s THEN {} ELSE pending[t].frames
    <3>1. CASE t = s
      <4>1. /\ cached'[s] = EmptyCache /\ pending'[s] = Empty
            /\ frames'[s] = frames[s] \cup cached[s].frames \cup pending[s].frames
        BY <1>0, <2>1
      <4>2. /\ NextOf(s)' = Nothing /\ AskedOf(s)' = {} /\ DueOf(s)' = frames'[s]
            /\ ToldOf(s)' = Nothing /\ pending'[s].frames = {}
        BY <2>3, <4>1, Empties DEF NextOf, AskedOf, DueOf, ToldOf
      <4>3. DueOf(s)' = DueOf(s) \cup Asks(s)
        BY <4>1, <4>2 DEF DueOf, AskedOf, AskedWith
      <4>4. /\ ShownOf(s)' = Shown(s)' /\ ShownOf(s) = Shown(s)
            /\ IsCopied(s)' <=> drawn'[s] = NULL /\ copy'[s] # NULL
            /\ IsCopied(s) <=> drawn[s] = NULL /\ copy[s] # NULL
        BY <2>3 DEF ShownOf, IsCopied, Flushing
      <4>5. /\ ShownOf(s)' = IF Nexts(s) # Nothing THEN Nexts(s) ELSE ShownOf(s)
            /\ IsCopied(s)' <=> IsCopied(s) /\ Nexts(s) = Nothing
        <5>1. CASE cached[s].newly \/ pending[s].newly
          <6> DEFINE b == IF pending[s].newly THEN pending[s].buffer
                          ELSE cached[s].buffer
          <6>1. b # Nothing
            BY <1>0, NothingAssumption DEF StateType, CacheType
          <6>2. Nexts(s) = b
            BY <1>2, <5>1 DEF NextOf, NextWith
          <6>3. drawn'[s] = b /\ copy'[s] = NULL
            BY <1>0, <2>1, <5>1 DEF ShowsNow
          <6> QED BY <4>4, <6>1, <6>2, <6>3 DEF Shown
        <5>2. CASE ~(cached[s].newly \/ pending[s].newly)
          <6>1. Nexts(s) = Nothing
            BY <1>2, <5>2 DEF NextOf, NextWith
          <6>2. drawn'[s] = drawn[s] /\ copy'[s] = copy[s]
            BY <1>0, <2>1, <5>2 DEF ShowsNow
          <6> QED BY <4>4, <6>1, <6>2 DEF Shown
        <5> QED BY <5>1, <5>2
      <4> QED BY <2>2, <3>1, <4>2, <4>3, <4>5
    <3>2. CASE t # s
      <4>1. UNCHANGED <<drawn[t], copy[t], cached[t], frames[t], pending[t]>>
        BY <1>0, <2>1, <3>2 DEF ShowsNow
      <4>2. /\ NextOf(t)' = IF t \in Dependents(s) THEN Nothing ELSE NextOf(t)
            /\ ShownOf(t)' = IF t \in Dependents(s) /\ NextOf(t) # Nothing
                             THEN NextOf(t) ELSE ShownOf(t)
            /\ IsCopied(t)' <=> /\ IsCopied(t)
                                /\ ~(t \in Dependents(s) /\ NextOf(t) # Nothing)
            /\ DueOf(t)' = IF t \in Dependents(s) THEN DueOf(t) \cup AskedOf(t)
                           ELSE DueOf(t)
            /\ AskedOf(t)' = IF t \in Dependents(s) THEN {} ELSE AskedOf(t)
        BY <1>4, <2>2, <4>1, FlushesPromised
      <4>3. ToldOf(t)' = ToldOf(t)
        BY <4>1 DEF ToldOf
      <4>4. t \in S <=> t \in Dependents(s)
        BY <2>2, <3>2
      <4> HIDE DEF S
      <4> QED BY <3>2, <4>1, <4>2, <4>3, <4>4 DEF NextWith, AskedWith
    <3> QED BY <3>1, <3>2
  <2>5. S \in SUBSET Surfaces
    BY <2>2
  <2> QED BY <1>1, <2>4, <2>5, ShownCommit
<1> QED BY <1>3, <1>4 DEF Commit

\* A cache that is flushed shows what the commit has already promised.
LEMMA FlushPromised ==
    ASSUME IInv, NEW s \in Surfaces, Flush(s)
    PROVE  UNCHANGED Promise!vars
<1>0. /\ cached \in [Surfaces -> CacheType]
      /\ drawn \in [Surfaces -> Buffers \cup {NULL}]
      /\ copy \in [Surfaces -> Buffers \cup {NULL}]
      /\ frames \in [Surfaces -> SUBSET Frames]
  BY Types DEF IInv
<1>1. /\ s \in flushing /\ flushing' = flushing \ {s} /\ UNCHANGED tree_vars
  BY DEF Flush
<1>2. /\ ShowsNow(s, cached[s].newly, cached[s].buffer)
      /\ frames' = [frames EXCEPT ![s] = frames[s] \cup cached[s].frames]
      /\ pending' = pending
      /\ cached' = [cached EXCEPT ![s] = EmptyCache]
  BY CacheCommit DEF Flush, IInv
<1>3. ASSUME NEW t \in Surfaces
      PROVE  /\ NextOf(t)' = NextOf(t) /\ ShownOf(t)' = ShownOf(t)
             /\ IsCopied(t)' = IsCopied(t)
             /\ DueOf(t)' = DueOf(t) /\ AskedOf(t)' = AskedOf(t)
  <2>1. CASE t = s
    <3>1. /\ cached'[s] = EmptyCache /\ s \notin flushing'
          /\ frames'[s] = frames[s] \cup cached[s].frames
          /\ drawn'[s] = IF cached[s].newly THEN cached[s].buffer ELSE drawn[s]
          /\ copy'[s] = IF cached[s].newly THEN NULL ELSE copy[s]
      BY <1>0, <1>1, <1>2 DEF ShowsNow
    <3>2. NextOf(s)' = NextOf(s) /\ DueOf(s)' = DueOf(s) /\ AskedOf(s)' = AskedOf(s)
      BY <1>1, <3>1, Empties DEF NextOf, DueOf, AskedOf
    <3>3. ShownOf(s)' = ShownOf(s) /\ IsCopied(s)' = IsCopied(s)
      BY <1>1, <3>1 DEF ShownOf, IsCopied, Flushing, Shown
    <3> QED BY <2>1, <3>2, <3>3
  <2>2. CASE t # s
    <3>1. /\ UNCHANGED <<drawn[t], copy[t], cached[t], frames[t]>>
          /\ t \in flushing' <=> t \in flushing
      BY <1>0, <1>1, <1>2, <2>2 DEF ShowsNow
    <3>2. DueOf(t)' = DueOf(t) /\ AskedOf(t)' = AskedOf(t)
      BY <3>1 DEF DueOf, AskedOf
    <3> QED BY <3>1, <3>2, Views
  <2> QED BY <2>1, <2>2
<1> QED BY <1>1, <1>2, <1>3
        DEF Promise!vars, Promise!tree_vars, Promise!show_vars, tree_vars,
            NextOf, ShownOf, IsCopied, DueOf, AskedOf

\* Every step is one of the promise, or none.
LEMMA StepPromised ==
    ASSUME IInv, [Next]_vars
    PROVE  [Promise!Next]_(Promise!vars)
<1>1. CASE UNCHANGED vars
  BY <1>1 DEF vars, tree_vars, use_vars, Promise!vars, Promise!tree_vars,
              Promise!show_vars, Flushing, Shown
<1>2. CASE flushing = {} /\ Request
  <2>1. ASSUME NEW s \in Surfaces,
               \/ Create(s) \/ Commit(s) \/ Desync(s) \/ Sync(s)
               \/ SubsurfaceDestroyed(s) \/ Destroyed(s) \/ Repaint(s)
               \/ \E b \in Buffers \cup {NULL} : Attach(s, b)
               \/ \E f \in Frames : Frame(s, f)
               \/ \E p \in Surfaces : GetSubsurface(s, p)
        PROVE  \/ Promise!Commit(s) \/ Promise!Desync(s) \/ Promise!Sync(s)
               \/ Promise!Unlink(s) \/ Promise!Create(s) \/ Promise!Destroy(s)
               \/ Promise!Repaint(s)
               \/ \E b \in Buffers \cup {NULL} : Promise!Tell(s, b)
               \/ \E f \in Frames : Promise!Want(s, f)
               \/ \E p \in Surfaces : Promise!Link(s, p)
    BY <1>2, <2>1, AttachPromised, FramePromised, RepaintPromised, TreePromised,
       SubsurfaceDestroyedPromised, DestroyedPromised, DesyncPromised,
       CommitPromised
  <2>2. ASSUME NEW b \in Buffers, BufferDestroyed(b)
        PROVE  Promise!BufferGone(b)
    BY <1>2, <2>2, BufferDestroyedPromised
  <2> QED BY <1>2, <2>1, <2>2 DEF Request, Promise!Next
<1>3. CASE \E s \in Surfaces : Flush(s)
  BY <1>3, FlushPromised
<1> QED BY <1>1, <1>2, <1>3 DEF Next

\* The caches implement what is promised of the surfaces: a commit takes
\* effect at once for all that waits for it, one cache after the other, and no
\* buffer let go of early changes what is shown.
THEOREM PromiseKept == Spec => KeepsPromise
BY AlwaysIInv, InitPromised, StepPromised, PTL DEF Spec, KeepsPromise, Promise!Spec

=============================================================================
