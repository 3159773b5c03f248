-------------------------- MODULE QimmClients_proofs --------------------------
(***************************************************************************)
(* Proofs about QimmClients: for any number of projects, layouts and       *)
(* clients, a layout points to no freed client, and a surface is given the *)
(* layout its client was started for.                                      *)
(***************************************************************************)
EXTENDS QimmClients, TLAPS

all_vars == <<order, client_vars>>

-----------------------------------------------------------------------------
(* The inductive invariant.  LayoutClientValid needs nothing but the types *)
(* of the variables; that a search which finds nothing has met the layout  *)
(* of the client needs that this layout is among those searched, and so    *)
(* that startups are queued, and clients started, for projects there are.  *)

QueuedInOrder == \A l \in Layouts : idle[l] > 0 => l[1] \in Range(order)

StartedInOrder ==
    \A c \in alive : /\ client_layout[c] \in Layouts
                     /\ client_layout[c][1] \in Range(order)

IInv == /\ ClientsTypeOK
        /\ LayoutClientValid
        /\ QueuedInOrder
        /\ StartedInOrder
        /\ FoundIsOwn

-----------------------------------------------------------------------------
(* Layouts and sequences.                                                  *)

\* A layout is a project and a number.
LEMMA LayoutPair ==
    ASSUME NEW l \in Layouts
    PROVE  l[1] \in Projects /\ l[2] \in 1..LayoutCount /\ l = <<l[1], l[2]>>
BY DEF Layouts

\* The elements of a sequence are those at its positions.
LEMMA RangeOfSeq ==
    ASSUME NEW S, NEW s \in Seq(S)
    PROVE  /\ Range(s) \subseteq S
           /\ \A e \in Range(s) : \E i \in 1..Len(s) : s[i] = e
           /\ \A i \in 1..Len(s) : s[i] \in Range(s)
BY DEF Range

\* A new project leaves the others where they are.
LEMMA AppendRange ==
    ASSUME NEW S, NEW s \in Seq(S), NEW e \in S
    PROVE  Append(s, e) \in Seq(S) /\ Range(s) \subseteq Range(Append(s, e))
BY DEF Range

\* A search meets layouts, and every layout of a project it meets.
LEMMA Searched ==
    ASSUME ClientsTypeOK
    PROVE  /\ \A k \in Steps : LayoutAt(k) \in Layouts
           /\ \A l \in Layouts : l[1] \in Range(order) =>
                \E k \in Steps : LayoutAt(k) = l
<1>0. order \in Seq(Projects)
  BY DEF ClientsTypeOK
<1>1. ASSUME NEW k \in Steps PROVE LayoutAt(k) \in Layouts
  <2>1. k[1] \in 1..Len(order) /\ k[2] \in 1..LayoutCount
    BY <1>1 DEF Steps
  <2>2. order[k[1]] \in Projects
    BY <1>0, <2>1, RangeOfSeq
  <2> QED BY <2>1, <2>2 DEF LayoutAt, Layouts
<1>2. ASSUME NEW l \in Layouts, l[1] \in Range(order)
      PROVE  \E k \in Steps : LayoutAt(k) = l
  <2>1. PICK i \in 1..Len(order) : order[i] = l[1]
    BY <1>0, <1>2, RangeOfSeq
  <2>2. l[2] \in 1..LayoutCount /\ l = <<l[1], l[2]>>
    BY LayoutPair
  <2>3. <<i, l[2]>> \in Steps
    BY <2>1, <2>2 DEF Steps
  <2>4. LayoutAt(<<i, l[2]>>) = l
    BY <2>1, <2>2 DEF LayoutAt
  <2> QED BY <2>3, <2>4
<1> QED BY <1>1, <1>2

-----------------------------------------------------------------------------
(* One lemma for each action: it preserves the invariant.                  *)

\* Projects that come or change places are still searched.
Reordered == order' \in Seq(Projects) /\ Range(order) \subseteq Range(order')

\* Showing a project queues startups for a project there is, whatever the
\* handler that shows it does to the lists.
LEMMA ProjectStartStep ==
    ASSUME IInv, NEW p \in Range(order'), ProjectStart(p), Reordered
    PROVE  IInv'
<1> USE DEF IInv, ClientsTypeOK, Reordered
<1>1. ClientsTypeOK'
  BY DEF ProjectStart, NoSearch
<1>2. LayoutClientValid'
  BY DEF ProjectStart, LayoutClientValid
<1>3. QueuedInOrder'
  BY DEF ProjectStart, QueuedInOrder
<1>4. StartedInOrder'
  BY DEF ProjectStart, StartedInOrder
<1>5. FoundIsOwn'
  BY ClientsAssumption DEF ProjectStart, FoundIsOwn, NoSearch
<1> QED BY <1>1, <1>2, <1>3, <1>4, <1>5

\* Taking a startup from the queue takes nothing else.
LEMMA DequeueStep ==
    ASSUME IInv, NEW l \in Layouts, Dequeue(l), UNCHANGED order
    PROVE  /\ idle' \in [Layouts -> Nat]
           /\ QueuedInOrder'
           /\ l[1] \in Range(order)
BY DEF IInv, ClientsTypeOK, Dequeue, QueuedInOrder

\* A started client is a new one: no layout but its own can point to it.
LEMMA LaunchStep ==
    ASSUME IInv, NEW l \in Layouts, Launch(l), UNCHANGED order
    PROVE  IInv'
<1> USE DEF IInv, ClientsTypeOK
<1>1. PICK c \in Clients \ alive :
        /\ alive' = alive \cup {c}
        /\ layout_client' = [layout_client EXCEPT ![l] = c]
        /\ client_layout' = [client_layout EXCEPT ![c] = l]
  BY DEF Launch
<1>2. Dequeue(l) /\ found' = NoSearch
  BY DEF Launch
<1>3. ClientsTypeOK'
  BY <1>1, <1>2, DequeueStep DEF NoSearch
<1>4. LayoutClientValid'
  <2> SUFFICES ASSUME NEW k \in Layouts, layout_client'[k] # NULL
               PROVE  /\ layout_client'[k] \in alive'
                      /\ client_layout'[layout_client'[k]] = k
    BY DEF LayoutClientValid
  <2>1. CASE k = l
    BY <1>1, <2>1
  <2>2. CASE k # l
    BY <1>1, <2>2 DEF LayoutClientValid
  <2> QED BY <2>1, <2>2
<1>5. StartedInOrder'
  BY <1>1, <1>2, DequeueStep DEF StartedInOrder
<1>6. FoundIsOwn'
  BY <1>1, <1>2, ClientsAssumption DEF FoundIsOwn, NoSearch
<1> QED BY <1>2, <1>3, <1>4, <1>5, <1>6, DequeueStep

\* A startup that fails leaves everything else as it is.
LEMMA LaunchFailsStep ==
    ASSUME IInv, NEW l \in Layouts, LaunchFails(l), UNCHANGED order
    PROVE  IInv'
<1> USE DEF IInv, ClientsTypeOK, LaunchFails
<1>1. ClientsTypeOK'
  BY DequeueStep DEF NoSearch
<1>2. LayoutClientValid' /\ StartedInOrder'
  BY DEF LayoutClientValid, StartedInOrder
<1>3. FoundIsOwn'
  BY ClientsAssumption DEF FoundIsOwn, NoSearch
<1> QED BY <1>1, <1>2, <1>3, DequeueStep

\* The layout whose pointer is cleared is the only one that can point to the
\* client that goes.
LEMMA ClientDestroyedStep ==
    ASSUME IInv, NEW c \in Clients, ClientDestroyed(c), UNCHANGED order
    PROVE  IInv'
<1> USE DEF IInv, ClientsTypeOK, ClientDestroyed
<1>1. ClientsTypeOK'
  BY DEF NoSearch
<1>2. LayoutClientValid'
  BY DEF LayoutClientValid, StartedInOrder
<1>3. QueuedInOrder' /\ StartedInOrder'
  BY DEF QueuedInOrder, StartedInOrder
<1>4. FoundIsOwn'
  BY ClientsAssumption DEF FoundIsOwn, NoSearch
<1> QED BY <1>1, <1>2, <1>3, <1>4

\* A layout that is found has the client, and so is the client's own; if the
\* search ends nowhere, it has met the client's own layout, and it has another
\* client.
LEMMA SurfaceAddedStep ==
    ASSUME IInv, NEW c \in Clients \cup {Other}, SurfaceAdded(c),
           UNCHANGED order
    PROVE  IInv'
<1> USE DEF IInv
<1>1. ClientsTypeOK' /\ FoundIsOwn'
  <2>1. CASE /\ Ends(c) = {}
             /\ found' = [for |-> c, layout |-> NULL, crash |-> FALSE]
    <3>1. ClientsTypeOK'
      BY <2>1 DEF ClientsTypeOK, SurfaceAdded
    <3>2. ASSUME c \in alive PROVE layout_client[client_layout[c]] # c
      <4>1. PICK k \in Steps : LayoutAt(k) = client_layout[c]
        BY <3>2, Searched DEF StartedInOrder
      <4> QED BY <2>1, <4>1 DEF Ends
    <3>3. FoundIsOwn'
      BY <2>1, <3>2 DEF FoundIsOwn, SurfaceAdded
    <3> QED BY <3>1, <3>3
  <2>2. ASSUME NEW k \in First(c),
               layout_client[LayoutAt(k)] # NULL,
               found' = [for |-> c, layout |-> LayoutAt(k), crash |-> FALSE]
        PROVE  ClientsTypeOK' /\ FoundIsOwn'
    <3>1. k \in Steps /\ layout_client[LayoutAt(k)] = c
      BY <2>2 DEF First, Ends
    <3>2. LayoutAt(k) \in Layouts
      BY <3>1, Searched
    <3>3. ClientsTypeOK'
      BY <2>2, <3>2 DEF ClientsTypeOK, SurfaceAdded
    <3>4. client_layout[c] = LayoutAt(k)
      BY <2>2, <3>1, <3>2 DEF LayoutClientValid
    <3>5. LayoutAt(k) # NULL
      BY <3>2, LayoutsAssumption
    <3> QED BY <2>2, <3>3, <3>4, <3>5 DEF FoundIsOwn, SurfaceAdded
  <2> QED BY <2>1, <2>2 DEF SurfaceAdded
<1>2. LayoutClientValid' /\ QueuedInOrder' /\ StartedInOrder'
  BY DEF SurfaceAdded, LayoutClientValid, QueuedInOrder, StartedInOrder
<1> QED BY <1>1, <1>2

\* When the process has ended there is no client and no layout.
LEMMA ClientsEndStep ==
    ASSUME ClientsEnd, order' = <<>>,
           found' \in [for : Clients \cup {Other, NULL},
                       layout : Layouts \cup {NULL}, crash : BOOLEAN]
    PROVE  IInv'
<1> USE DEF ClientsEnd
<1>1. ClientsTypeOK'
  BY DEF ClientsTypeOK
<1>2. LayoutClientValid' /\ QueuedInOrder' /\ StartedInOrder' /\ FoundIsOwn'
  BY DEF LayoutClientValid, QueuedInOrder, StartedInOrder, FoundIsOwn
<1> QED BY <1>1, <1>2 DEF IInv

\* Nothing else changes when projects come or change places.
LEMMA OrderStep ==
    ASSUME IInv, Reordered, UNCHANGED client_vars
    PROVE  IInv'
<1> USE DEF IInv, client_vars, Reordered
<1>1. ClientsTypeOK'
  BY DEF ClientsTypeOK
<1>2. LayoutClientValid' /\ FoundIsOwn'
  BY DEF LayoutClientValid, FoundIsOwn
<1>3. QueuedInOrder' /\ StartedInOrder'
  BY DEF QueuedInOrder, StartedInOrder
<1> QED BY <1>1, <1>2, <1>3

\* The shell starts with nothing.
LEMMA InitInv == ASSUME Init PROVE IInv
<1>1. ClientsTypeOK
  BY DEF Init, ClientsInit, ClientsTypeOK, NoSearch
<1> QED BY <1>1, ClientsAssumption
    DEF Init, ClientsInit, NoSearch, IInv, LayoutClientValid,
        QueuedInOrder, StartedInOrder, FoundIsOwn

-----------------------------------------------------------------------------
(* The theorems.                                                           *)

\* IInv holds at the start and is preserved by every step.
THEOREM Inductive == Spec => []IInv
<1>1. Init => IInv
  BY InitInv
<1>2. IInv /\ [Next]_<<order, client_vars>> => IInv'
  <2> SUFFICES ASSUME IInv, [Next]_<<order, client_vars>> PROVE IInv'
    OBVIOUS
  <2>0. order \in Seq(Projects)
    BY DEF IInv, ClientsTypeOK
  <2>1. CASE ClientStep /\ UNCHANGED order
    BY <2>1, LaunchStep, LaunchFailsStep, ClientDestroyedStep,
       SurfaceAddedStep DEF ClientStep
  <2>2. ASSUME NEW p \in Projects, Arrive(p), UNCHANGED client_vars
        PROVE  IInv'
    BY <2>0, <2>2, AppendRange, OrderStep DEF Arrive, Reordered
  <2>3. CASE Permute /\ UNCHANGED client_vars
    <3>1. order' \in Seq(Projects)
      BY <2>0, <2>3, RangeOfSeq DEF Permute
    <3> QED BY <2>3, <3>1, OrderStep DEF Permute, Reordered
  <2>4. ASSUME NEW p \in Range(order), ProjectStart(p), UNCHANGED order
        PROVE  IInv'
    BY <2>0, <2>4, ProjectStartStep DEF Reordered
  <2>5. ASSUME NEW c \in Clients \cup {Other}, SurfaceCrash(c), order' = <<>>
        PROVE  IInv'
    BY <2>5, ClientsEndStep DEF SurfaceCrash
  <2>6. CASE ProjectsClear /\ order' = <<>>
    BY <2>6, ClientsEndStep DEF ProjectsClear, NoSearch
  <2>7. CASE UNCHANGED <<order, client_vars>>
    BY <2>0, <2>7, OrderStep DEF Reordered
  <2> QED BY <2>1, <2>2, <2>3, <2>4, <2>5, <2>6, <2>7 DEF Next
<1> QED BY <1>1, <1>2, PTL DEF Spec

\* Every variable keeps its type.
THEOREM TypeCorrect == Spec => []ClientsTypeOK
<1>1. IInv => ClientsTypeOK
  BY DEF IInv
<1> QED BY <1>1, Inductive, PTL

\* However often projects are shown and clients die, a layout points to no
\* freed client (qimm_layout_project_clear and the search read it), and to no
\* client of another layout.
THEOREM LayoutsPointToTheirClients == Spec => []LayoutClientValid
<1>1. IInv => LayoutClientValid
  BY DEF IInv
<1> QED BY <1>1, Inductive, PTL

\* A surface is never given the layout of another client, and goes without
\* one only if its client has been replaced in its layout.
THEOREM SurfacesFindTheirLayouts == Spec => []FoundIsOwn
<1>1. IInv => FoundIsOwn
  BY DEF IInv
<1> QED BY <1>1, Inductive, PTL
=============================================================================
