----------------------------- MODULE QimmClients -----------------------------
(***************************************************************************)
(* The client processes the qimm shell starts for the layouts of a project *)
(* (src/qimm/shell/client.c, process.c and layout.c), and the search that  *)
(* gives a new surface the layout its client was started for.              *)
(*                                                                         *)
(* Showing a project queues a startup for each of its layouts without a    *)
(* client; the event loop runs the queue when it is idle.  Which projects  *)
(* there are, in which order the search meets them and when one is shown   *)
(* is decided elsewhere (QimmOutputs); here, in Spec, by the environment.  *)
(***************************************************************************)
EXTENDS Naturals, Sequences, FiniteSets, Functions

CONSTANTS
    Projects,
    LayoutCount,    \* the layouts of a project
    Clients,        \* addresses malloc can give a struct qimm_client
    Other,          \* any client the shell has not started
    MaxQueue,       \* bound of Spec: startups queued for a layout
    NULL

ASSUME MaxQueueAssumption == MaxQueue \in Nat
ASSUME LayoutCountAssumption == LayoutCount \in Nat \ {0}
ASSUME ClientsAssumption ==
    NULL \notin Clients \cup {Other} /\ Other \notin Clients

Layouts == Projects \X (1..LayoutCount)
ASSUME LayoutsAssumption == NULL \notin Layouts

VARIABLES
    order,          \* the projects as qimm_layout_find_by_client meets them
    idle,           \* how many startups wl_event_loop_add_idle holds for each
    layout_client,  \* qimm_layout::client
    alive,          \* the qimm_clients, each with a wl_client
    client_layout,  \* qimm_client::layout
    found           \* what the last search was for and what it returned

client_vars == <<idle, layout_client, alive, client_layout, found>>

NoSearch == [for |-> NULL, layout |-> NULL, crash |-> FALSE]
NoneQueued == \A l \in Layouts : idle[l] = 0

ClientsInit ==
    /\ idle = [l \in Layouts |-> 0]
    /\ layout_client = [l \in Layouts |-> NULL]
    /\ alive = {}
    /\ client_layout = [c \in Clients |-> NULL]
    /\ found = NoSearch

-----------------------------------------------------------------------------
\* qimm_client_project_start, the end of qimm_project_show: a startup for
\* every layout of p without a client
ProjectStart(p) ==
    /\ idle' = [l \in Layouts |->
                    IF l[1] = p /\ layout_client[l] = NULL THEN idle[l] + 1
                                                          ELSE idle[l]]
    /\ found' = NoSearch
    /\ UNCHANGED <<layout_client, alive, client_layout>>

\* the idle callback for l is taken from the loop
Dequeue(l) == idle[l] > 0 /\ idle' = [idle EXCEPT ![l] = @ - 1]

\* qimm_client_launch_process and qimm_client_start_layout_func
Launch(l) ==
    /\ Dequeue(l)
    /\ \E c \in Clients \ alive :
        /\ alive' = alive \cup {c}
        /\ layout_client' = [layout_client EXCEPT ![l] = c]
        /\ client_layout' = [client_layout EXCEPT ![c] = l]
    /\ found' = NoSearch

\* the process could not be started: the layout stays as it is
LaunchFails(l) ==
    /\ Dequeue(l)
    /\ found' = NoSearch
    /\ UNCHANGED <<layout_client, alive, client_layout>>

\* Mutant: the layout keeps its pointer to the freed client.
ClientFreed(c) ==
    /\ c \in alive
    /\ alive' = alive \ {c}
    /\ client_layout' = [client_layout EXCEPT ![c] = NULL]
    /\ found' = NoSearch
    /\ UNCHANGED <<idle, layout_client>>

\* destroy_shell_client_process: the wl_client of c is destroyed, as its
\* process has ended or broken the protocol; it clears whatever client the
\* layout of c has
ClientDestroyed(c) ==
    /\ c \in alive
    /\ alive' = alive \ {c}
    /\ layout_client' = [layout_client EXCEPT ![client_layout[c]] = NULL]
    /\ client_layout' = [client_layout EXCEPT ![c] = NULL]
    /\ found' = NoSearch
    /\ UNCHANGED idle

-----------------------------------------------------------------------------
(* qimm_layout_find_by_client: a project of the order after the other, and *)
(* of each one layout after the other.                                     *)

Steps == (1..Len(order)) \X (1..LayoutCount)
LayoutAt(k) == <<order[k[1]], k[2]>>
NotAfter(j, k) == j[1] < k[1] \/ (j[1] = k[1] /\ j[2] <= k[2])

\* Mutant: the search stops at the first layout that has a client.
EndsAnywhere(c) == {k \in Steps : layout_client[LayoutAt(k)] # NULL}

\* it compares layout->client->client with the client it is for, and ends
\* there, or at a layout without a client, which ends the process
Ends(c) == {k \in Steps : layout_client[LayoutAt(k)] \in {c, NULL}}
First(c) == {k \in Ends(c) : \A j \in Ends(c) : NotAfter(k, j)}

\* desktop_surface_added, for a surface of c
SurfaceAdded(c) ==
    /\ c \in alive \cup {Other}
    /\ \/ /\ Ends(c) = {}
          /\ found' = [for |-> c, layout |-> NULL, crash |-> FALSE]
       \/ \E k \in First(c) :
          /\ layout_client[LayoutAt(k)] # NULL
          /\ found' = [for |-> c, layout |-> LayoutAt(k), crash |-> FALSE]
    /\ UNCHANGED <<idle, layout_client, alive, client_layout>>

\* all that is left of a process that has ended
ClientsEnd ==
    /\ idle' = [l \in Layouts |-> 0]
    /\ layout_client' = [l \in Layouts |-> NULL]
    /\ alive' = {}
    /\ client_layout' = [c \in Clients |-> NULL]

\* layout->client is NULL
SurfaceCrash(c) ==
    /\ c \in alive \cup {Other}
    /\ \E k \in First(c) : layout_client[LayoutAt(k)] = NULL
    /\ ClientsEnd
    /\ found' = [for |-> c, layout |-> NULL, crash |-> TRUE]

\* The end of the shell.  qimm_layout_project_clear destroys, for every project,
\* the client of each layout and asserts (layout.c:95) that this has cleared
\* it, which LayoutClientValid implies.  A client that no layout points to any
\* more is left to the end of the process, before which no callback of its runs.
ProjectsClear == ClientsEnd /\ found' = NoSearch

-----------------------------------------------------------------------------
(* The environment: projects come, change places and are shown.            *)

ClientStep ==
    \/ \E l \in Layouts : Launch(l) \/ LaunchFails(l)
    \/ \E c \in Clients : ClientDestroyed(c)
    \/ \E c \in Clients \cup {Other} : SurfaceAdded(c)

\* an output is created, with a new project, or projects change places
Arrive(p) == p \notin Range(order) /\ order' = Append(order, p)
Permute == /\ order' \in [1..Len(order) -> Range(order)]
           /\ Range(order') = Range(order)

Init == order = <<>> /\ ClientsInit

Next ==
    \/ ClientStep /\ UNCHANGED order
    \/ \E p \in Projects : Arrive(p) /\ UNCHANGED client_vars
    \/ Permute /\ UNCHANGED client_vars
    \/ \E p \in Range(order) :
        /\ \A l \in Layouts : l[1] = p => idle[l] < MaxQueue
        /\ ProjectStart(p) /\ UNCHANGED order
    \/ \E c \in Clients \cup {Other} : SurfaceCrash(c) /\ order' = <<>>
    \/ ProjectsClear /\ order' = <<>>

Spec == Init /\ [][Next]_<<order, client_vars>>

-----------------------------------------------------------------------------
(* What must hold.                                                         *)

\* Every variable holds values of its type.
ClientsTypeOK ==
    /\ order \in Seq(Projects)
    /\ idle \in [Layouts -> Nat]
    /\ layout_client \in [Layouts -> Clients \cup {NULL}]
    /\ alive \in SUBSET Clients
    /\ client_layout \in [Clients -> Layouts \cup {NULL}]
    /\ found \in [for : Clients \cup {Other, NULL},
                  layout : Layouts \cup {NULL}, crash : BOOLEAN]

\* A layout never points to a freed client, nor to one that was started for
\* another layout, however often its project is shown and its clients die:
\* destroying the client of a layout clears it, as layout.c:95 asserts.
LayoutClientValid ==
    \A l \in Layouts : layout_client[l] # NULL =>
        /\ layout_client[l] \in alive
        /\ client_layout[layout_client[l]] = l

\* A surface gets the layout its client was started for, or none; and none
\* only when that layout has another client by now.
FoundIsOwn ==
    found.for \in alive =>
        IF found.layout # NULL
        THEN client_layout[found.for] = found.layout
        ELSE layout_client[client_layout[found.for]] # found.for

\* A new surface never ends the shell.
SurfacesAreSafe == ~found.crash
=============================================================================
