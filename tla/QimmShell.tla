------------------------------ MODULE QimmShell ------------------------------
(***************************************************************************)
(* The qimm shell: the outputs and projects of QimmOutputs, which show the *)
(* projects whose clients QimmClients starts, under one event loop.        *)
(*                                                                         *)
(* Output events come in batches: weston_compositor_call_heads_changed is  *)
(* an idle callback that looks at each head once, and the startups queued  *)
(* by the shell run behind it, before the loop takes anything from a file  *)
(* descriptor (the death of a client, a request of a client).              *)
(***************************************************************************)
EXTENDS QimmOutputs
Seqs == INSTANCE SequencesExt

CONSTANTS LayoutCount, Clients, Other,
          ClientsFail   \* whether a client can fail to start, or die

ASSUME ClientsFailAssumption == ClientsFail \in BOOLEAN
ASSUME LayoutCountAssumption == LayoutCount \in Nat \ {0}
ASSUME ClientsAssumption ==
    NULL \notin Clients \cup {Other} /\ Other \notin Clients
ASSUME LayoutsAssumption == NULL \notin Projects \X (1..LayoutCount)

VARIABLES
    idle, layout_client, alive, client_layout, found,
    batch,  \* the monitors the running heads_changed callback has treated
    unlucky \* whether a client has failed to start, or has died

clients == <<idle, layout_client, alive, client_layout, found>>
shell_vars == <<vars, clients, batch, unlucky>>

\* Mutant: the last output of the list is not searched.
SearchOrderShort ==
    Seqs!FlattenSeq([i \in 1..(IF outputs = <<>> THEN 0 ELSE Len(outputs) - 1) |->
                    projects[outputs[i]]])

\* qimm_layout_find_by_client goes through every project of every output
SearchOrder == Seqs!FlattenSeq([i \in DOMAIN outputs |-> projects[outputs[i]]])

C == INSTANCE QimmClients WITH order <- SearchOrder, MaxQueue <- 0

ShellInit == Init /\ C!ClientsInit /\ batch = {} /\ unlucky = FALSE

-----------------------------------------------------------------------------
\* the outputs on which qimm_project_show changes the project on show
ShownBy == {s \in Slots : project_cur'[s] \notin {project_cur[s], NULL}}

\* Mutant: clients are started on the first output only.
HandlerStepFirst ==
    /\ Run
    /\ IF pc' \in Stopped
       THEN C!ClientsEnd /\ found' = C!NoSearch
       ELSE IF ShownBy = {} \/ ShownBy # {Head(outputs)}
       THEN UNCHANGED clients
       ELSE \E s \in ShownBy : C!ProjectStart(project_cur'[s])
    /\ batch' = IF pc' \in Stopped THEN {} ELSE batch
    /\ unlucky' = (unlucky /\ pc' \notin Stopped)

\* a step of a handler; qimm_project_show starts the clients of the project
\* it has just put on show
HandlerStep ==
    /\ Run
    /\ IF pc' \in Stopped
       THEN C!ClientsEnd /\ found' = C!NoSearch
       ELSE IF ShownBy = {}
       THEN UNCHANGED clients
       ELSE \E s \in ShownBy : C!ProjectStart(project_cur'[s])
    /\ batch' = IF pc' \in Stopped THEN {} ELSE batch
    /\ unlucky' = (unlucky /\ pc' \notin Stopped)

\* a monitor is treated once in a batch; an empty queue ends the batch
OutputEvent(m) ==
    /\ m \notin batch \/ C!NoneQueued
    /\ \/ OutputCreated(m)
       \/ \E s \in Slots : output[s] = m /\ OutputDestroyed(s)
    /\ batch' = IF C!NoneQueued THEN {m} ELSE batch \cup {m}
    /\ UNCHANGED <<clients, unlucky>>

\* Mutant: a startup that fails is tried again, for ever.
RunStartupRetried ==
    /\ pc = "idle"
    /\ \E l \in C!Layouts :
        C!Launch(l) \/ (ClientsFail /\ idle[l] > 0 /\ UNCHANGED clients)
    /\ UNCHANGED <<vars, batch, unlucky>>

RunStartup ==
    /\ pc = "idle"
    /\ \E l \in C!Layouts :
        \/ C!Launch(l) /\ UNCHANGED unlucky
        \/ ClientsFail /\ C!LaunchFails(l) /\ unlucky' = TRUE
    /\ UNCHANGED <<vars, batch>>

\* requests and hang-ups are read when no idle callback is left
ClientEvent ==
    /\ pc = "idle" /\ C!NoneQueued
    /\ \/ \E c \in Clients : C!ClientDestroyed(c) /\ ClientsFail /\ unlucky' = TRUE
       \/ \E c \in Clients \cup {Other} : C!SurfaceAdded(c) /\ UNCHANGED unlucky
    /\ batch' = {}
    /\ UNCHANGED vars

SurfaceCrash ==
    /\ pc = "idle" /\ C!NoneQueued
    /\ \E c \in Clients \cup {Other} : C!SurfaceCrash(c)
    /\ Exit("down")
    /\ batch' = {} /\ unlucky' = FALSE
    /\ UNCHANGED <<disk, faults>>

ShellStart == Start /\ UNCHANGED <<clients, batch, unlucky>>

\* Mutant: queued startups outlive the projects they point to.
ShellEndQueued ==
    /\ Crash \/ (Shutdown /\ C!NoneQueued)
    /\ UNCHANGED clients
    /\ batch' = {} /\ unlucky' = FALSE

ShellEnd ==
    /\ Crash \/ (Shutdown /\ C!NoneQueued)
    /\ C!ProjectsClear
    /\ batch' = {} /\ unlucky' = FALSE

ShellNext ==
    \/ HandlerStep
    \/ \E m \in Monitors : OutputEvent(m)
    \/ RunStartup \/ ClientEvent \/ SurfaceCrash
    \/ ShellStart \/ ShellEnd

\* a handler keeps running, and the loop gets to its idle callbacks
ShellSpec == /\ ShellInit /\ [][ShellNext]_shell_vars
             /\ WF_shell_vars(HandlerStep) /\ WF_shell_vars(RunStartup)

-----------------------------------------------------------------------------
(* What must hold.                                                         *)

\* Until a client fails, a shell at rest has a client in every layout of every
\* project on show, on whichever output the project ended up.
ShownIsStarted ==
    ~unlucky /\ pc = "idle" /\ C!NoneQueued =>
        \A s \in Range(outputs) : project_cur[s] # NULL =>
            \A i \in 1..LayoutCount :
                layout_client[<<project_cur[s], i>>] # NULL

\* Queued startups are for projects the shell has: no layout is freed before
\* its startup, which holds a pointer to it, has run.
StartupsHaveProjects ==
    \A l \in C!Layouts : idle[l] > 0 => l[1] \in InUse

\* Every queue of startups is run to its end, unless the process ends.
StartupsRun == ~C!NoneQueued ~> C!NoneQueued

\* Whichever outputs its project has been moved between, the surface of a
\* client is given the layout the client was started for.
SurfaceFindsLayout == C!FoundIsOwn

\* No request for a surface ends the shell.
SurfacesAreSafe == C!SurfacesAreSafe
=============================================================================
