----------------------------- MODULE QimmOutputs -----------------------------
(***************************************************************************)
(* The output and project bookkeeping of the qimm shell                    *)
(* (src/qimm/shell/output.c, src/qimm/project/project.c and the part of    *)
(* src/qimm/project/data.c that keeps a project's home output on disk).    *)
(*                                                                         *)
(* The shell is one thread.  A signal handler runs to its end before the   *)
(* next event is taken, but it writes files on the way, and the process    *)
(* can be killed between two of these writes.  A handler that saves is     *)
(* therefore a sequence of steps, ordered by pc, with its local variables  *)
(* in h; a handler that does not is one action.                            *)
(*                                                                         *)
(*   load -> prepare -> fill [-> save -> write] -> show -> ... -> idle     *)
(*   idle -> restore <-> scan [-> save -> write -> scan | swap]            *)
(*        -> fill [-> save -> write] -> show -> idle                       *)
(***************************************************************************)
EXTENDS Naturals, Sequences, FiniteSets, Functions

CONSTANTS
    Monitors,   \* names a weston_output can have (connectors)
    Slots,      \* addresses malloc can give a struct qimm_output
    Projects,   \* addresses malloc can give a struct qimm_project
    Names,      \* names of projects: their directories under the data path
    Dashboard,  \* QIMM_PROJECT_NAME_DASHBOARD
    Assistant,  \* QIMM_PROJECT_NAME_ASSISTANT
    MayFail,    \* whether creating or saving a project can fail
    NULL

ASSUME NamesAssumption == {Dashboard, Assistant} \subseteq Names
ASSUME FailAssumption == MayFail \in BOOLEAN
ASSUME NullAssumption ==
    NULL \notin Monitors \cup Slots \cup Projects \cup Names
ASSUME PoolAssumption ==
    /\ IsFiniteSet(Monitors) /\ IsFiniteSet(Names)
    /\ IsFiniteSet(Projects) /\ IsFiniteSet(Slots)
    /\ Cardinality(Projects) >= Cardinality(Names) + Cardinality(Monitors) - 1
    /\ Cardinality(Slots) > Cardinality(Monitors)

VARIABLES
    wouts,      \* weston_compositor::output_list, as names, left to right
    disk,       \* name -> home output in its config.yaml, or Missing, or Torn
    outputs,    \* qimm_shell::outputs
    output,     \* qimm_output::output, by its name
    gone,       \* the slots whose weston_output has been freed
    projects,   \* qimm_output::projects
    project_cur,\* qimm_output::project_cur
    output_focus,
    name,       \* qimm_project::name, NULL for an address not in use
    proj_output,\* qimm_project::output
    output_name,\* qimm_project::output_name
    layers,     \* the projects whose weston_layer is in the scene
    layouted,   \* qimm_project::output_layouted
    pc, h, faults

disk_vars    == <<disk>>
output_vars  == <<outputs, output, gone, output_focus>>
list_vars    == <<projects, proj_output, output_name>>
show_vars    == <<project_cur, layers, layouted>>
vars == <<wouts, disk, outputs, output, gone, projects, project_cur,
          output_focus, name, proj_output, output_name, layers, layouted,
          pc, h, faults>>

Missing == "missing"    \* no directory for the name
Torn    == "torn"       \* a directory without a complete config.yaml

Stopped == {"down", "failed"}
Control == Stopped \cup {"load", "prepare", "idle", "restore", "scan", "save",
                         "write", "swap", "fill", "show"}
Faults == {"assert", "no output", "failed"}

-----------------------------------------------------------------------------
(* wl_list, as a sequence without duplicates.                              *)

IsList(s) == \A i, j \in DOMAIN s : s[i] = s[j] => i = j

Lists(S) ==
    {s \in UNION {[1..n -> S] : n \in 0..Cardinality(S)} : IsList(s)}

IndexOf(s, e) == CHOOSE i \in DOMAIN s : s[i] = e

\* wl_list_remove of the link of e, wherever it is
Unlink(s, e) ==
    IF e \in Range(s)
    THEN [j \in 1..Len(s) - 1 |-> IF j < IndexOf(s, e) THEN s[j] ELSE s[j + 1]]
    ELSE s

\* wl_list_insert behind the first n elements
InsertAfter(s, n, e) ==
    [j \in 1..Len(s) + 1 |-> IF j <= n THEN s[j]
                           ELSE IF j = n + 1 THEN e ELSE s[j - 1]]

-----------------------------------------------------------------------------
(* The local variables of the running handler.                             *)

NoFrame == [to   |-> NULL,  \* the output being filled
            boot |-> FALSE, \* running under wet_shell_init
            todo |-> <<>>,  \* what the outer loop has still to visit
            at   |-> NULL,  \* restore: the output being searched
            scan |-> <<>>,  \* restore: its projects still to look at
            pos  |-> 0,     \* restore: pos_old
            old  |-> NULL,  \* restore: project_old
            next |-> NULL,  \* restore: project_cur
            saving |-> NULL,\* the project whose config.yaml is written
            ret  |-> "idle"]\* where insert returns to

InUse == {p \in Projects : name[p] # NULL}
Live(s) == s \in Range(outputs) /\ s \notin gone
FreeSlots == Slots \ Range(outputs)
FreeProjects == Projects \ InUse

-----------------------------------------------------------------------------
(* A process that is not running keeps nothing but the files.              *)

Init ==
    /\ wouts = <<>> /\ outputs = <<>>
    /\ output = [s \in Slots |-> NULL] /\ gone = {}
    /\ projects = [s \in Slots |-> <<>>]
    /\ project_cur = [s \in Slots |-> NULL]
    /\ output_focus = NULL
    /\ name = [p \in Projects |-> NULL]
    /\ proj_output = [p \in Projects |-> NULL]
    /\ output_name = [p \in Projects |-> NULL]
    /\ layers = {}
    /\ layouted = [p \in Projects |-> NULL]
    /\ h = NoFrame
    /\ disk \in [Names -> Monitors \cup {Missing}]
    /\ pc = "down"
    /\ faults = {}

\* the process ends, in the way `how`
Exit(how) ==
    /\ wouts' = <<>> /\ outputs' = <<>>
    /\ output' = [s \in Slots |-> NULL] /\ gone' = {}
    /\ projects' = [s \in Slots |-> <<>>]
    /\ project_cur' = [s \in Slots |-> NULL]
    /\ output_focus' = NULL
    /\ name' = [p \in Projects |-> NULL]
    /\ proj_output' = [p \in Projects |-> NULL]
    /\ output_name' = [p \in Projects |-> NULL]
    /\ layers' = {}
    /\ layouted' = [p \in Projects |-> NULL]
    /\ h' = NoFrame
    /\ pc' = how

-----------------------------------------------------------------------------
(* Operations the handlers call.                                           *)

\* Mutant: the project is inserted without being taken from its old list.
InsertOnly(frame, s, pos, p, ret) ==
    /\ projects' = [projects EXCEPT ![s] = InsertAfter(@, pos, p)]
    /\ proj_output' = [proj_output EXCEPT ![p] = s]
    /\ output_name' = [output_name EXCEPT ![p] = output[s]]
    /\ pc' = "save"
    /\ h' = [frame EXCEPT !.saving = p, !.ret = ret]

\* Mutant: the project is not saved.
InsertUnsaved(frame, s, pos, p, ret) ==
    /\ projects' = [t \in Slots |-> IF t = s
                                    THEN InsertAfter(projects[s], pos, p)
                                    ELSE Unlink(projects[t], p)]
    /\ proj_output' = [proj_output EXCEPT ![p] = s]
    /\ output_name' = [output_name EXCEPT ![p] = output[s]]
    /\ pc' = ret
    /\ h' = frame

\* qimm_output_project_insert behind the first pos projects of s, up to the
\* save, which follows before anything else; the handler goes on at ret with
\* the locals in frame
Insert(frame, s, pos, p, ret) ==
    /\ projects' = [t \in Slots |-> IF t = s
                                    THEN InsertAfter(projects[s], pos, p)
                                    ELSE Unlink(projects[t], p)]
    /\ proj_output' = [proj_output EXCEPT ![p] = s]
    /\ output_name' = [output_name EXCEPT ![p] = output[s]]
    /\ pc' = "save"
    /\ h' = [frame EXCEPT !.saving = p, !.ret = ret]

\* qimm_layout_project_update: the layouts are placed again when the address of
\* the output has changed (where each of them goes is QimmFlow's)
PlaceLayouts(p) == layouted' = [layouted EXCEPT ![p] = proj_output[p]]

\* qimm_project_show
Show(p) ==
    LET s == proj_output[p] IN
    IF project_cur[s] = p
    THEN UNCHANGED show_vars
    ELSE /\ project_cur' = [project_cur EXCEPT ![s] = p]
         /\ layers' = (layers \ {project_cur[s]}) \cup {p}
         /\ PlaceLayouts(p)

-----------------------------------------------------------------------------
(* qimm_data_save_project.  fopen(path, "wb") empties the file, and only   *)
(* then is the document written.                                           *)

SaveOpen ==
    /\ pc = "save"
    /\ disk' = [disk EXCEPT ![name[h.saving]] = Torn]
    /\ pc' = "write"
    /\ UNCHANGED <<wouts, h, name, faults, output_vars, list_vars, show_vars>>

\* Mutant: the wrong field is written.
SaveWriteName ==
    /\ pc = "write"
    /\ disk' = [disk EXCEPT ![name[h.saving]] = name[h.saving]]
    /\ pc' = h.ret
    /\ UNCHANGED <<wouts, h, name, faults, output_vars, list_vars, show_vars>>

SaveWrite ==
    /\ pc = "write"
    /\ disk' = [disk EXCEPT ![name[h.saving]] = output_name[h.saving]]
    /\ pc' = h.ret
    /\ UNCHANGED <<wouts, h, name, faults, output_vars, list_vars, show_vars>>

\* a directory or a file that cannot be made, or a write that fails: the
\* handler logs it and goes on
SaveFails ==
    /\ MayFail
    /\ pc \in {"save", "write"}
    /\ pc' = h.ret
    /\ faults' = faults \cup {"failed"}
    /\ UNCHANGED <<wouts, disk, h, name, output_vars, list_vars, show_vars>>

-----------------------------------------------------------------------------
(* handle_output_create, on output_created_signal.                         *)

\* qimm_output_create, then into qimm_output_project_restore
OutputCreated(m) ==
    /\ pc = "idle"
    /\ m \notin Range(wouts)
    /\ FreeProjects # {}
    /\ wouts' = Append(wouts, m)
    /\ \E s \in FreeSlots :
        /\ outputs' = Append(outputs, s)
        /\ output' = [output EXCEPT ![s] = m]
        /\ output_focus' = IF output_focus = NULL THEN s ELSE output_focus
        /\ h' = [NoFrame EXCEPT !.to = s, !.todo = outputs]
    /\ pc' = "restore"
    /\ UNCHANGED <<disk, gone, name, faults, list_vars, show_vars>>

\* the outer loop of qimm_output_project_restore takes its next output
RestoreNextOutput ==
    /\ pc = "restore" /\ h.todo # <<>>
    /\ h' = [h EXCEPT !.at = Head(h.todo), !.todo = Tail(h.todo),
                      !.scan = projects[Head(h.todo)],
                      !.pos = 0, !.old = NULL, !.next = NULL]
    /\ pc' = "scan"
    /\ UNCHANGED <<wouts, disk, name, faults, output_vars, list_vars, show_vars>>

RestoreDone ==
    /\ pc = "restore" /\ h.todo = <<>>
    /\ pc' = "fill"
    /\ UNCHANGED <<wouts, disk, h, name, faults, output_vars, list_vars,
                   show_vars>>

\* Mutant: names are compared with the wrong output.
WantedThere(p) == output_name[p] = output[h.at]

\* the inner loop looks at a project
Wanted(p) == output_name[p] = output[h.to]

\* Mutant: the project on show is restored like any other.
RestoreInsertAny ==
    /\ pc = "scan" /\ h.scan # <<>>
    /\ LET p == Head(h.scan) IN
        /\ Wanted(p)
        /\ Insert([h EXCEPT !.scan = Tail(h.scan)],
                  h.to, Len(projects[h.to]), p, "scan")
    /\ UNCHANGED <<wouts, disk, name, faults, output_vars, show_vars>>

RestoreInsert ==
    /\ pc = "scan" /\ h.scan # <<>>
    /\ LET p == Head(h.scan) IN
        /\ Wanted(p)
        /\ project_cur[h.at] # p
        /\ Insert([h EXCEPT !.scan = Tail(h.scan)],
                  h.to, Len(projects[h.to]), p, "scan")
    /\ UNCHANGED <<wouts, disk, name, faults, output_vars, show_vars>>

\* Mutant: only a project before the one on show takes its place.
TakesPlaceBefore == h.old = NULL

\* the project to show instead is the last one before project_old, or the
\* first behind it
TakesPlace == h.old = NULL \/ h.next = NULL

\* Mutant: the loop does not advance past a project it skips.
RestoreLookAgain ==
    /\ pc = "scan" /\ h.scan # <<>>
    /\ LET p == Head(h.scan) IN
        \/ /\ Wanted(p) /\ project_cur[h.at] = p
           /\ h' = [h EXCEPT !.pos = Len(projects[h.to]), !.old = p]
        \/ /\ ~Wanted(p)
           /\ h' = [h EXCEPT !.next = IF TakesPlace THEN p ELSE h.next]
    /\ UNCHANGED <<wouts, disk, pc, name, faults, output_vars, list_vars,
                   show_vars>>

RestoreLook ==
    /\ pc = "scan" /\ h.scan # <<>>
    /\ LET p == Head(h.scan)
           rest == [h EXCEPT !.scan = Tail(h.scan)] IN
        \/ /\ Wanted(p) /\ project_cur[h.at] = p
           /\ h' = [rest EXCEPT !.pos = Len(projects[h.to]), !.old = p]
        \/ /\ ~Wanted(p)
           /\ h' = [rest EXCEPT !.next = IF TakesPlace THEN p ELSE h.next]
    /\ UNCHANGED <<wouts, disk, pc, name, faults, output_vars, list_vars,
                   show_vars>>

\* both the project on show and another to show in its place were found
RestoreShown ==
    /\ pc = "scan" /\ h.scan = <<>>
    /\ h.old # NULL /\ h.next # NULL
    /\ Insert(h, h.to, h.pos, h.old, "swap")
    /\ UNCHANGED <<wouts, disk, name, faults, output_vars, show_vars>>

\* Mutant: the old output goes on pointing to the project it has lost.
RestoreNoSwap ==
    /\ pc = "swap"
    /\ pc' = "restore"
    /\ UNCHANGED <<wouts, disk, h, name, faults, output_vars, list_vars,
                   show_vars>>

RestoreSwap ==
    /\ pc = "swap"
    /\ Show(h.next)
    /\ pc' = "restore"
    /\ UNCHANGED <<wouts, disk, h, name, faults, output_vars, list_vars>>

RestoreKeepShown ==
    /\ pc = "scan" /\ h.scan = <<>>
    /\ h.old = NULL \/ h.next = NULL
    /\ pc' = "restore"
    /\ UNCHANGED <<wouts, disk, h, name, faults, output_vars, list_vars,
                   show_vars>>

-----------------------------------------------------------------------------
(* An output without a project gets one, and the first of its projects is  *)
(* shown: the end of handle_output_create, and the loop of                 *)
(* qimm_project_prepare_for_output.                                        *)

FillCreate ==
    /\ pc = "fill"
    /\ projects[h.to] = <<>>
    /\ \E p \in FreeProjects :
        /\ name' = [name EXCEPT ![p] =
                        IF h.boot /\ h.to = Head(outputs) THEN Dashboard
                                                          ELSE Assistant]
        /\ Insert(h, h.to, 0, p, "show")
    /\ UNCHANGED <<wouts, disk, faults, output_vars, show_vars>>

\* qimm_project_create returns NULL: a new output stays empty, a starting
\* shell fails
FillFails ==
    /\ MayFail
    /\ pc = "fill"
    /\ projects[h.to] = <<>>
    /\ faults' = faults \cup {"failed"}
    /\ IF h.boot
       THEN Exit("failed") /\ UNCHANGED disk
       ELSE /\ pc' = "idle" /\ h' = NoFrame
            /\ UNCHANGED <<wouts, disk, name, output_vars, list_vars, show_vars>>

\* Mutant: only a project just created is shown.
FillNothingShown ==
    /\ pc = "fill"
    /\ projects[h.to] # <<>>
    /\ pc' = IF h.boot THEN "show" ELSE "idle"
    /\ h' = IF h.boot THEN h ELSE NoFrame
    /\ UNCHANGED <<wouts, disk, name, faults, output_vars, list_vars, show_vars>>

FillNothing ==
    /\ pc = "fill"
    /\ projects[h.to] # <<>>
    /\ pc' = "show"
    /\ UNCHANGED <<wouts, disk, h, name, faults, output_vars, list_vars,
                   show_vars>>

ShowFirst ==
    /\ pc = "show"
    /\ Show(Head(projects[h.to]))
    /\ IF h.boot THEN pc' = "prepare" /\ UNCHANGED h
                 ELSE pc' = "idle" /\ h' = NoFrame
    /\ UNCHANGED <<wouts, disk, name, faults, output_vars, list_vars>>

-----------------------------------------------------------------------------
(* handle_output_destroy, on weston_output::destroy_signal; the reflow of  *)
(* the other outputs has been done before.                                 *)

\* qimm_output_destroy of s, whose projects are gone and whose project_cur
\* is c: it asserts that c is NULL
Destroy(s, c) ==
    /\ outputs' = Unlink(outputs, s)
    /\ output' = [output EXCEPT ![s] = NULL]
    /\ project_cur' = [project_cur EXCEPT ![s] = NULL]
    /\ faults' = IF c = NULL THEN faults ELSE faults \cup {"assert"}

\* the output before s on qimm_shell::outputs, or the one behind it
Neighbour(s) ==
    LET i == IndexOf(outputs, s) IN
    IF i > 1 THEN outputs[i - 1] ELSE outputs[2]

\* Mutant: the back pointers of the moved projects are left behind.
MoveLinksOnly(from) ==
    LET to == Neighbour(from) IN
    /\ projects' = [projects EXCEPT ![to] = @ \o projects[from],
                                    ![from] = <<>>]
    /\ UNCHANGED <<proj_output, output_name>>

\* Mutant: the moved projects are named after their new output.
MoveAndRename(from) ==
    LET to == Neighbour(from) IN
    /\ projects' = [projects EXCEPT ![to] = @ \o projects[from],
                                    ![from] = <<>>]
    /\ proj_output' = [p \in Projects |-> IF p \in Range(projects[from])
                                          THEN to ELSE proj_output[p]]
    /\ output_name' = [p \in Projects |-> IF p \in Range(projects[from])
                                          THEN output[to] ELSE output_name[p]]

\* qimm_output_project_move(from), which leaves output_name alone so that
\* the projects can be restored
MoveProjects(from) ==
    LET to == Neighbour(from) IN
    /\ projects' = [projects EXCEPT ![to] = @ \o projects[from],
                                    ![from] = <<>>]
    /\ proj_output' = [p \in Projects |-> IF p \in Range(projects[from])
                                          THEN to ELSE proj_output[p]]
    /\ UNCHANGED output_name

\* Mutant: two outputs are taken for one.
LastOutputOfTwo == Len(outputs) <= 2

\* "no more output to move"
LastOutput == Len(outputs) < 2

OutputDestroyed(s) ==
    /\ pc = "idle"
    /\ Live(s)
    /\ wouts' = Unlink(wouts, output[s])
    /\ \/ /\ projects[s] = <<>>
          /\ Destroy(s, project_cur[s])
          /\ UNCHANGED <<gone, list_vars>>
       \/ /\ projects[s] # <<>>
          /\ LastOutput
          /\ gone' = gone \cup {s}
          /\ UNCHANGED <<outputs, output, project_cur, faults, list_vars>>
       \/ /\ projects[s] # <<>>
          /\ ~LastOutput
          /\ MoveProjects(s)
          /\ Destroy(s, NULL)
          /\ UNCHANGED gone
    /\ UNCHANGED <<disk, output_focus, name, layers, layouted, pc, h>>

-----------------------------------------------------------------------------
(* wet_shell_init and the end of the process.                              *)

\* qimm_output_init: a qimm_output for every weston_output, in their order;
\* then qimm_project_load_from_disk reads the directories as readdir gives them
Start ==
    /\ pc \in Stopped
    /\ wouts' \in Lists(Monitors)
    /\ outputs' \in {ss \in Lists(Slots) : Len(ss) = Len(wouts')}
    /\ output' = [s \in Slots |-> IF s \in Range(outputs')
                                  THEN wouts'[IndexOf(outputs', s)] ELSE NULL]
    /\ output_focus' = IF outputs' = <<>> THEN NULL ELSE Head(outputs')
    /\ \E dirs \in Lists(Names) :
        /\ Range(dirs) = {n \in Names : disk[n] # Missing}
        /\ h' = [NoFrame EXCEPT !.boot = TRUE, !.todo = dirs]
    /\ pc' = "load"
    /\ UNCHANGED <<disk, gone, name, faults, list_vars, show_vars>>

\* Mutant: the name of the output is not looked at.
OutputFirst(m) == Head(outputs)

\* qimm_output_find_by_name, or else qimm_output_get_default
OutputNamed(m) ==
    LET home == {s \in Range(outputs) : output[s] = m} IN
    IF home # {} THEN CHOOSE s \in home : TRUE ELSE Head(outputs)

\* qimm_project_read: onto the output of that name, or else the first one
LoadProject ==
    /\ pc = "load" /\ h.todo # <<>> /\ outputs # <<>>
    /\ disk[Head(h.todo)] # Torn
    /\ LET n == Head(h.todo)  to == OutputNamed(disk[n]) IN
       \E p \in FreeProjects :
        /\ name' = [name EXCEPT ![p] = n]
        /\ projects' = [projects EXCEPT ![to] = Append(@, p)]
        /\ proj_output' = [proj_output EXCEPT ![p] = to]
        /\ output_name' = [output_name EXCEPT ![p] = disk[n]]
    /\ h' = [h EXCEPT !.todo = Tail(@)]
    /\ UNCHANGED <<wouts, disk, pc, faults, output_vars, show_vars>>

\* an unreadable config.yaml, or a project that cannot be set up, makes
\* wet_shell_init fail
LoadFails ==
    /\ pc = "load" /\ h.todo # <<>>
    /\ disk[Head(h.todo)] = Torn \/ MayFail
    /\ Exit("failed")
    /\ UNCHANGED <<disk, faults>>

\* qimm_output_get_default gives NULL, and it is dereferenced
LoadNowhere ==
    /\ pc = "load" /\ h.todo # <<>> /\ outputs = <<>>
    /\ disk[Head(h.todo)] # Torn
    /\ Exit("failed")
    /\ faults' = faults \cup {"no output"}
    /\ UNCHANGED disk

LoadDone ==
    /\ pc = "load" /\ h.todo = <<>>
    /\ h' = [h EXCEPT !.todo = outputs]
    /\ pc' = "prepare"
    /\ UNCHANGED <<wouts, disk, name, faults, output_vars, list_vars, show_vars>>

\* the loop of qimm_project_prepare_for_output
Prepare ==
    /\ pc = "prepare"
    /\ IF h.todo = <<>>
       THEN pc' = "idle" /\ h' = NoFrame
       ELSE /\ h' = [h EXCEPT !.to = Head(h.todo), !.todo = Tail(h.todo)]
            /\ pc' = "fill"
    /\ UNCHANGED <<wouts, disk, name, faults, output_vars, list_vars, show_vars>>

\* qimm_shell_destroy.  qimm_project_unload empties every list and clears
\* project_cur where it is on the list; qimm_output_destroy then asserts both
Shutdown ==
    /\ pc = "idle"
    /\ Exit("down")
    /\ faults' = faults
        \cup {f \in {"assert"} : \E s \in Range(outputs) :
                project_cur[s] \notin Range(projects[s]) \cup {NULL}}
    /\ UNCHANGED disk

\* the process is killed, or the machine loses power
Crash ==
    /\ pc \notin Stopped
    /\ Exit("down")
    /\ UNCHANGED <<disk, faults>>

-----------------------------------------------------------------------------
Save == SaveOpen \/ SaveWrite \/ SaveFails
Restore == \/ RestoreNextOutput \/ RestoreDone \/ RestoreInsert \/ RestoreLook
           \/ RestoreShown \/ RestoreSwap \/ RestoreKeepShown
Fill == FillCreate \/ FillFails \/ FillNothing \/ ShowFirst
Load == LoadProject \/ LoadFails \/ LoadNowhere \/ LoadDone \/ Prepare

\* the code of the process between two events
Run == Save \/ Restore \/ Fill \/ Load

Event == \/ \E m \in Monitors : OutputCreated(m)
         \/ \E s \in Slots : OutputDestroyed(s)
         \/ Start \/ Shutdown \/ Crash

Next == Run \/ Event

\* a handler that has begun keeps running
Fairness == WF_vars(Run)

Spec == Init /\ [][Next]_vars /\ Fairness

-----------------------------------------------------------------------------
(* What must hold.                                                         *)

\* Every variable holds values of its type.
Frames ==
    [to : Slots \cup {NULL}, boot : BOOLEAN,
     todo : Seq(Slots) \cup Seq(Names), at : Slots \cup {NULL},
     scan : Seq(Projects), pos : Nat, old : Projects \cup {NULL},
     next : Projects \cup {NULL}, saving : Projects \cup {NULL},
     ret : {"idle", "scan", "swap", "show"}]

TypeOK ==
    /\ wouts \in Seq(Monitors)
    /\ disk \in [Names -> Monitors \cup {Missing, Torn}]
    /\ outputs \in Seq(Slots)
    /\ output \in [Slots -> Monitors \cup {NULL}]
    /\ gone \in SUBSET Slots
    /\ projects \in [Slots -> Seq(Projects)]
    /\ project_cur \in [Slots -> Projects \cup {NULL}]
    /\ output_focus \in Slots \cup {NULL}
    /\ name \in [Projects -> Names \cup {NULL}]
    /\ proj_output \in [Projects -> Slots \cup {NULL}]
    /\ output_name \in [Projects -> Monitors \cup {NULL}]
    /\ layers \in SUBSET Projects
    /\ layouted \in [Projects -> Slots \cup {NULL}]
    /\ pc \in Control
    /\ h \in Frames
    /\ faults \in SUBSET Faults

\* A project is on the list of exactly the output its back pointer names, and
\* on it once: output.c moves the link and the pointer in three places.
ListsAgree ==
    \A s \in Slots :
        /\ IsList(projects[s])
        /\ \A p \in Projects : p \in Range(projects[s]) <=> proj_output[p] = s

\* No project is left on an output that was freed, and no list of a freed
\* output comes back to life with its address: the projects in use are those
\* of the outputs the shell has.
NothingLost ==
    InUse = {p \in Projects : proj_output[p] \in Range(outputs)}

\* While a project is swapped for another one, it is already on its new list.
Swapping(s) ==
    /\ s = h.at
    /\ \/ pc = "swap"
       \/ pc \in {"save", "write"} /\ h.ret = "swap"

\* The project on show is one of the output's own, except inside the swap of
\* qimm_output_project_restore, where the one of the new output still is.
CurrentIsOwn ==
    \A s \in Slots :
        \/ project_cur[s] \in Range(projects[s]) \cup {NULL}
        \/ Swapping(s) /\ project_cur[s] = h.old /\ proj_output[h.old] = h.to

\* The assertions of qimm_output_destroy (output.c:22-23) hold, at run time and
\* at the end, although project_cur is cleared in one of three branches only.
AssertionsHold == "assert" \notin faults

\* An output that outlives its weston_output is the only one, and the first
\* the shell has: every later one finds a neighbour to move its projects to.
OnlyFirstGone == gone # {} => gone = {Head(outputs)}

\* When restore has ended, a project still away from the new output it names
\* is on show where it is, and alone there: there is nothing to show instead.
RestoreComplete ==
    pc = "fill" /\ ~h.boot =>
        \A p \in InUse : Wanted(p) /\ proj_output[p] # h.to =>
            /\ project_cur[proj_output[p]] = p
            /\ projects[proj_output[p]] = <<p>>

\* When nothing failed, every output of a shell at rest shows a project; the
\* layer of that project is in the scene, and its layouts were placed for that
\* output, wherever it has been since (layout.c:126 compares addresses).
EveryOutputShows ==
    pc = "idle" =>
        \A s \in Range(outputs) :
            /\ "failed" \in faults \/ project_cur[s] # NULL
            /\ project_cur[s] \in layers \cup {NULL}
            /\ project_cur[s] # NULL => layouted[project_cur[s]] = s

\* When no save failed, the directory of every project names the home of one
\* of the projects that share it, whatever was written in between.
DiskUpToDate ==
    pc = "idle" /\ "failed" \notin faults =>
        \A p \in InUse : disk[name[p]] \in
            {output_name[q] : q \in {r \in InUse : name[r] = name[p]}}

\* After the directory is read, every directory is one project, with the home
\* it was saved with, on that output when it is there and on the first else.
LoadedHome ==
    pc = "prepare" /\ h.todo = outputs =>
        \A n \in Names : disk[n] # Missing =>
            \E p \in InUse :
                /\ name[p] = n /\ output_name[p] = disk[n]
                /\ \A q \in InUse : name[q] = n => q = p
                /\ IF disk[n] \in Range(wouts)
                   THEN output[proj_output[p]] = disk[n]
                   ELSE proj_output[p] = Head(outputs)

\* A home survives the process: what is saved is up to date, and is found again.
HomesSaved == DiskUpToDate /\ LoadedHome

\* In one life of the process a project is never dropped, renamed or given
\* another home: moving it away keeps the home it is restored to.
HomeKept ==
    [][pc' \notin Stopped =>
        \A p \in InUse : /\ name'[p] = name[p]
                         /\ output_name'[p] = output_name[p]]_vars

\* Every monitor that stays gets a project to show, unless the process ends.
EventuallyShown ==
    \A m \in Monitors :
        m \in Range(wouts) ~>
            \/ m \notin Range(wouts) \/ "failed" \in faults
            \/ \E s \in Slots : Live(s) /\ output[s] = m
                                /\ project_cur[s] # NULL

-----------------------------------------------------------------------------
(* What the sources say, and the code does not keep.                       *)

\* "it can restore status after reboot" (qimm.h:86-87): what a process leaves
\* on disk, however it ends, does not keep the next one from starting.
CanRestart == pc = "failed" => "no output" \in faults

-----------------------------------------------------------------------------
(* The promise of QimmPlacement, which every step keeps.                   *)

Placement == INSTANCE QimmPlacement WITH
    outs <- Range(outputs), label <- output,
    place <- proj_output, home <- output_name

\* A project leaves its output only when the output goes, or to go home.
KeepsPlacement == Placement!Spec
=============================================================================
