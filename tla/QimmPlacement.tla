---------------------------- MODULE QimmPlacement ----------------------------
(***************************************************************************)
(* What the shell promises about the place of projects, without lists,     *)
(* layers, files and handlers: a project is always on an output the shell  *)
(* has; it leaves this output only when the output goes, or for the output *)
(* that is its home; and its home never changes.                           *)
(***************************************************************************)
CONSTANTS Monitors, Slots, Projects, NULL

VARIABLES
    outs,   \* the outputs there are
    label,  \* the monitor of each
    place,  \* the output a project is on
    home    \* the monitor a project belongs to

vars == <<outs, label, place, home>>

On(s) == {p \in Projects : place[p] = s}

Init ==
    /\ outs = {}
    /\ label = [s \in Slots |-> NULL]
    /\ place = [p \in Projects |-> NULL]
    /\ home = [p \in Projects |-> NULL]

\* the process comes up with its outputs, and no project yet
Begin ==
    /\ outs = {}
    /\ outs' \in SUBSET Slots
    /\ label' \in [Slots -> Monitors \cup {NULL}]
    /\ \A s \in Slots : label'[s] # NULL <=> s \in outs'
    /\ UNCHANGED <<place, home>>

\* an output appears, empty, under an address not in use
OutputComes(s, m) ==
    /\ s \notin outs /\ On(s) = {}
    /\ outs' = outs \cup {s}
    /\ label' = [label EXCEPT ![s] = m]
    /\ UNCHANGED <<place, home>>

\* an output goes; another one takes all its projects, as they are
OutputGoes(s) ==
    /\ s \in outs
    /\ \/ On(s) = {} /\ UNCHANGED place
       \/ \E t \in outs \ {s} :
            place' = [p \in Projects |-> IF place[p] = s THEN t ELSE place[p]]
    /\ outs' = outs \ {s}
    /\ label' = [label EXCEPT ![s] = NULL]
    /\ UNCHANGED home

\* a project enters at its home, or anywhere when its home is not there
Enters(p, s, m) ==
    /\ place[p] = NULL /\ s \in outs
    /\ label[s] = m \/ \A t \in outs : label[t] # m
    /\ place' = [place EXCEPT ![p] = s]
    /\ home' = [home EXCEPT ![p] = m]
    /\ UNCHANGED <<outs, label>>

\* a project returns to its home
Returns(p, s) ==
    /\ place[p] # NULL /\ s \in outs
    /\ label[s] = home[p]
    /\ place' = [place EXCEPT ![p] = s]
    /\ UNCHANGED <<outs, label, home>>

\* the process ends
Ends ==
    /\ outs' = {}
    /\ label' = [s \in Slots |-> NULL]
    /\ place' = [p \in Projects |-> NULL]
    /\ home' = [p \in Projects |-> NULL]

Next ==
    \/ Begin \/ Ends
    \/ \E s \in Slots, m \in Monitors : OutputComes(s, m)
    \/ \E s \in Slots : OutputGoes(s)
    \/ \E p \in Projects, s \in Slots, m \in Monitors : Enters(p, s, m)
    \/ \E p \in Projects, s \in Slots : Returns(p, s)

Spec == Init /\ [][Next]_vars
=============================================================================
