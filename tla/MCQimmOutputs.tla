---------------------------- MODULE MCQimmOutputs ----------------------------
(* QimmOutputs on small pools, for TLC.                                    *)
EXTENDS QimmOutputs, TLC

\* An address given to a project is not given again before the process ends,
\* so that taking the free ones in order loses nothing (Projects is 1..n).
InOrder == \A p \in InUse' \ InUse : \A q \in FreeProjects : p <= q

\* Likewise for the outputs, where no property tells addresses apart.
BothInOrder ==
    /\ InOrder
    /\ \A s \in Range(outputs') \ Range(outputs) :
        \A t \in FreeSlots \ Range(outputs') : s <= t
    /\ pc \in Stopped => \A i, j \in DOMAIN outputs' :
            i < j => outputs'[i] < outputs'[j]
=============================================================================
