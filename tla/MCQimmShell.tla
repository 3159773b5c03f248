---------------------------- MODULE MCQimmShell ----------------------------
(* QimmShell on small pools, for TLC.                                      *)
EXTENDS QimmShell, TLC

\* A project's address is given once in the life of the process (Projects is
\* 1..n), so that taking the free ones in order loses nothing.
InOrder == \A p \in InUse' \ InUse : \A q \in FreeProjects : p <= q

\* Outputs get their addresses in order too.
BothInOrder ==
    /\ InOrder
    /\ \A s \in Range(outputs') \ Range(outputs) :
        \A t \in FreeSlots \ Range(outputs') : s <= t
    /\ pc \in Stopped => \A i, j \in DOMAIN outputs' :
            i < j => outputs'[i] < outputs'[j]

\* And so do the clients, which are many enough not to be told apart.
AllInOrder ==
    /\ BothInOrder
    /\ \A c \in alive' \ alive : \A d \in Clients \ alive : c <= d
=============================================================================
