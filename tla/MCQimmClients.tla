---------------------------- MODULE MCQimmClients ----------------------------
(* QimmClients on small pools, for TLC.                                    *)
EXTENDS QimmClients, TLC

\* Neither an address of a client nor one of a project is special.
ClientAddresses == Permutations(Clients) \cup Permutations(Projects)
=============================================================================
