---------------------------- MODULE MCLeadSync ----------------------------
(* LeadSync on one or two leads and two pushes at a time. *)
EXTENDS LeadSync, TLC

CONSTANTS w1, w2

MCWorkers == {w1, w2}
MCOneLead == {1}
MCTwoLeads == {1, 2}
MCAllFaults == {"find", "write", "db", "crash"}
MCOnlyWrites == {"write"}
WorkerSymmetry == Permutations(MCWorkers)
=============================================================================
