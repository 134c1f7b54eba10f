------------------------------ MODULE MCSweep ------------------------------
(* InactivitySweep with two sweeps and two turns at once. *)
EXTENDS InactivitySweep, TLC

CONSTANTS s1, s2, t1, t2

MCSweeps == {s1, s2}
MCTurns == {t1, t2}
SweepSymmetry == Permutations(MCSweeps) \union Permutations(MCTurns)

\* Of sweeps that race, a sweep that dies and turns that overlap, one is explored
\* at a time.
OneTrouble ==
    /\ ~raced \/ faults = 0
    /\ overlapped => ~raced /\ faults = 0
=============================================================================
