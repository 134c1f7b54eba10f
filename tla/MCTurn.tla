------------------------------ MODULE MCTurn ------------------------------
(***************************************************************************)
(* TLC instances of TurnTransaction.                                       *)
(***************************************************************************)
EXTENDS TurnTransaction

CONSTANTS m1, m2

\* One message redelivered, another message meanwhile.
MCMessages == {m1, m2}
MCTurns == {<<m1, 1>>, <<m1, 2>>, <<m2, 1>>}
=============================================================================
