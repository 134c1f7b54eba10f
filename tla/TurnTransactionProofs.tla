----------------------- MODULE TurnTransactionProofs -----------------------
(***************************************************************************)
(* Theorems about TurnTransaction, for every set of messages, every number *)
(* of deliveries, conversations, faults and console changes.               *)
(***************************************************************************)
EXTENDS TurnTransaction, FiniteSetTheorems, WellFoundedInduction, TLAPS

\* The turn's message is a message.
LEMMA MsgType == ASSUME NEW t \in Turn PROVE Msg(t) \in Messages
  BY BoundsAssumption DEF Msg

\* The row an absent conversation has, and the table of only such rows.
LEMMA RowType == AbsentRow \in ConvRow /\ OpenRow \in ConvRow /\ NoRows \in [ConvId -> ConvRow]
  BY DEF AbsentRow, OpenRow, NoRows, ConvRow

(***************************************************************************)
(* Type correctness.                                                       *)
(***************************************************************************)
\* The initial states are well typed.
LEMMA InitType == Init => TypeOK
<1> SUFFICES ASSUME Init PROVE TypeOK
  OBVIOUS
<1>1. conv \in [ConvId -> ConvRow]
  BY RowType DEF Init
<1>2. nextConv \in 1 .. (MaxConv + 1)
  BY BoundsAssumption DEF Init
<1>3. pc \in [Turn -> Phase]
  BY DEF Init, Phase
<1>4. outcome \in [Turn -> Outcome] /\ snap \in [Turn -> [ConvId -> ConvRow]]
  BY RowType DEF Init, Outcome
<1> QED
  BY <1>1, <1>2, <1>3, <1>4, BoundsAssumption DEF TypeOK, Init

\* Ending a session keeps what it forgets well typed.
LEMMA ForgetType ==
  ASSUME TypeOK, NEW t \in Turn, ForgetRows(t)
  PROVE  /\ sawPaused' \in [Turn -> BOOLEAN]
         /\ snap' \in [Turn -> [ConvId -> ConvRow]]
         /\ cand' \in [Turn -> SUBSET ConvId]
         /\ held' \in [Turn -> {NoConv} \union ConvId]
         /\ ctx' \in [Turn -> SUBSET Messages]
  BY RowType DEF TypeOK, ForgetRows

LEMMA EndSessionType ==
  ASSUME TypeOK, NEW t \in Turn, EndSession(t)
  PROVE  /\ sawPaused' \in [Turn -> BOOLEAN]
         /\ loadedAt' \in [Turn -> Nat]
         /\ snap' \in [Turn -> [ConvId -> ConvRow]]
         /\ cand' \in [Turn -> SUBSET ConvId]
         /\ held' \in [Turn -> {NoConv} \union ConvId]
         /\ ctx' \in [Turn -> SUBSET Messages]
         /\ outcome' \in [Turn -> Outcome]
  BY ForgetType DEF TypeOK, EndSession, Outcome

\* Every step keeps every variable's type.
LEMMA NextType == TypeOK /\ [Next]_vars => TypeOK'
<1> SUFFICES ASSUME TypeOK, [Next]_vars PROVE TypeOK'
  OBVIOUS
<1> USE MsgType DEF dbVars, userVars, outVars, logVars, session
<1>1. ASSUME NEW t \in Turn, Receive(t) PROVE TypeOK'
  BY <1>1 DEF Receive, TypeOK, GoTo, Phase, InTxn, Before
<1>1d. ASSUME NEW t \in Turn, Discard(t) PROVE TypeOK'
  BY <1>1d DEF Discard, TypeOK, GoTo, Phase, After
<1>2. ASSUME NEW t \in Turn, ExistsWaMessage(t) PROVE TypeOK'
  BY <1>2 DEF ExistsWaMessage, TypeOK, GoTo, Phase, InTxn, Before, After
<1>3. ASSUME NEW t \in Turn, LoadUser(t) PROVE TypeOK'
  <2>1. \E p \in {"respond", "find", "adduser"} : GoTo(t, p)
    BY <1>3 DEF LoadUser
  <2>2. pc' \in [Turn -> Phase]
    BY <2>1 DEF TypeOK, GoTo, Phase, InTxn, Before, After
  <2> QED
    BY <1>3, <2>2, ZenonT(40) DEF LoadUser, TypeOK
<1>4. ASSUME NEW t \in Turn, Silence(t) PROVE TypeOK'
  BY <1>4, EndSessionType DEF Silence, TypeOK, GoTo, Phase, After
<1>5. ASSUME NEW t \in Turn, AddUser(t) PROVE TypeOK'
  BY <1>4, <1>5 DEF AddUser, TypeOK, GoTo, Phase, InTxn, Before
<1>6. ASSUME NEW t \in Turn, FindActive(t) PROVE TypeOK'
  BY <1>6 DEF FindActive, TypeOK, OpenConvs, GoTo, Phase, InTxn, Before
<1>7. ASSUME NEW t \in Turn, LockActive(t) PROVE TypeOK'
  <2>1. PICK c \in cand[t] :
          IF conv[c].status = "open"
          THEN /\ GoTo(t, "store")
               /\ held' = [held EXCEPT ![t] = c]
               /\ ctx' = [ctx EXCEPT ![t] = IF snap[t][c].status = "absent"
                                            THEN conv[c].ctx ELSE snap[t][c].ctx]
               /\ UNCHANGED cand
          ELSE /\ cand' = [cand EXCEPT ![t] = @ \ {c}]
               /\ UNCHANGED <<pc, held, ctx>>
    BY <1>7 DEF LockActive
  <2>2. c \in ConvId
    BY DEF TypeOK
  <2>3. conv[c].ctx \subseteq Messages /\ snap[t][c].ctx \subseteq Messages
    BY <2>2 DEF TypeOK, ConvRow
  <2>4. pc' \in [Turn -> Phase]
    BY <2>1 DEF TypeOK, GoTo, Phase, InTxn, Before
  <2>5. held' \in [Turn -> {NoConv} \union ConvId]
    BY <2>1, <2>2 DEF TypeOK
  <2>6. ctx' \in [Turn -> SUBSET Messages]
    BY <2>1, <2>3 DEF TypeOK
  <2>7. cand' \in [Turn -> SUBSET ConvId]
    BY <2>1 DEF TypeOK
  <2> QED
    BY <1>7, <2>4, <2>5, <2>6, <2>7 DEF LockActive, TypeOK
<1>8. ASSUME NEW t \in Turn, CreateConversation(t) PROVE TypeOK'
  <2>1. nextConv \in ConvId /\ nextConv' \in 1 .. (MaxConv + 1)
    BY <1>8, BoundsAssumption DEF CreateConversation, TypeOK, ConvId
  <2> QED
    BY <1>8, <2>1 DEF CreateConversation, TypeOK, GoTo, Phase, InTxn, Before
<1>9. ASSUME NEW t \in Turn, StoreMessage(t) PROVE TypeOK'
  BY <1>4, <1>9 DEF StoreMessage, TypeOK, GoTo, Phase, InTxn, Claimed
<1>10. ASSUME NEW t \in Turn, HandleTurn(t) PROVE TypeOK'
  BY <1>10 DEF HandleTurn, TypeOK, GoTo, Phase, InTxn, Claimed
<1>11. ASSUME NEW t \in Turn, Commit(t) PROVE TypeOK'
  <2>1. conv' \in [ConvId -> ConvRow]
    <3>1. CASE held[t] \in ConvId
      <4>1. conv[held[t]] \in ConvRow
        BY <3>1 DEF TypeOK
      <4>2. WrittenRow(t) \in ConvRow
        BY <4>1 DEF WrittenRow, ConvRow, TypeOK
      <4> QED
        BY <1>11, <4>2 DEF Commit, TypeOK
    <3>2. CASE held[t] \notin ConvId
      BY <1>11, <3>2 DEF Commit, TypeOK
    <3> QED
      BY <3>1, <3>2
  <2>2. pc' \in [Turn -> Phase]
    BY <1>11 DEF Commit, TypeOK, GoTo, Phase, After
  <2>3. rows' \in [Messages -> Nat]
    BY <1>11 DEF Commit, TypeOK
  <2> QED
    BY <1>11, <2>1, <2>2, <2>3, ForgetType DEF Commit, TypeOK
<1>12. ASSUME NEW t \in Turn, Deliver(t) PROVE TypeOK'
  <2>1. pc' \in [Turn -> Phase]
    BY <1>12 DEF Deliver, TypeOK, GoTo, Phase, After
  <2>2. replies' \in [Messages -> Nat]
    BY <1>12 DEF Deliver, TypeOK
  <2> QED
    BY <1>12, <2>1, <2>2, EndSessionType DEF Deliver, TypeOK
<1>13. ASSUME NEW t \in Turn, SyncLead(t) PROVE TypeOK'
  BY <1>13 DEF SyncLead, TypeOK, GoTo, Phase, After
<1>14. ASSUME NEW t \in Turn, SendError(t) PROVE TypeOK'
  BY <1>14 DEF SendError, TypeOK, GoTo, Phase, After
<1>15. ASSUME NEW t \in Turn, Respond(t) PROVE TypeOK'
  BY <1>15 DEF Respond, TypeOK, GoTo, Phase
<1>16. ASSUME NEW t \in Turn, FailTurn(t) PROVE TypeOK'
  BY <1>16, EndSessionType DEF FailTurn, TypeOK, GoTo, Phase, After
<1>17. ASSUME NEW t \in Turn, KillTurn(t) PROVE TypeOK'
  BY <1>17, EndSessionType DEF KillTurn, TypeOK, GoTo, Phase
<1>18. CASE SetHandover
  BY <1>18 DEF SetHandover, TypeOK
<1>19. CASE SetBlocked
  BY <1>19 DEF SetBlocked, TypeOK
<1>20. CASE UNCHANGED vars
  BY <1>20 DEF vars, TypeOK
<1> QED
  BY <1>1, <1>1d, <1>2, <1>3, <1>5, <1>6, <1>7, <1>8, <1>9, <1>10, <1>11, <1>12,
     <1>13, <1>14, <1>15, <1>16, <1>17, <1>18, <1>19, <1>20
  DEF Next, TurnStep

\* Every reachable state is well typed.
THEOREM TypeCorrect == Spec => []TypeOK
  BY InitType, NextType, PTL DEF Spec

(***************************************************************************)
(* At most once.  A turn that has inserted the USER row (Claimed) is the   *)
(* only one to have done so for its message and nothing is committed for   *)
(* it; a turn about to answer is the only one, its row is committed and    *)
(* nothing was sent.                                                       *)
(***************************************************************************)
LedgerInv ==
    /\ AtMostOnce
    /\ \A t \in Turn : pc[t] \in Claimed => rows[Msg(t)] = 0
    /\ \A t \in Turn : pc[t] = "deliver" => rows[Msg(t)] = 1 /\ replies[Msg(t)] = 0
    /\ \A t, u \in Turn :
          /\ Msg(t) = Msg(u)
          /\ \/ pc[t] \in Claimed /\ pc[u] \in Claimed
             \/ pc[t] = "deliver" /\ pc[u] = "deliver"
          => t = u

\* Nothing is claimed in the beginning.
LEMMA InitLedger == Init => LedgerInv
  BY MsgType DEF Init, LedgerInv, AtMostOnce, Claimed

\* Steps that leave the transcript and the answers alone and take no turn to
\* a claiming or answering phase keep the invariant.
LEMMA LedgerFrame ==
  ASSUME TypeOK, LedgerInv, UNCHANGED <<rows, replies>>, NEW t \in Turn,
         NEW next \in Phase \ (Claimed \union {"deliver"}),
         pc' = pc \/ GoTo(t, next)
  PROVE  LedgerInv'
  BY DEF TypeOK, LedgerInv, AtMostOnce, GoTo

LEMMA NextLedger == TypeOK /\ LedgerInv /\ [Next]_vars => LedgerInv'
<1> SUFFICES ASSUME TypeOK, LedgerInv, [Next]_vars PROVE LedgerInv'
  OBVIOUS
<1> USE MsgType DEF dbVars, userVars, outVars, logVars, session
<1> DEFINE Quiet == Phase \ (Claimed \union {"deliver"})
<1>q. {"dedupe", "load", "adduser", "find", "lock", "store", "respond", "done",
       "apologise", "sync"} \subseteq Quiet
  BY DEF Phase, Claimed, InTxn, Before, After
<1>1. ASSUME NEW t \in Turn, Receive(t) PROVE LedgerInv'
  BY <1>1, <1>q, LedgerFrame DEF Receive
<1>1d. ASSUME NEW t \in Turn, Discard(t) PROVE LedgerInv'
  BY <1>1d, <1>q, LedgerFrame DEF Discard
<1>2. ASSUME NEW t \in Turn, ExistsWaMessage(t) PROVE LedgerInv'
  <2>1. \E p \in Quiet : GoTo(t, p)
    BY <1>2, <1>q DEF ExistsWaMessage
  <2> QED
    BY <1>2, <2>1, LedgerFrame DEF ExistsWaMessage
<1>3. ASSUME NEW t \in Turn, LoadUser(t) PROVE LedgerInv'
  <2>1. \E p \in Quiet : GoTo(t, p)
    BY <1>3, <1>q DEF LoadUser
  <2> QED
    BY <1>3, <2>1, LedgerFrame DEF LoadUser
<1>4. ASSUME NEW t \in Turn, Silence(t) PROVE LedgerInv'
  BY <1>4, <1>q, LedgerFrame DEF Silence
<1>5. ASSUME NEW t \in Turn, AddUser(t) PROVE LedgerInv'
  BY <1>4, <1>5, <1>q, LedgerFrame DEF AddUser
<1>6. ASSUME NEW t \in Turn, FindActive(t) PROVE LedgerInv'
  BY <1>6, <1>q, LedgerFrame DEF FindActive
<1>7. ASSUME NEW t \in Turn, LockActive(t) PROVE LedgerInv'
  BY <1>7, <1>q, LedgerFrame DEF LockActive
<1>8. ASSUME NEW t \in Turn, CreateConversation(t) PROVE LedgerInv'
  BY <1>8, <1>q, LedgerFrame DEF CreateConversation
<1>9. ASSUME NEW t \in Turn, StoreMessage(t) PROVE LedgerInv'
  <2>1. CASE Silence(t)
    BY <1>4, <2>1
  <2>2. CASE ~Silence(t)
    <3>1. \E p \in Claimed : GoTo(t, p)
      BY <1>9, <2>2 DEF StoreMessage, Claimed
    <3>2. rows[Msg(t)] = 0 /\ UNCHANGED <<rows, replies>>
      BY <1>9, <2>2 DEF StoreMessage, TypeOK
    <3>3. \A u \in Turn : ~(Msg(u) = Msg(t) /\ pc[u] \in Claimed)
      BY <1>9 DEF StoreMessage
    <3> QED
      BY <3>1, <3>2, <3>3 DEF TypeOK, LedgerInv, AtMostOnce, GoTo, Claimed
  <2> QED
    BY <2>1, <2>2
<1>10. ASSUME NEW t \in Turn, HandleTurn(t) PROVE LedgerInv'
  BY <1>10 DEF HandleTurn, TypeOK, LedgerInv, AtMostOnce, GoTo, Claimed
<1>11. ASSUME NEW t \in Turn, Commit(t) PROVE LedgerInv'
  <2>1. /\ pc[t] = "commit" /\ rows[Msg(t)] = 0 /\ replies[Msg(t)] = 0
        /\ \A u \in Turn : Msg(u) = Msg(t) /\ u # t => pc[u] \notin Claimed \union {"deliver"}
    <3>1. pc[t] = "commit" /\ pc[t] \in Claimed
      BY <1>11 DEF Commit, Claimed
    <3>2. rows[Msg(t)] = 0
      BY <3>1 DEF LedgerInv
    <3>3. replies[Msg(t)] = 0
      BY <3>2 DEF LedgerInv, AtMostOnce, TypeOK
    <3>4. ASSUME NEW u \in Turn, Msg(u) = Msg(t), u # t
          PROVE  pc[u] \notin Claimed \union {"deliver"}
      <4>1. rows[Msg(u)] = 0
        BY <3>2, <3>4
      <4>2. pc[u] # "deliver"
        BY <4>1 DEF LedgerInv
      <4> QED
        BY <3>1, <3>4, <4>2 DEF LedgerInv
    <3> QED
      BY <3>1, <3>2, <3>3, <3>4
  <2>2. /\ rows' = [rows EXCEPT ![Msg(t)] = 1]
        /\ replies' = replies
        /\ \E p \in {"respond", "deliver"} : GoTo(t, p)
    BY <1>11, <2>1 DEF Commit
  <2> QED
    BY <2>1, <2>2 DEF LedgerInv, AtMostOnce, TypeOK, GoTo, Claimed
<1>12. ASSUME NEW t \in Turn, Deliver(t) PROVE LedgerInv'
  <2>1. /\ pc[t] = "deliver" /\ rows[Msg(t)] = 1 /\ replies[Msg(t)] = 0
        /\ \A u \in Turn : Msg(u) = Msg(t) /\ u # t => pc[u] \notin Claimed \union {"deliver"}
    BY <1>12 DEF Deliver, LedgerInv, Claimed
  <2>2. /\ rows' = rows
        /\ replies' = replies \/ replies' = [replies EXCEPT ![Msg(t)] = 1]
        /\ \E p \in {"sync", "respond"} : GoTo(t, p)
    BY <1>12, <2>1 DEF Deliver
  <2> QED
    BY <2>1, <2>2 DEF LedgerInv, AtMostOnce, TypeOK, GoTo, Claimed
<1>13. ASSUME NEW t \in Turn, SyncLead(t) PROVE LedgerInv'
  BY <1>13, <1>q, LedgerFrame DEF SyncLead
<1>14. ASSUME NEW t \in Turn, SendError(t) PROVE LedgerInv'
  BY <1>14, <1>q, LedgerFrame DEF SendError
<1>15. ASSUME NEW t \in Turn, Respond(t) PROVE LedgerInv'
  BY <1>15, <1>q, LedgerFrame DEF Respond
<1>16. ASSUME NEW t \in Turn, FailTurn(t) PROVE LedgerInv'
  BY <1>16, <1>q, LedgerFrame DEF FailTurn
<1>17. ASSUME NEW t \in Turn, KillTurn(t) PROVE LedgerInv'
  BY <1>17, <1>q, LedgerFrame DEF KillTurn
<1>18. CASE SetHandover \/ SetBlocked \/ UNCHANGED vars
  <2>1. UNCHANGED <<rows, replies, pc>>
    BY <1>18 DEF SetHandover, SetBlocked, vars
  <2> QED
    BY <2>1 DEF LedgerInv, AtMostOnce
<1> QED
  BY <1>1, <1>1d, <1>2, <1>3, <1>5, <1>6, <1>7, <1>8, <1>9, <1>10, <1>11, <1>12,
     <1>13, <1>14, <1>15, <1>16, <1>17, <1>18
  DEF Next, TurnStep

\* However deliveries overlap, fail, die and repeat, a message is recorded at
\* most once and answered at most once, after it is recorded - also for a new
\* contact and also with deferred processing.
THEOREM AtMostOnceHolds == Spec => []AtMostOnce
<1>1. LedgerInv => AtMostOnce
  BY DEF LedgerInv
<1> QED
  BY <1>1, InitLedger, NextLedger, TypeCorrect, PTL DEF Spec

(***************************************************************************)
(* The gates.  What a turn loaded is what the contact's flags still are,   *)
(* unless the console changed them since; a turn past the handover gate    *)
(* loaded "not paused".                                                    *)
(***************************************************************************)
GateInv ==
    /\ \A t \in Turn : loadedAt[t] <= epoch
    /\ \A t \in Turn : pc[t] \in Before \union {"idle", "machine"} => outcome[t] = "none"
    /\ \A t \in Turn :
          pc[t] \in {"adduser", "find", "lock", "store"} /\ loadedAt[t] = epoch
          => ~blocked /\ (sawPaused[t] <=> paused)
    /\ NoAnswerPastTheGate

LEMMA InitGate == Init => GateInv
  BY DEF Init, GateInv, NoAnswerPastTheGate, Before

\* Ending a turn early keeps the invariant.
LEMMA EndGate ==
  ASSUME TypeOK, GateInv, NEW t \in Turn, EndSession(t),
         NEW next \in {"respond", "done", "apologise", "sync"}, GoTo(t, next),
         UNCHANGED <<blocked, paused, epoch>>
  PROVE  GateInv'
  BY DEF TypeOK, GateInv, NoAnswerPastTheGate, Before, GoTo, EndSession, ForgetRows

\* So does a step that loads nothing and decides nothing.
LEMMA MoveGate ==
  ASSUME TypeOK, GateInv, NEW t \in Turn, NEW next \in Phase, GoTo(t, next),
         UNCHANGED <<blocked, paused, epoch, sawPaused, loadedAt, outcome>>,
         \/ pc[t] = "idle" /\ next = "dedupe"
         \/ pc[t] = "dedupe" /\ next \in {"load", "respond"}
         \/ pc[t] \in {"adduser", "find", "lock"} /\ next \in {"find", "lock", "store"}
         \/ next \in {"respond", "done"}
  PROVE  GateInv'
  BY DEF TypeOK, GateInv, NoAnswerPastTheGate, Before, GoTo

LEMMA NextGate == TypeOK /\ GateInv /\ [Next]_vars => GateInv'
<1> SUFFICES ASSUME TypeOK, GateInv, [Next]_vars PROVE GateInv'
  OBVIOUS
<1> USE DEF dbVars, userVars, outVars, logVars, session
<1>p. {"dedupe", "load", "find", "lock", "store", "respond", "done"} \subseteq Phase
  BY DEF Phase, InTxn, Before, After
<1>1. ASSUME NEW t \in Turn, Receive(t) PROVE GateInv'
  BY <1>1, <1>p, MoveGate DEF Receive, Posted
<1>1d. ASSUME NEW t \in Turn, Discard(t) PROVE GateInv'
  BY <1>1d, <1>p, MoveGate DEF Discard, Posted
<1>2. ASSUME NEW t \in Turn, ExistsWaMessage(t) PROVE GateInv'
  <2>1. \E p \in {"load", "respond"} : GoTo(t, p)
    BY <1>2 DEF ExistsWaMessage
  <2> QED
    BY <1>2, <2>1, <1>p, MoveGate DEF ExistsWaMessage
<1>3. ASSUME NEW t \in Turn, LoadUser(t) PROVE GateInv'
  <2>1. CASE blocked
    BY <1>3, <2>1, <1>p, MoveGate DEF LoadUser
  <2>2. CASE ~blocked
    <3>1. /\ \E p \in {"find", "adduser"} : GoTo(t, p)
          /\ sawPaused' = [sawPaused EXCEPT ![t] = paused]
          /\ loadedAt' = [loadedAt EXCEPT ![t] = epoch]
          /\ UNCHANGED <<blocked, paused, epoch, outcome>>
          /\ pc[t] = "load"
      BY <1>3, <2>2 DEF LoadUser
    <3> QED
      BY <3>1, <2>2 DEF TypeOK, GateInv, NoAnswerPastTheGate, Before, GoTo
  <2> QED
    BY <2>1, <2>2
<1>4. ASSUME NEW t \in Turn, Silence(t) PROVE GateInv'
  BY <1>4, EndGate DEF Silence
<1>5. ASSUME NEW t \in Turn, AddUser(t) PROVE GateInv'
  BY <1>4, <1>5, <1>p, MoveGate DEF AddUser
<1>6. ASSUME NEW t \in Turn, FindActive(t) PROVE GateInv'
  BY <1>6, <1>p, MoveGate DEF FindActive
<1>7. ASSUME NEW t \in Turn, LockActive(t) PROVE GateInv'
  <2>1. /\ pc[t] = "lock"
        /\ GoTo(t, "store") \/ UNCHANGED pc
        /\ UNCHANGED <<blocked, paused, epoch, sawPaused, loadedAt, outcome>>
    BY <1>7 DEF LockActive
  <2>2. CASE GoTo(t, "store")
    BY <2>1, <2>2, <1>p, MoveGate
  <2>3. CASE UNCHANGED pc
    BY <2>1, <2>3 DEF GateInv, NoAnswerPastTheGate
  <2> QED
    BY <2>1, <2>2, <2>3
<1>8. ASSUME NEW t \in Turn, CreateConversation(t) PROVE GateInv'
  BY <1>8, <1>p, MoveGate DEF CreateConversation
<1>9. ASSUME NEW t \in Turn, StoreMessage(t) PROVE GateInv'
  <2>1. CASE Silence(t)
    BY <1>4, <2>1
  <2>2. CASE ~Silence(t)
    <3>1. /\ pc[t] = "store"
          /\ GoTo(t, IF sawPaused[t] THEN "commit" ELSE "machine")
          /\ UNCHANGED <<blocked, paused, epoch, sawPaused, loadedAt, outcome>>
      BY <1>9, <2>2 DEF StoreMessage
    <3>2. outcome[t] = "none"
      BY <3>1 DEF GateInv, Before
    <3>3. CASE sawPaused[t]
      BY <3>1, <3>2, <3>3 DEF TypeOK, GateInv, NoAnswerPastTheGate, Before, GoTo
    <3>4. CASE ~sawPaused[t]
      BY <3>1, <3>2, <3>4 DEF TypeOK, GateInv, NoAnswerPastTheGate, Before, GoTo
    <3> QED
      BY <3>3, <3>4
  <2> QED
    BY <2>1, <2>2
<1>10. ASSUME NEW t \in Turn, HandleTurn(t) PROVE GateInv'
  <2>1. PICK o \in Outcome : outcome' = [outcome EXCEPT ![t] = o]
    BY <1>10 DEF HandleTurn
  <2>2. /\ pc[t] = "machine" /\ GoTo(t, "commit")
        /\ UNCHANGED <<blocked, paused, epoch, sawPaused, loadedAt>>
    BY <1>10 DEF HandleTurn
  <2> QED
    BY <2>1, <2>2 DEF TypeOK, GateInv, NoAnswerPastTheGate, Before, GoTo
<1>11. ASSUME NEW t \in Turn, Commit(t) PROVE GateInv'
  <2>1. /\ pc[t] = "commit"
        /\ GoTo(t, IF outcome[t] = "none" THEN "respond" ELSE "deliver")
        /\ sawPaused' = [sawPaused EXCEPT ![t] = FALSE]
        /\ UNCHANGED <<blocked, paused, epoch, loadedAt, outcome>>
    BY <1>11 DEF Commit, ForgetRows
  <2> QED
    BY <2>1 DEF TypeOK, GateInv, NoAnswerPastTheGate, Before, GoTo
<1>12. ASSUME NEW t \in Turn, Deliver(t) PROVE GateInv'
  <2>1. \E p \in {"sync", "respond"} : GoTo(t, p)
    BY <1>12 DEF Deliver
  <2> QED
    BY <1>12, <2>1, EndGate DEF Deliver
<1>13. ASSUME NEW t \in Turn, SyncLead(t) PROVE GateInv'
  BY <1>13, <1>p, MoveGate DEF SyncLead
<1>14. ASSUME NEW t \in Turn, SendError(t) PROVE GateInv'
  BY <1>14, <1>p, MoveGate DEF SendError
<1>15. ASSUME NEW t \in Turn, Respond(t) PROVE GateInv'
  BY <1>15, <1>p, MoveGate DEF Respond
<1>16. ASSUME NEW t \in Turn, FailTurn(t) PROVE GateInv'
  BY <1>16, EndGate DEF FailTurn
<1>17. ASSUME NEW t \in Turn, KillTurn(t) PROVE GateInv'
  BY <1>17, EndGate DEF KillTurn
<1>18. CASE SetHandover \/ SetBlocked
  <2>1. epoch' = epoch + 1 /\ UNCHANGED <<pc, loadedAt, outcome>>
    BY <1>18 DEF SetHandover, SetBlocked
  <2>2. \A t \in Turn : loadedAt'[t] < epoch'
    BY <2>1 DEF GateInv, TypeOK
  <2> QED
    BY <2>1, <2>2 DEF GateInv, NoAnswerPastTheGate, TypeOK
<1>19. CASE UNCHANGED vars
  BY <1>19 DEF vars, GateInv, NoAnswerPastTheGate
<1> QED
  BY <1>1, <1>1d, <1>2, <1>3, <1>5, <1>6, <1>7, <1>8, <1>9, <1>10, <1>11, <1>12,
     <1>13, <1>14, <1>15, <1>16, <1>17, <1>18, <1>19
  DEF Next, TurnStep

\* A turn that may still answer is one whose contact was neither blocked nor
\* with an agent when it looked, and any later flag is a console click it
\* could not have seen.
THEOREM GateHolds == Spec => []NoAnswerPastTheGate
<1>1. GateInv => NoAnswerPastTheGate
  BY DEF GateInv
<1> QED
  BY <1>1, InitGate, NextGate, TypeCorrect, PTL DEF Spec

(***************************************************************************)
(* The row lock.  A turn between its lock and its commit has a row of its  *)
(* own, and that row has not been closed; ids not handed out have no row.  *)
(***************************************************************************)
Locked == {"store"} \union Claimed

LockInv ==
    /\ \A t \in Turn : pc[t] \in Locked =>
          /\ held[t] \in ConvId
          /\ held[t] < nextConv
          /\ conv[held[t]].status # "closed"
    /\ \A t, u \in Turn :
          pc[t] \in Locked /\ pc[u] \in Locked /\ held[t] = held[u] => t = u
    /\ \A c \in ConvId : c >= nextConv => conv[c].status = "absent"

LEMMA InitLock == Init => LockInv
<1> SUFFICES ASSUME Init PROVE LockInv
  OBVIOUS
<1>1. \A t \in Turn : pc[t] \notin Locked
  BY DEF Init, Locked, Claimed
<1>2. \A c \in ConvId : c >= nextConv => conv[c].status = "absent"
  <2>1. CASE conv = NoRows
    BY <2>1 DEF NoRows, AbsentRow
  <2>2. CASE conv = [NoRows EXCEPT ![1] = OpenRow] /\ nextConv = 2
    BY <2>2 DEF NoRows, AbsentRow, ConvId
  <2> QED
    BY <2>1, <2>2 DEF Init
<1> QED
  BY <1>1, <1>2 DEF LockInv

\* A step that touches no row and brings no turn into its locked phase.
LEMMA LockFrame ==
  ASSUME TypeOK, LockInv, UNCHANGED <<conv, nextConv>>, NEW t \in Turn,
         \A u \in Turn : pc'[u] \in Locked => pc[u] \in Locked /\ held'[u] = held[u]
  PROVE  LockInv'
  BY DEF LockInv

LEMMA NextLock == TypeOK /\ LockInv /\ [Next]_vars => LockInv'
<1> SUFFICES ASSUME TypeOK, LockInv, [Next]_vars PROVE LockInv'
  OBVIOUS
<1> USE DEF dbVars, userVars, outVars, logVars, session
<1>e. ASSUME NEW t \in Turn, EndSession(t), UNCHANGED <<conv, nextConv>>,
             NEW p \in {"respond", "done", "apologise", "sync"}, GoTo(t, p)
      PROVE  LockInv'
  BY <1>e, LockFrame DEF TypeOK, EndSession, ForgetRows, GoTo, Locked, Claimed
<1>m. ASSUME NEW t \in Turn, UNCHANGED <<conv, nextConv, held>>, NEW p \in Phase, GoTo(t, p),
             p \in Locked => pc[t] \in Locked
      PROVE  LockInv'
  BY <1>m, LockFrame DEF TypeOK, GoTo
<1>p. /\ {"dedupe", "load", "adduser", "find", "lock", "respond", "done"} \subseteq Phase \ Locked
      /\ {"store", "machine", "commit"} \subseteq Phase \intersect Locked
  BY DEF Phase, InTxn, Before, After, Locked, Claimed
<1>1. ASSUME NEW t \in Turn, Receive(t) PROVE LockInv'
  BY <1>1, <1>m, <1>p DEF Receive, Posted
<1>1d. ASSUME NEW t \in Turn, Discard(t) PROVE LockInv'
  BY <1>1d, <1>m, <1>p DEF Discard, Posted
<1>2. ASSUME NEW t \in Turn, ExistsWaMessage(t) PROVE LockInv'
  <2>1. \E p \in {"load", "respond"} : GoTo(t, p)
    BY <1>2 DEF ExistsWaMessage
  <2> QED
    BY <1>2, <2>1, <1>m, <1>p DEF ExistsWaMessage
<1>3. ASSUME NEW t \in Turn, LoadUser(t) PROVE LockInv'
  <2>1. \E p \in {"find", "adduser", "respond"} : GoTo(t, p)
    BY <1>3 DEF LoadUser
  <2> QED
    BY <1>3, <2>1, <1>m, <1>p DEF LoadUser
<1>4. ASSUME NEW t \in Turn, Silence(t) PROVE LockInv'
  BY <1>4, <1>e DEF Silence
<1>5. ASSUME NEW t \in Turn, AddUser(t) PROVE LockInv'
  BY <1>4, <1>5, <1>m, <1>p DEF AddUser
<1>6. ASSUME NEW t \in Turn, FindActive(t) PROVE LockInv'
  BY <1>6, <1>m, <1>p DEF FindActive
<1>7. ASSUME NEW t \in Turn, LockActive(t) PROVE LockInv'
  <2>1. PICK c \in cand[t] :
          /\ \A u \in Turn : ~Holding(u, c)
          /\ IF conv[c].status = "open"
             THEN GoTo(t, "store") /\ held' = [held EXCEPT ![t] = c]
             ELSE UNCHANGED <<pc, held>>
    BY <1>7 DEF LockActive
  <2>2. UNCHANGED <<conv, nextConv>>
    BY <1>7 DEF LockActive
  <2>3. CASE conv[c].status = "open"
    <3>1. c \in ConvId /\ c < nextConv
      BY <2>3 DEF TypeOK, LockInv, ConvId
    <3>2. \A u \in Turn : pc[u] \in Locked => held[u] # c
      BY <2>1 DEF Holding, Locked
    <3> QED
      BY <2>1, <2>2, <2>3, <3>1, <3>2, <1>p, ZenonT(40) DEF TypeOK, LockInv, GoTo
  <2>4. CASE conv[c].status # "open"
    BY <2>1, <2>2, <2>4 DEF LockInv
  <2> QED
    BY <2>3, <2>4
<1>8. ASSUME NEW t \in Turn, CreateConversation(t) PROVE LockInv'
  <2>1. /\ GoTo(t, "store")
        /\ held' = [held EXCEPT ![t] = nextConv]
        /\ nextConv' = nextConv + 1
        /\ conv' = conv
    BY <1>8 DEF CreateConversation
  <2>2. nextConv \in ConvId /\ conv[nextConv].status = "absent"
    BY <1>8, BoundsAssumption DEF CreateConversation, TypeOK, LockInv, ConvId
  <2>3. \A u \in Turn : pc[u] \in Locked => held[u] < nextConv /\ held[u] \in ConvId
    BY DEF LockInv
  <2>4. \A c \in ConvId : c >= nextConv' => conv'[c].status = "absent"
    BY <2>1, <2>2 DEF LockInv, ConvId
  <2>5. \A u \in Turn : u # t => pc'[u] = pc[u] /\ held'[u] = held[u]
    BY <2>1 DEF TypeOK, GoTo
  <2>6. pc'[t] = "store" /\ held'[t] = nextConv
    BY <2>1 DEF TypeOK, GoTo
  <2>7. ASSUME NEW u \in Turn, pc'[u] \in Locked
        PROVE  held'[u] \in ConvId /\ held'[u] < nextConv' /\ conv'[held'[u]].status # "closed"
    <3>1. CASE u = t
      BY <3>1, <2>1, <2>2, <2>6 DEF ConvId
    <3>2. CASE u # t
      BY <3>2, <2>1, <2>2, <2>3, <2>5, <2>7 DEF LockInv, ConvId
    <3> QED
      BY <3>1, <3>2
  <2>8. ASSUME NEW u \in Turn, NEW w \in Turn, pc'[u] \in Locked, pc'[w] \in Locked,
               held'[u] = held'[w]
        PROVE  u = w
    <3>1. CASE u # t /\ w # t
      BY <3>1, <2>5, <2>8 DEF LockInv
    <3>2. CASE u = t \/ w = t
      BY <3>2, <2>2, <2>3, <2>5, <2>6, <2>8 DEF ConvId
    <3> QED
      BY <3>1, <3>2
  <2> QED
    BY <2>4, <2>7, <2>8 DEF LockInv
<1>9. ASSUME NEW t \in Turn, StoreMessage(t) PROVE LockInv'
  <2>1. CASE Silence(t)
    BY <1>4, <2>1
  <2>2. CASE ~Silence(t)
    <3>1. \E p \in {"commit", "machine"} : GoTo(t, p)
      BY <1>9, <2>2 DEF StoreMessage
    <3>2. pc[t] \in Locked /\ UNCHANGED <<conv, nextConv, held>>
      BY <1>9, <2>2, <1>p DEF StoreMessage
    <3> QED
      BY <3>1, <3>2, <1>m, <1>p
  <2> QED
    BY <2>1, <2>2
<1>10. ASSUME NEW t \in Turn, HandleTurn(t) PROVE LockInv'
  BY <1>10, <1>m, <1>p DEF HandleTurn
<1>11. ASSUME NEW t \in Turn, Commit(t) PROVE LockInv'
  <2>1. /\ \E p \in {"respond", "deliver"} : GoTo(t, p)
        /\ held' = [held EXCEPT ![t] = NoConv]
        /\ conv' = [conv EXCEPT ![held[t]] = WrittenRow(t)]
        /\ nextConv' = nextConv
        /\ pc[t] \in Locked
    BY <1>11, <1>p DEF Commit, ForgetRows
  <2>2. held[t] \in ConvId /\ held[t] < nextConv
    BY <2>1 DEF LockInv
  <2>3. pc'[t] \notin Locked /\ \A u \in Turn : u # t => pc'[u] = pc[u] /\ held'[u] = held[u]
    BY <2>1 DEF TypeOK, GoTo, Locked, Claimed
  <2>4. \A c \in ConvId : c # held[t] => conv'[c] = conv[c]
    BY <2>1 DEF TypeOK
  <2>5. \A c \in ConvId : c >= nextConv' => conv'[c].status = "absent"
    BY <2>1, <2>2, <2>4 DEF LockInv, TypeOK, ConvId
  <2>6. ASSUME NEW u \in Turn, pc'[u] \in Locked
        PROVE  held'[u] \in ConvId /\ held'[u] < nextConv' /\ conv'[held'[u]].status # "closed"
    <3>1. u # t /\ pc[u] \in Locked /\ held'[u] = held[u]
      BY <2>3, <2>6
    <3>2. held[u] # held[t] /\ held[u] \in ConvId /\ held[u] < nextConv
      BY <2>1, <3>1 DEF LockInv
    <3> QED
      BY <2>1, <2>4, <3>1, <3>2 DEF LockInv
  <2> QED
    BY <2>3, <2>5, <2>6 DEF LockInv
<1>12. ASSUME NEW t \in Turn, Deliver(t) PROVE LockInv'
  <2>1. \E p \in {"sync", "respond"} : GoTo(t, p)
    BY <1>12 DEF Deliver
  <2> QED
    BY <1>12, <2>1, <1>e DEF Deliver
<1>13. ASSUME NEW t \in Turn, SyncLead(t) PROVE LockInv'
  BY <1>13, <1>m, <1>p DEF SyncLead
<1>14. ASSUME NEW t \in Turn, SendError(t) PROVE LockInv'
  BY <1>14, <1>m, <1>p DEF SendError
<1>15. ASSUME NEW t \in Turn, Respond(t) PROVE LockInv'
  BY <1>15, <1>m, <1>p DEF Respond
<1>16. ASSUME NEW t \in Turn, FailTurn(t) PROVE LockInv'
  BY <1>16, <1>e DEF FailTurn
<1>17. ASSUME NEW t \in Turn, KillTurn(t) PROVE LockInv'
  BY <1>17, <1>e DEF KillTurn
<1>18. CASE SetHandover \/ SetBlocked \/ UNCHANGED vars
  BY <1>18 DEF SetHandover, SetBlocked, vars, LockInv
<1> QED
  BY <1>1, <1>1d, <1>2, <1>3, <1>5, <1>6, <1>7, <1>8, <1>9, <1>10, <1>11, <1>12,
     <1>13, <1>14, <1>15, <1>16, <1>17, <1>18
  DEF Next, TurnStep

\* Only a commit writes conversations, and never a closed one.
LEMMA ClosedStep ==
  ASSUME TypeOK, LockInv, [Next]_vars, NEW c \in ConvId, conv[c].status = "closed"
  PROVE  conv'[c] = conv[c]
<1> USE DEF dbVars, userVars
<1>1. ASSUME NEW t \in Turn, Commit(t) PROVE conv'[c] = conv[c]
  <2>1. held[t] # c
    BY <1>1 DEF Commit, LockInv, Locked, Claimed
  <2> QED
    BY <1>1, <2>1 DEF Commit, TypeOK
<1>2. ASSUME NEW t \in Turn,
             Receive(t) \/ Discard(t) \/ ExistsWaMessage(t) \/ LoadUser(t) \/ AddUser(t)
             \/ FindActive(t) \/ LockActive(t) \/ CreateConversation(t) \/ StoreMessage(t)
      PROVE  conv' = conv
  BY <1>2 DEF Receive, Discard, ExistsWaMessage, LoadUser, AddUser, Silence, FindActive, LockActive,
              CreateConversation, StoreMessage
<1>3. ASSUME NEW t \in Turn,
             HandleTurn(t) \/ Deliver(t) \/ SyncLead(t) \/ SendError(t) \/ Respond(t)
             \/ FailTurn(t) \/ KillTurn(t)
      PROVE  conv' = conv
  BY <1>3 DEF HandleTurn, Deliver, SyncLead, SendError, Respond, FailTurn, KillTurn
<1>4. CASE SetHandover \/ SetBlocked \/ UNCHANGED vars
  BY <1>4 DEF SetHandover, SetBlocked, vars
<1> QED
  BY <1>1, <1>2, <1>3, <1>4 DEF Next, TurnStep

\* A closed conversation never changes again, whichever turns were waiting
\* for its row when it was closed.
THEOREM ClosedIsFinalHolds == Spec => ClosedIsFinal
<1>1. TypeOK /\ LockInv /\ [Next]_vars
        => [\A c \in ConvId : conv[c].status = "closed" => conv'[c] = conv[c]]_vars
  BY ClosedStep
<1>2. Spec => []LockInv
  BY InitLock, NextLock, TypeCorrect, PTL DEF Spec
<1> QED
  BY <1>1, <1>2, TypeCorrect, PTL DEF Spec, ClosedIsFinal

(***************************************************************************)
(* Silence.  A contact the database knows is never inserted again, so only *)
(* the transcript's unique key swallows a turn, and it does so only when   *)
(* the row is committed, where it stays.                                   *)
(***************************************************************************)
SilenceInv ==
    /\ known
    /\ \A t \in Turn : pc[t] # "adduser"
    /\ SilencedIsRecorded

LEMMA InitSilence == ASSUME KnownContact PROVE Init => SilenceInv
  BY DEF Init, SilenceInv, SilencedIsRecorded

\* A contact that is known stays known, and no turn goes to insert it.
LEMMA KnownStays ==
  ASSUME TypeOK, known, \A t \in Turn : pc[t] # "adduser", [Next]_vars
  PROVE  known' /\ \A t \in Turn : pc'[t] # "adduser"
<1> USE DEF dbVars, userVars, outVars, logVars, session
<1>m. ASSUME NEW t \in Turn, NEW p \in Phase \ {"adduser"}, GoTo(t, p), known'
      PROVE  known' /\ \A u \in Turn : pc'[u] # "adduser"
  BY <1>m DEF GoTo, TypeOK
<1>p. {"dedupe", "load", "find", "lock", "store", "machine", "commit", "deliver", "sync",
       "apologise", "respond", "done"} \subseteq Phase \ {"adduser"}
  BY DEF Phase, InTxn, Before, Claimed, After
<1>1. ASSUME NEW t \in Turn, Receive(t) \/ Discard(t) \/ ExistsWaMessage(t) \/ LoadUser(t)
      PROVE  known' /\ \A u \in Turn : pc'[u] # "adduser"
  <2>1. \E p \in {"dedupe", "respond", "load", "find"} : GoTo(t, p)
    BY <1>1 DEF Receive, Discard, ExistsWaMessage, LoadUser
  <2>2. known'
    BY <1>1 DEF Receive, Discard, ExistsWaMessage, LoadUser
  <2> QED
    BY <2>1, <2>2, <1>m, <1>p
<1>2. ASSUME NEW t \in Turn,
             AddUser(t) \/ FindActive(t) \/ LockActive(t) \/ CreateConversation(t) \/ StoreMessage(t)
      PROVE  known' /\ \A u \in Turn : pc'[u] # "adduser"
  <2>1. (\E p \in {"respond", "find", "lock", "store", "machine", "commit"} : GoTo(t, p)) \/ UNCHANGED pc
    BY <1>2 DEF AddUser, Silence, FindActive, LockActive, CreateConversation, StoreMessage
  <2>2. known'
    BY <1>2 DEF AddUser, Silence, FindActive, LockActive, CreateConversation, StoreMessage
  <2>3. CASE UNCHANGED pc
    BY <2>2, <2>3
  <2> QED
    BY <2>1, <2>2, <2>3, <1>m, <1>p
<1>3. ASSUME NEW t \in Turn,
             HandleTurn(t) \/ Commit(t) \/ Deliver(t) \/ SyncLead(t) \/ SendError(t) \/ Respond(t)
             \/ FailTurn(t) \/ KillTurn(t)
      PROVE  known' /\ \A u \in Turn : pc'[u] # "adduser"
  <2>1. \E p \in {"commit", "respond", "deliver", "sync", "done", "apologise"} : GoTo(t, p)
    BY <1>3 DEF HandleTurn, Commit, Deliver, SyncLead, SendError, Respond, FailTurn, KillTurn
  <2>2. known'
    BY <1>3 DEF HandleTurn, Commit, Deliver, SyncLead, SendError, Respond, FailTurn, KillTurn
  <2> QED
    BY <2>1, <2>2, <1>m, <1>p
<1>4. CASE SetHandover \/ SetBlocked \/ UNCHANGED vars
  BY <1>4 DEF SetHandover, SetBlocked, vars
<1> QED
  BY <1>1, <1>2, <1>3, <1>4 DEF Next, TurnStep

LEMMA NextSilence == ASSUME TypeOK, LedgerInv, SilenceInv, [Next]_vars PROVE SilenceInv'
<1> USE MsgType DEF dbVars, userVars, outVars, logVars, session
<1>k. known' /\ \A t \in Turn : pc'[t] # "adduser"
  BY KnownStays DEF SilenceInv
<1>u. ASSUME UNCHANGED <<rows, silenced>> PROVE SilencedIsRecorded'
  BY <1>u DEF SilenceInv, SilencedIsRecorded
<1>1. ASSUME NEW t \in Turn, StoreMessage(t) PROVE SilencedIsRecorded'
  <2>1. CASE rows[Msg(t)] > 0
    <3>1. rows[Msg(t)] = 1
      BY <2>1 DEF LedgerInv, AtMostOnce, TypeOK
    <3>2. silenced' = silenced \union {Msg(t)} /\ rows' = rows
      BY <1>1, <2>1 DEF StoreMessage, Silence
    <3> QED
      BY <3>1, <3>2 DEF SilenceInv, SilencedIsRecorded
  <2>2. CASE ~(rows[Msg(t)] > 0)
    BY <1>1, <1>u, <2>2 DEF StoreMessage
  <2> QED
    BY <2>1, <2>2
<1>2. ASSUME NEW t \in Turn, Commit(t) PROVE SilencedIsRecorded'
  <2>1. rows[Msg(t)] = 0 /\ rows' = [rows EXCEPT ![Msg(t)] = @ + 1] /\ silenced' = silenced
    BY <1>2 DEF Commit, LedgerInv, Claimed
  <2>2. \A m \in silenced : m \in Messages /\ rows[m] = 1
    BY DEF SilenceInv, SilencedIsRecorded, TypeOK
  <2> QED
    BY <2>1, <2>2 DEF SilencedIsRecorded, TypeOK
<1>3. ASSUME NEW t \in Turn,
             Receive(t) \/ Discard(t) \/ ExistsWaMessage(t) \/ LoadUser(t) \/ FindActive(t) \/ LockActive(t)
             \/ CreateConversation(t) \/ HandleTurn(t) \/ Deliver(t)
             \/ SyncLead(t) \/ SendError(t) \/ Respond(t) \/ FailTurn(t) \/ KillTurn(t)
      PROVE  UNCHANGED <<rows, silenced>>
  BY <1>3 DEF Receive, Discard, ExistsWaMessage, LoadUser, FindActive, LockActive, CreateConversation,
              HandleTurn, Deliver, SyncLead, SendError, Respond, FailTurn, KillTurn
<1>4. ASSUME NEW t \in Turn PROVE ~AddUser(t)
  BY DEF AddUser, SilenceInv
<1>5. SetHandover \/ SetBlocked \/ UNCHANGED vars => UNCHANGED <<rows, silenced>>
  BY DEF SetHandover, SetBlocked, vars
<1>6. \/ \E t \in Turn : StoreMessage(t) \/ Commit(t)
      \/ UNCHANGED <<rows, silenced>>
  BY <1>3, <1>4, <1>5 DEF Next, TurnStep
<1>7. SilencedIsRecorded'
  BY <1>u, <1>1, <1>2, <1>6
<1> QED
  BY <1>k, <1>7 DEF SilenceInv

\* For a contact the database knows, a swallowed IntegrityError is only ever a
\* redelivery: the message has its committed row, with either way of processing.
\* (For the first messages of a new number it is not, which a run shows.)
THEOREM SilencedOnlyRedeliveries ==
  ASSUME KnownContact
  PROVE  Spec => []SilencedIsRecorded
<1>1. Spec => [](TypeOK /\ LedgerInv)
  BY InitLedger, NextLedger, TypeCorrect, PTL DEF Spec
<1>2. SilenceInv => SilencedIsRecorded
  BY DEF SilenceInv
<1> QED
  BY <1>1, <1>2, InitSilence, NextSilence, PTL DEF Spec

(***************************************************************************)
(* What becomes of a message.  A turn reaches its 200 only with its        *)
(* message accounted for: recorded, refused, its failure admitted, or an   *)
(* IntegrityError swallowed - for any contact, with either processing.     *)
(***************************************************************************)
Settled(m) == rows[m] > 0 \/ m \in refused \union failed

Accounted(m) == Settled(m) \/ m \in silenced

Answered == {"respond", "apologise", "deliver", "sync"}

AccountInv ==
    /\ \A t \in Turn : pc[t] \in Answered => Accounted(Msg(t))
    /\ Inline => \A m \in acked : Accounted(m)

LEMMA InitAccount == Init => AccountInv
  BY DEF Init, AccountInv, Answered

\* The transcript only grows, and so do the logs of what was dropped; so a
\* message that is accounted for stays so.
LEMMA AccountedStays ==
  ASSUME TypeOK, [Next]_vars, NEW m \in Messages
  PROVE  Accounted(m) => Accounted(m)'
<1> USE MsgType DEF dbVars, userVars, outVars, logVars, session
<1>1. ASSUME NEW t \in Turn, Receive(t) \/ ExistsWaMessage(t) \/ FindActive(t) \/ LockActive(t)
             \/ CreateConversation(t) \/ HandleTurn(t) \/ Deliver(t) \/ SyncLead(t)
             \/ SendError(t) \/ Respond(t) \/ KillTurn(t)
      PROVE  UNCHANGED <<rows, refused, failed, silenced>>
  BY <1>1 DEF Receive, ExistsWaMessage, FindActive, LockActive, CreateConversation, HandleTurn,
              Deliver, SyncLead, SendError, Respond, KillTurn
<1>2. ASSUME NEW t \in Turn,
             Discard(t) \/ LoadUser(t) \/ AddUser(t) \/ StoreMessage(t) \/ FailTurn(t)
      PROVE  /\ rows' = rows /\ refused \subseteq refused'
             /\ failed \subseteq failed' /\ silenced \subseteq silenced'
  BY <1>2 DEF Discard, LoadUser, AddUser, StoreMessage, Silence, FailTurn
<1>3. ASSUME NEW t \in Turn, Commit(t)
      PROVE  UNCHANGED <<refused, failed, silenced>> /\ rows'[m] >= rows[m]
  BY <1>3 DEF Commit, TypeOK
<1>4. SetHandover \/ SetBlocked \/ UNCHANGED vars => UNCHANGED <<rows, refused, failed, silenced>>
  BY DEF SetHandover, SetBlocked, vars
<1>5. rows[m] \in Nat /\ rows'[m] \in Nat
  BY NextType DEF TypeOK
<1>6. \/ UNCHANGED <<rows, refused, failed, silenced>>
      \/ /\ rows' = rows /\ refused \subseteq refused'
         /\ failed \subseteq failed' /\ silenced \subseteq silenced'
      \/ UNCHANGED <<refused, failed, silenced>> /\ rows'[m] >= rows[m]
  BY <1>1, <1>2, <1>3, <1>4 DEF Next, TurnStep
<1>7. CASE UNCHANGED <<refused, failed, silenced>> /\ rows'[m] >= rows[m]
  <2>1. rows[m] > 0 => rows'[m] > 0
    BY <1>5, <1>7
  <2> QED
    BY <1>7, <2>1 DEF Accounted, Settled
<1> QED
  BY <1>6, <1>7 DEF Accounted, Settled

\* So a step has to account only for the turn it moves and for a message it
\* acknowledges.
LEMMA AccountFrame ==
  ASSUME TypeOK, AccountInv, [Next]_vars,
         NEW t \in Turn, NEW next \in Phase, GoTo(t, next) \/ UNCHANGED pc,
         next \in Answered => Accounted(Msg(t))',
         \A m \in acked' \ acked : m \in Messages /\ (Inline => Accounted(m))
  PROVE  AccountInv'
<1>1. ASSUME NEW u \in Turn, pc'[u] \in Answered
      PROVE  Accounted(Msg(u))'
  <2>1. CASE pc'[u] = pc[u]
    BY <1>1, <2>1, MsgType, AccountedStays DEF AccountInv
  <2>2. CASE pc'[u] # pc[u]
    <3>1. u = t /\ pc'[u] = next
      BY <2>2 DEF TypeOK, GoTo
    <3> QED
      BY <1>1, <3>1
  <2> QED
    BY <2>1, <2>2
<1>2. ASSUME Inline, NEW m \in acked' PROVE Accounted(m)'
  <2>1. m \in Messages /\ Accounted(m)
    BY <1>2 DEF AccountInv, TypeOK
  <2> QED
    BY <2>1, AccountedStays
<1> QED
  BY <1>1, <1>2 DEF AccountInv

LEMMA NextAccount ==
  ASSUME TypeOK, AccountInv, [Next]_vars
  PROVE  AccountInv'
<1> USE MsgType DEF dbVars, userVars, outVars, logVars, session
<1>p. {"dedupe", "load", "adduser", "find", "lock", "store", "machine", "commit", "done"}
        \subseteq Phase \ Answered /\ Answered \subseteq Phase
  BY DEF Phase, InTxn, Before, Claimed, After, Answered
<1>a. {"respond", "apologise", "deliver", "sync"} = Answered
  BY DEF Answered
\* A step that acknowledges nothing and moves a turn to a phase where nothing
\* is owed, or to one with its message accounted for.
<1>m. ASSUME NEW t \in Turn, NEW p \in Phase \ Answered, GoTo(t, p) \/ UNCHANGED pc, acked' = acked
      PROVE  AccountInv'
  BY <1>m, AccountFrame
<1>s. ASSUME NEW t \in Turn, NEW p \in Answered, GoTo(t, p), Accounted(Msg(t))', acked' = acked
      PROVE  AccountInv'
  BY <1>s, <1>p, AccountFrame
<1>1. ASSUME NEW t \in Turn, Receive(t) PROVE AccountInv'
  <2>1. GoTo(t, "dedupe") /\ (acked' = acked \/ (~Inline /\ acked' = acked \union {Msg(t)}))
    BY <1>1 DEF Receive
  <2> QED
    BY <2>1, <1>p, AccountFrame
<1>2. ASSUME NEW t \in Turn, Discard(t) PROVE AccountInv'
  <2>1. GoTo(t, "respond") /\ refused' = refused \union {Msg(t)} /\ acked' = acked
    BY <1>2 DEF Discard
  <2> QED
    BY <2>1, <1>a, <1>s DEF Accounted, Settled
<1>3. ASSUME NEW t \in Turn, ExistsWaMessage(t) PROVE AccountInv'
  <2>1. CASE rows[Msg(t)] > 0
    BY <1>3, <2>1, <1>a, <1>s DEF ExistsWaMessage, Accounted, Settled
  <2>2. CASE ~(rows[Msg(t)] > 0)
    BY <1>3, <2>2, <1>m, <1>p DEF ExistsWaMessage
  <2> QED
    BY <2>1, <2>2
<1>4. ASSUME NEW t \in Turn, LoadUser(t) PROVE AccountInv'
  <2>1. CASE blocked
    <3>1. GoTo(t, "respond") /\ refused' = refused \union {Msg(t)} /\ acked' = acked
      BY <1>4, <2>1 DEF LoadUser
    <3> QED
      BY <3>1, <1>a, <1>s DEF Accounted, Settled
  <2>2. CASE ~blocked
    <3>1. (\E p \in {"find", "adduser"} : GoTo(t, p)) /\ acked' = acked
      BY <1>4, <2>2 DEF LoadUser
    <3> QED
      BY <3>1, <1>m, <1>p
  <2> QED
    BY <2>1, <2>2
<1>5. ASSUME NEW t \in Turn, Silence(t) PROVE AccountInv'
  <2>1. GoTo(t, "respond") /\ silenced' = silenced \union {Msg(t)} /\ acked' = acked
    BY <1>5 DEF Silence
  <2> QED
    BY <2>1, <1>a, <1>s DEF Accounted
<1>6. ASSUME NEW t \in Turn, AddUser(t) PROVE AccountInv'
  BY <1>5, <1>6, <1>m, <1>p DEF AddUser
<1>7. ASSUME NEW t \in Turn, FindActive(t) \/ LockActive(t) \/ CreateConversation(t) PROVE AccountInv'
  <2>1. ((\E p \in {"lock", "store"} : GoTo(t, p)) \/ UNCHANGED pc) /\ acked' = acked
    BY <1>7 DEF FindActive, LockActive, CreateConversation
  <2> QED
    BY <2>1, <1>m, <1>p
<1>8. ASSUME NEW t \in Turn, StoreMessage(t) PROVE AccountInv'
  <2>1. CASE rows[Msg(t)] > 0
    BY <1>5, <1>8, <2>1 DEF StoreMessage
  <2>2. CASE ~(rows[Msg(t)] > 0)
    <3>1. (\E p \in {"commit", "machine"} : GoTo(t, p)) /\ acked' = acked
      BY <1>8, <2>2 DEF StoreMessage
    <3> QED
      BY <3>1, <1>m, <1>p
  <2> QED
    BY <2>1, <2>2
<1>9. ASSUME NEW t \in Turn, HandleTurn(t) PROVE AccountInv'
  BY <1>9, <1>m, <1>p DEF HandleTurn
<1>10. ASSUME NEW t \in Turn, Commit(t) PROVE AccountInv'
  <2>1. /\ \E p \in {"respond", "deliver"} : GoTo(t, p)
        /\ rows' = [rows EXCEPT ![Msg(t)] = @ + 1] /\ acked' = acked
    BY <1>10 DEF Commit
  <2>2. rows'[Msg(t)] > 0
    BY <2>1 DEF TypeOK
  <2> QED
    BY <2>1, <2>2, <1>a, <1>s DEF Accounted, Settled
\* A turn whose message is accounted for goes on, or ends.
<1>11. ASSUME NEW t \in Turn, Deliver(t) \/ SyncLead(t) \/ SendError(t) PROVE AccountInv'
  <2>1. Accounted(Msg(t))'
    BY <1>11, <1>a, AccountedStays DEF Deliver, SyncLead, SendError, AccountInv
  <2>2. (\E p \in {"sync", "respond", "done"} : GoTo(t, p)) /\ acked' = acked
    BY <1>11 DEF Deliver, SyncLead, SendError
  <2> QED
    BY <2>1, <2>2, <1>a, <1>m, <1>p, <1>s
<1>12. ASSUME NEW t \in Turn, Respond(t) PROVE AccountInv'
  <2>1. Accounted(Msg(t))
    BY <1>12, <1>a DEF Respond, AccountInv
  <2>2. GoTo(t, "done") /\ acked' \in {acked, acked \union {Msg(t)}}
    BY <1>12 DEF Respond
  <2> QED
    BY <2>1, <2>2, <1>p, AccountFrame
<1>13. ASSUME NEW t \in Turn, FailTurn(t) PROVE AccountInv'
  <2>1. GoTo(t, "apologise") /\ failed' = failed \union {Msg(t)} /\ acked' = acked
    BY <1>13 DEF FailTurn
  <2> QED
    BY <2>1, <1>a, <1>s DEF Accounted, Settled
<1>14. ASSUME NEW t \in Turn, KillTurn(t) PROVE AccountInv'
  BY <1>14, <1>m, <1>p DEF KillTurn
<1>15. CASE SetHandover \/ SetBlocked \/ UNCHANGED vars
  <2>1. UNCHANGED <<pc, rows, acked, refused, failed, silenced>>
    BY <1>15 DEF SetHandover, SetBlocked, vars
  <2> QED
    BY <2>1 DEF AccountInv, Accounted, Settled
<1> QED
  BY <1>1, <1>2, <1>3, <1>4, <1>6, <1>7, <1>8, <1>9, <1>10, <1>11, <1>12, <1>13, <1>14, <1>15
  DEF Next, TurnStep

(***************************************************************************)
(* The refinement.  Swallowed messages are redeliveries for a contact the  *)
(* database knows, so there the ledger needs no excuse for them.           *)
(***************************************************************************)
\* The ledger with swallowed messages as one more excuse.
AnyLedger == INSTANCE MessageLedger WITH status <- LedgerStatus,
                                         excused <- refused \union failed \union silenced

\* The status of one message depends on its own counters only.
LEMMA StatusOf ==
  ASSUME NEW m \in Messages
  PROVE  LedgerStatus[m] = StatusFor(rows[m], replies[m])
  BY DEF LedgerStatus

LEMMA InitStatus == Init => LedgerStatus = [m \in Messages |-> "new"]
  BY DEF Init, LedgerStatus, StatusFor

\* A commit takes its message from new to recorded.
LEMMA CommitRecords ==
  ASSUME TypeOK, LedgerInv, NEW t \in Turn, Commit(t)
  PROVE  /\ LedgerStatus[Msg(t)] = "new"
         /\ LedgerStatus' = [LedgerStatus EXCEPT ![Msg(t)] = "recorded"]
         /\ UNCHANGED <<refused, failed, silenced, acked>>
<1> USE MsgType DEF dbVars, userVars, outVars, logVars
<1>1. rows[Msg(t)] = 0 /\ replies[Msg(t)] = 0
  BY DEF Commit, LedgerInv, AtMostOnce, TypeOK, Claimed
<1>2. rows' = [rows EXCEPT ![Msg(t)] = 1] /\ UNCHANGED <<replies, refused, failed, silenced, acked>>
  BY <1>1 DEF Commit
<1>3. LedgerStatus[Msg(t)] = "new"
  BY <1>1, StatusOf DEF StatusFor
<1>4. LedgerStatus' = [LedgerStatus EXCEPT ![Msg(t)] = "recorded"]
  <2>1. ASSUME NEW m \in Messages \ {Msg(t)}
        PROVE  rows'[m] = rows[m] /\ replies'[m] = replies[m]
    BY <1>2 DEF TypeOK
  <2>2. rows'[Msg(t)] = 1 /\ replies'[Msg(t)] = 0
    BY <1>1, <1>2 DEF TypeOK
  <2>3. StatusFor(rows'[Msg(t)], replies'[Msg(t)]) = "recorded"
    BY <2>2 DEF StatusFor
  <2>4. \A m \in Messages : StatusFor(rows'[m], replies'[m])
                              = IF m = Msg(t) THEN "recorded" ELSE LedgerStatus[m]
    BY <2>1, <2>3, StatusOf
  <2> QED
    BY <2>4 DEF LedgerStatus
<1> QED
  BY <1>2, <1>3, <1>4

\* A delivery that is sent takes its message from recorded to answered.
LEMMA DeliverAnswers ==
  ASSUME TypeOK, LedgerInv, NEW t \in Turn, Deliver(t), replies' # replies
  PROVE  /\ LedgerStatus[Msg(t)] = "recorded"
         /\ LedgerStatus' = [LedgerStatus EXCEPT ![Msg(t)] = "answered"]
         /\ UNCHANGED <<refused, failed, silenced, acked>>
<1> USE MsgType DEF dbVars, userVars, outVars, logVars
<1>1. rows[Msg(t)] = 1 /\ replies[Msg(t)] = 0
  BY DEF Deliver, LedgerInv
<1>2. replies' = [replies EXCEPT ![Msg(t)] = 1] /\ UNCHANGED <<rows, refused, failed, silenced, acked>>
  BY <1>1 DEF Deliver
<1>3. LedgerStatus[Msg(t)] = "recorded"
  BY <1>1, StatusOf DEF StatusFor
<1>4. LedgerStatus' = [LedgerStatus EXCEPT ![Msg(t)] = "answered"]
  <2>1. ASSUME NEW m \in Messages \ {Msg(t)}
        PROVE  rows'[m] = rows[m] /\ replies'[m] = replies[m]
    BY <1>2 DEF TypeOK
  <2>2. rows'[Msg(t)] = 1 /\ replies'[Msg(t)] = 1
    BY <1>1, <1>2 DEF TypeOK
  <2>3. StatusFor(rows'[Msg(t)], replies'[Msg(t)]) = "answered"
    BY <2>2 DEF StatusFor
  <2>4. \A m \in Messages : StatusFor(rows'[m], replies'[m])
                              = IF m = Msg(t) THEN "answered" ELSE LedgerStatus[m]
    BY <2>1, <2>3, StatusOf
  <2> QED
    BY <2>4 DEF LedgerStatus
<1> QED
  BY <1>2, <1>3, <1>4

\* A 200 is given for a message that is accounted for, and changes nothing else.
LEMMA RespondAcknowledges ==
  ASSUME TypeOK, AccountInv, NEW t \in Turn, Respond(t), acked' # acked
  PROVE  /\ acked' = acked \union {Msg(t)} /\ UNCHANGED <<LedgerStatus, refused, failed, silenced>>
         /\ LedgerStatus[Msg(t)] # "new" \/ Msg(t) \in refused \union failed \union silenced
         /\ Msg(t) \in silenced /\ rows[Msg(t)] = 1 => LedgerStatus[Msg(t)] # "new"
<1> USE MsgType DEF dbVars, userVars, outVars, logVars
<1>1. acked' = acked \union {Msg(t)} /\ UNCHANGED <<rows, replies, refused, failed, silenced>>
  BY DEF Respond
<1>2. Accounted(Msg(t))
  BY DEF Respond, AccountInv, Answered
<1>3. rows[Msg(t)] > 0 => LedgerStatus[Msg(t)] # "new"
  BY StatusOf, SMTT(30) DEF TypeOK, StatusFor
<1>4. rows[Msg(t)] = 1 => rows[Msg(t)] > 0
  OBVIOUS
<1>5. UNCHANGED LedgerStatus
  BY <1>1 DEF LedgerStatus
<1> QED
  BY <1>1, <1>2, <1>3, <1>4, <1>5 DEF Accounted, Settled

\* The other steps of a turn do not touch what the ledger sees.
LEMMA LedgerQuiet ==
  ASSUME NEW t \in Turn,
         Receive(t) \/ ExistsWaMessage(t) \/ FindActive(t) \/ LockActive(t)
         \/ CreateConversation(t) \/ HandleTurn(t) \/ SyncLead(t) \/ SendError(t) \/ KillTurn(t)
  PROVE  UNCHANGED <<rows, replies, refused, failed, silenced>> /\ (Inline => acked' = acked)
  BY DEF dbVars, outVars, logVars, Receive, ExistsWaMessage, FindActive, LockActive,
         CreateConversation, HandleTurn, SyncLead, SendError, KillTurn

LEMMA NextRefines ==
  ASSUME Inline, TypeOK, LedgerInv, AccountInv, SilencedIsRecorded, [Next]_vars
  PROVE  [Ledger!Next]_(Ledger!vars)
<1> USE MsgType DEF dbVars, userVars, outVars, logVars
<1>u. ASSUME UNCHANGED <<rows, replies, refused, failed, acked>>
      PROVE  UNCHANGED Ledger!vars
  BY <1>u DEF Ledger!vars, LedgerStatus
<1>x. ASSUME NEW t \in Turn, UNCHANGED <<rows, replies, acked>>,
             refused' \union failed' = refused \union failed \union {Msg(t)}
      PROVE  Ledger!Next
  <2>1. Ledger!Excuse(Msg(t))
    BY <1>x DEF Ledger!Excuse, LedgerStatus
  <2> QED
    BY <2>1 DEF Ledger!Next
<1>1. ASSUME NEW t \in Turn, LoadUser(t) PROVE [Ledger!Next]_(Ledger!vars)
  <2>1. CASE blocked
    BY <1>1, <1>x, <2>1 DEF LoadUser
  <2>2. CASE ~blocked
    BY <1>1, <1>u, <2>2 DEF LoadUser
  <2> QED
    BY <2>1, <2>2
<1>2. ASSUME NEW t \in Turn, Commit(t) PROVE [Ledger!Next]_(Ledger!vars)
  <2>1. Ledger!Record(Msg(t))
    BY <1>2, CommitRecords DEF Ledger!Record
  <2> QED
    BY <2>1 DEF Ledger!Next
<1>3. ASSUME NEW t \in Turn, Deliver(t) PROVE [Ledger!Next]_(Ledger!vars)
  <2>1. CASE replies' = replies
    BY <1>3, <1>u, <2>1 DEF Deliver
  <2>2. CASE replies' # replies
    <3>1. Ledger!Answer(Msg(t))
      BY <1>3, <2>2, DeliverAnswers DEF Ledger!Answer
    <3> QED
      BY <3>1 DEF Ledger!Next
  <2> QED
    BY <2>1, <2>2
<1>4. ASSUME NEW t \in Turn, Respond(t) PROVE [Ledger!Next]_(Ledger!vars)
  <2>1. CASE acked' = acked
    BY <1>4, <1>u, <2>1 DEF Respond
  <2>2. CASE acked' # acked
    <3>1. Ledger!Acknowledge(Msg(t))
      BY <1>4, <2>2, RespondAcknowledges DEF SilencedIsRecorded, Ledger!Acknowledge
    <3> QED
      BY <3>1 DEF Ledger!Next
  <2> QED
    BY <2>1, <2>2
<1>5. ASSUME NEW t \in Turn, Discard(t) \/ FailTurn(t) PROVE [Ledger!Next]_(Ledger!vars)
  BY <1>5, <1>x DEF Discard, FailTurn
<1>6. ASSUME NEW t \in Turn, AddUser(t) \/ StoreMessage(t) PROVE UNCHANGED Ledger!vars
  BY <1>6, <1>u DEF AddUser, StoreMessage, Silence
<1>7. CASE SetHandover \/ SetBlocked \/ UNCHANGED vars
  BY <1>7, <1>u DEF SetHandover, SetBlocked, vars
<1> QED
  BY <1>1, <1>2, <1>3, <1>4, <1>5, <1>6, <1>7, <1>u, LedgerQuiet DEF Next, TurnStep

LEMMA NextRefinesAny ==
  ASSUME Inline, TypeOK, LedgerInv, AccountInv, [Next]_vars
  PROVE  [AnyLedger!Next]_(AnyLedger!vars)
<1> USE MsgType DEF dbVars, userVars, outVars, logVars
<1>u. ASSUME UNCHANGED <<rows, replies, refused, failed, silenced, acked>>
      PROVE  UNCHANGED AnyLedger!vars
  BY <1>u DEF AnyLedger!vars, LedgerStatus
<1>x. ASSUME NEW t \in Turn, UNCHANGED <<rows, replies, acked>>,
             refused' \union failed' \union silenced'
               = refused \union failed \union silenced \union {Msg(t)}
      PROVE  AnyLedger!Next
  <2>1. AnyLedger!Excuse(Msg(t))
    BY <1>x DEF AnyLedger!Excuse, LedgerStatus
  <2> QED
    BY <2>1 DEF AnyLedger!Next
<1>1. ASSUME NEW t \in Turn, LoadUser(t) PROVE [AnyLedger!Next]_(AnyLedger!vars)
  <2>1. CASE blocked
    BY <1>1, <1>x, <2>1 DEF LoadUser
  <2>2. CASE ~blocked
    BY <1>1, <1>u, <2>2 DEF LoadUser
  <2> QED
    BY <2>1, <2>2
<1>2. ASSUME NEW t \in Turn, Commit(t) PROVE [AnyLedger!Next]_(AnyLedger!vars)
  <2>1. AnyLedger!Record(Msg(t))
    BY <1>2, CommitRecords DEF AnyLedger!Record
  <2> QED
    BY <2>1 DEF AnyLedger!Next
<1>3. ASSUME NEW t \in Turn, Deliver(t) PROVE [AnyLedger!Next]_(AnyLedger!vars)
  <2>1. CASE replies' = replies
    BY <1>3, <1>u, <2>1 DEF Deliver
  <2>2. CASE replies' # replies
    <3>1. AnyLedger!Answer(Msg(t))
      BY <1>3, <2>2, DeliverAnswers DEF AnyLedger!Answer
    <3> QED
      BY <3>1 DEF AnyLedger!Next
  <2> QED
    BY <2>1, <2>2
<1>4. ASSUME NEW t \in Turn, Respond(t) PROVE [AnyLedger!Next]_(AnyLedger!vars)
  <2>1. CASE acked' = acked
    BY <1>4, <1>u, <2>1 DEF Respond
  <2>2. CASE acked' # acked
    <3>1. AnyLedger!Acknowledge(Msg(t))
      BY <1>4, <2>2, RespondAcknowledges DEF AnyLedger!Acknowledge
    <3> QED
      BY <3>1 DEF AnyLedger!Next
  <2> QED
    BY <2>1, <2>2
<1>5. ASSUME NEW t \in Turn, Discard(t) \/ FailTurn(t) \/ Silence(t)
      PROVE  [AnyLedger!Next]_(AnyLedger!vars)
  BY <1>5, <1>x DEF Discard, FailTurn, Silence
<1>6. ASSUME NEW t \in Turn, AddUser(t) \/ StoreMessage(t), ~Silence(t) PROVE UNCHANGED AnyLedger!vars
  BY <1>6, <1>u DEF AddUser, StoreMessage
<1>7. CASE SetHandover \/ SetBlocked \/ UNCHANGED vars
  BY <1>7, <1>u DEF SetHandover, SetBlocked, vars
<1> QED
  BY <1>1, <1>2, <1>3, <1>4, <1>5, <1>6, <1>7, <1>u, LedgerQuiet DEF Next, TurnStep

\* For a contact the database knows and with inline processing, the turn
\* implements the message ledger: a redelivery, a crash, a failed transaction
\* or a racing turn can neither double a message nor lose one that Meta was
\* told to stop sending.
THEOREM TurnMeetsLedger ==
  ASSUME Inline, KnownContact
  PROVE  Spec => MeetsLedger
<1>1. Spec => [](TypeOK /\ LedgerInv /\ AccountInv)
  BY InitLedger, NextLedger, InitAccount, NextAccount, TypeCorrect, PTL DEF Spec
<1>2. Spec => []SilencedIsRecorded
  BY SilencedOnlyRedeliveries
<1>3. Init => Ledger!Init
  BY InitStatus DEF Init, Ledger!Init
<1>4. TypeOK /\ LedgerInv /\ AccountInv /\ SilencedIsRecorded /\ [Next]_vars
        => [Ledger!Next]_(Ledger!vars)
  BY NextRefines
<1> QED
  BY <1>1, <1>2, <1>3, <1>4, PTL DEF Spec, MeetsLedger, Ledger!Spec

\* With inline processing the turn implements the ledger for a new contact
\* too, if a swallowed IntegrityError counts as an excuse: that is the one way
\* in which a first message can be lost (conversation_service.py catches the
\* unique phone's violation and the transcript's alike).
THEOREM TurnMeetsLedgerForAnyone ==
  ASSUME Inline
  PROVE  Spec => AnyLedger!Spec
<1>1. Spec => [](TypeOK /\ LedgerInv /\ AccountInv)
  BY InitLedger, NextLedger, InitAccount, NextAccount, TypeCorrect, PTL DEF Spec
<1>2. Init => AnyLedger!Init
  BY InitStatus DEF Init, AnyLedger!Init
<1>3. TypeOK /\ LedgerInv /\ AccountInv /\ [Next]_vars
        => [AnyLedger!Next]_(AnyLedger!vars)
  BY NextRefinesAny
<1> QED
  BY <1>1, <1>2, <1>3, PTL DEF Spec, AnyLedger!Spec

(***************************************************************************)
(* First contact.  Until the new number's row is committed there is no     *)
(* conversation, and only one turn past the insert; after that, and until  *)
(* a conversation is closed, there is exactly one, and it is the one every *)
(* turn has found or holds.                                                *)
(***************************************************************************)
Looking == {"find", "lock"} \union Locked

OnlyOne(c) ==
    /\ OpenConvs = {c}
    /\ \A t \in Turn : pc[t] = "lock" => cand[t] = {c}
    /\ \A t \in Turn : pc[t] \in Locked => held[t] = c

FirstInv ==
    /\ ~known => /\ \A c \in ConvId : conv[c].status = "absent"
                 /\ \A t, u \in Turn : pc[t] \in Looking /\ pc[u] \in Looking => t = u
                 /\ \A t \in Turn : pc[t] = "lock" => cand[t] = {}
    /\ known => \/ \E c \in ConvId : conv[c].status = "closed"
                \/ \E c \in ConvId : OnlyOne(c)

LEMMA InitFirst == ASSUME ~KnownContact PROVE Init => FirstInv
  BY DEF Init, FirstInv, NoRows, AbsentRow, Looking, Locked, Claimed

\* A step that writes no conversation and takes no turn on to looking for one.
LEMMA FirstFrame ==
  ASSUME TypeOK, FirstInv, UNCHANGED <<known, conv>>,
         \A u \in Turn : pc'[u] \in Looking =>
             pc[u] \in Looking /\ pc'[u] = pc[u] /\ cand'[u] = cand[u] /\ held'[u] = held[u]
  PROVE  FirstInv'
<1>1. ASSUME NEW u \in Turn, pc'[u] = "lock" \/ pc'[u] \in Locked PROVE pc'[u] \in Looking
  BY <1>1 DEF Looking
<1>2. CASE ~known
  BY <1>1, <1>2 DEF FirstInv
<1>3. ASSUME NEW c \in ConvId, OnlyOne(c) PROVE OnlyOne(c)'
  BY <1>1, <1>3 DEF OnlyOne, OpenConvs
<1> QED
  BY <1>2, <1>3 DEF FirstInv

LEMMA NextFirst == ASSUME TypeOK, LockInv, FirstInv, [Next]_vars PROVE FirstInv'
<1> USE DEF dbVars, userVars, outVars, logVars, session
<1>p. {"find", "lock", "store", "machine", "commit"} \subseteq Looking
  BY DEF Looking, Locked, Claimed
<1>q. {"idle", "dedupe", "load", "adduser", "respond", "done", "apologise", "sync", "deliver"} \intersect Looking = {}
  BY DEF Looking, Locked, Claimed
\* A turn that stops looking, or moves on as it was.
<1>m. ASSUME NEW t \in Turn, NEW p \in Phase \ Looking, GoTo(t, p), UNCHANGED <<known, conv>>,
             UNCHANGED <<cand, held>> \/ EndSession(t)
      PROVE  FirstInv'
  <2>1. \A u \in Turn : pc'[u] \in Looking => pc[u] \in Looking /\ pc'[u] = pc[u] /\ cand'[u] = cand[u] /\ held'[u] = held[u]
    BY <1>m DEF GoTo, TypeOK, EndSession, ForgetRows
  <2> QED
    BY <1>m, <2>1, FirstFrame
<1>n. {"dedupe", "load", "adduser", "respond", "done", "apologise", "sync", "deliver"} \subseteq Phase \ Looking
  BY <1>q DEF Phase, InTxn, Before, After
<1>1. ASSUME NEW t \in Turn, Receive(t) \/ Discard(t) \/ ExistsWaMessage(t) PROVE FirstInv'
  <2>1. \E p \in {"dedupe", "respond", "load"} : GoTo(t, p)
    BY <1>1 DEF Receive, Discard, ExistsWaMessage
  <2>2. UNCHANGED <<known, conv, cand, held>>
    BY <1>1 DEF Receive, Discard, ExistsWaMessage
  <2> QED
    BY <2>1, <2>2, <1>m, <1>n
\* A turn of a known contact starts looking.
<1>k. ASSUME NEW t \in Turn, GoTo(t, "find"), known, UNCHANGED <<known, conv, cand, held>>
      PROVE  FirstInv'
  <2>1. ASSUME NEW c \in ConvId, OnlyOne(c) PROVE OnlyOne(c)'
    <3>1. \A u \in Turn : pc'[u] = "lock" \/ pc'[u] \in Locked => pc'[u] = pc[u]
      BY <1>k DEF GoTo, TypeOK, Locked, Claimed
    <3> QED
      BY <1>k, <2>1, <3>1 DEF OnlyOne, OpenConvs
  <2> QED
    BY <1>k, <2>1 DEF FirstInv
<1>2. ASSUME NEW t \in Turn, LoadUser(t) PROVE FirstInv'
  <2>1. UNCHANGED <<known, conv, cand, held>>
    BY <1>2 DEF LoadUser
  <2>2. CASE blocked
    BY <1>2, <2>1, <2>2, <1>m, <1>n DEF LoadUser
  <2>3. CASE ~blocked /\ known
    BY <1>2, <2>1, <2>3, <1>k DEF LoadUser
  <2>4. CASE ~blocked /\ ~known
    BY <1>2, <2>1, <2>4, <1>m, <1>n DEF LoadUser
  <2> QED
    BY <2>2, <2>3, <2>4
<1>3. ASSUME NEW t \in Turn, Silence(t) PROVE FirstInv'
  BY <1>3, <1>m, <1>n DEF Silence
<1>4. ASSUME NEW t \in Turn, AddUser(t) PROVE FirstInv'
  <2>1. CASE known
    BY <1>3, <1>4, <2>1 DEF AddUser
  <2>2. CASE ~known
    <3>1. \A u \in Turn : pc[u] \notin Looking
      BY <1>4, <2>2 DEF AddUser, InsertingUser, Looking, Locked
    <3>2. GoTo(t, "find") /\ UNCHANGED <<known, conv, cand, held>>
      BY <1>4, <2>2 DEF AddUser
    <3>3. \A u \in Turn : pc'[u] \in Looking => u = t /\ pc'[u] = "find"
      BY <3>1, <3>2 DEF GoTo, TypeOK
    <3>4. \A u \in Turn : pc'[u] = "lock" => pc'[u] \in Looking
      BY <1>p
    <3> QED
      BY <2>2, <3>2, <3>3, <3>4 DEF FirstInv
  <2> QED
    BY <2>1, <2>2
<1>5. ASSUME NEW t \in Turn, FindActive(t) PROVE FirstInv'
  <2>1. pc[t] = "find" /\ GoTo(t, "lock") /\ cand' = [cand EXCEPT ![t] = OpenConvs] /\ UNCHANGED <<known, conv, held>>
    BY <1>5 DEF FindActive
  <2>2. /\ pc'[t] = "lock" /\ cand'[t] = OpenConvs
        /\ \A u \in Turn : u # t => pc'[u] = pc[u] /\ cand'[u] = cand[u]
    BY <2>1 DEF GoTo, TypeOK
  <2>3. pc'[t] \notin Locked
    BY <2>2 DEF Locked, Claimed
  <2>4. CASE ~known
    <3>1. OpenConvs = {}
      BY <2>4 DEF FirstInv, OpenConvs
    <3>2. \A u \in Turn : pc'[u] \in Looking => pc[u] \in Looking
      BY <2>1, <2>2, <1>p
    <3> QED
      BY <2>1, <2>2, <2>4, <3>1, <3>2 DEF FirstInv
  <2>5. ASSUME NEW c \in ConvId, OnlyOne(c) PROVE OnlyOne(c)'
    BY <2>1, <2>2, <2>3, <2>5 DEF OnlyOne, OpenConvs
  <2> QED
    BY <2>1, <2>4, <2>5 DEF FirstInv
<1>6. ASSUME NEW t \in Turn, LockActive(t) PROVE FirstInv'
  <2>1. PICK c \in cand[t] :
          IF conv[c].status = "open"
          THEN GoTo(t, "store") /\ held' = [held EXCEPT ![t] = c] /\ UNCHANGED cand
          ELSE cand' = [cand EXCEPT ![t] = @ \ {c}] /\ UNCHANGED <<pc, held>>
    BY <1>6 DEF LockActive
  <2>2. pc[t] = "lock" /\ UNCHANGED <<known, conv>>
    BY <1>6 DEF LockActive
  <2>3. known
    BY <2>1, <2>2 DEF FirstInv
  <2>4. ASSUME NEW d \in ConvId, OnlyOne(d) PROVE OnlyOne(d)'
    <3>1. c = d /\ conv[c].status = "open"
      BY <2>1, <2>2, <2>4 DEF OnlyOne, OpenConvs
    <3>2. /\ pc'[t] = "store" /\ held'[t] = d
          /\ \A u \in Turn : u # t => pc'[u] = pc[u] /\ held'[u] = held[u]
      BY <2>1, <3>1 DEF GoTo, TypeOK
    <3> QED
      BY <2>1, <2>2, <2>4, <3>1, <3>2 DEF OnlyOne, OpenConvs
  <2> QED
    BY <2>2, <2>3, <2>4 DEF FirstInv
<1>7. ASSUME NEW t \in Turn, CreateConversation(t) PROVE FirstInv'
  <2>1. /\ pc[t] = "lock" /\ cand[t] = {} /\ GoTo(t, "store") /\ held' = [held EXCEPT ![t] = nextConv]
        /\ UNCHANGED <<known, conv, cand>>
    BY <1>7 DEF CreateConversation
  <2>2. \A c \in ConvId : ~OnlyOne(c)
    BY <2>1 DEF OnlyOne
  <2>3. /\ \A u \in Turn : pc'[u] \in Looking => pc[u] \in Looking
        /\ \A u \in Turn : pc'[u] = "lock" => pc[u] = "lock"
    BY <2>1, <1>p DEF GoTo, TypeOK
  <2> QED
    BY <2>1, <2>2, <2>3 DEF FirstInv
\* A turn between its lock and its commit moves on.
<1>l. ASSUME NEW t \in Turn, pc[t] \in Locked, NEW p \in Locked, GoTo(t, p), UNCHANGED <<known, conv, cand, held>>
      PROVE  FirstInv'
  <2>1. /\ \A u \in Turn : pc'[u] \in Looking => pc[u] \in Looking
        /\ \A u \in Turn : pc'[u] = "lock" => pc[u] = "lock"
        /\ \A u \in Turn : pc'[u] \in Locked => pc[u] \in Locked
    BY <1>l DEF GoTo, TypeOK, Looking, Locked, Claimed
  <2>2. ASSUME NEW c \in ConvId, OnlyOne(c) PROVE OnlyOne(c)'
    BY <1>l, <2>1, <2>2 DEF OnlyOne, OpenConvs
  <2> QED
    BY <1>l, <2>1, <2>2 DEF FirstInv
<1>8. ASSUME NEW t \in Turn, StoreMessage(t) PROVE FirstInv'
  <2>1. CASE rows[Msg(t)] > 0
    BY <1>3, <1>8, <2>1 DEF StoreMessage
  <2>2. CASE ~(rows[Msg(t)] > 0)
    <3>1. /\ pc[t] \in Locked /\ \E p \in {"machine", "commit"} : GoTo(t, p)
          /\ UNCHANGED <<known, conv, cand, held>>
      BY <1>8, <2>2 DEF StoreMessage, Locked
    <3>2. {"machine", "commit"} \subseteq Locked
      BY DEF Locked, Claimed
    <3> QED
      BY <3>1, <3>2, <1>l
  <2> QED
    BY <2>1, <2>2
<1>9. ASSUME NEW t \in Turn, HandleTurn(t) PROVE FirstInv'
  BY <1>9, <1>l DEF HandleTurn, Locked, Claimed
<1>10. ASSUME NEW t \in Turn, Commit(t) PROVE FirstInv'
  <2>1. /\ pc[t] \in Locked /\ \E p \in {"respond", "deliver"} : GoTo(t, p)
        /\ conv' = [conv EXCEPT ![held[t]] = WrittenRow(t)] /\ known'
        /\ held' = [held EXCEPT ![t] = NoConv] /\ cand' = [cand EXCEPT ![t] = {}]
    BY <1>10 DEF Commit, ForgetRows, Locked, Claimed
  <2>2. PICK c \in ConvId : c = held[t]
    BY <2>1 DEF LockInv
  <2>3. /\ conv'[c].status \in {"open", "closed"}
        /\ \A d \in ConvId : d # c => conv'[d] = conv[d]
    BY <2>1, <2>2 DEF TypeOK, WrittenRow
  <2>4. /\ pc'[t] \notin Looking
        /\ \A u \in Turn : u # t => pc'[u] = pc[u] /\ held'[u] = held[u] /\ cand'[u] = cand[u]
    BY <2>1, <1>q DEF GoTo, TypeOK
  <2>5. \A u \in Turn : pc'[u] = "lock" \/ pc'[u] \in Locked => u # t /\ pc'[u] \in Looking
    BY <2>4, <1>p DEF Looking
  <2>6. CASE ~known
    <3>1. \A u \in Turn : pc'[u] \notin Looking
      BY <2>1, <2>4, <2>6 DEF FirstInv, Looking
    <3>2. conv'[c].status = "open" => OnlyOne(c)'
      BY <2>2, <2>3, <2>5, <2>6, <3>1 DEF OnlyOne, OpenConvs, FirstInv
    <3> QED
      BY <2>1, <2>2, <2>3, <3>2 DEF FirstInv
  <2>7. ASSUME NEW d \in ConvId, OnlyOne(d), conv'[c].status = "open" PROVE OnlyOne(d)'
    <3>1. d = c
      BY <2>1, <2>2, <2>7 DEF OnlyOne
    <3>2. OpenConvs' = {d}
      BY <2>2, <2>3, <2>7, <3>1 DEF OnlyOne, OpenConvs
    <3> QED
      BY <2>4, <2>5, <2>7, <3>2 DEF OnlyOne
  <2>8. ASSUME NEW d \in ConvId, conv[d].status = "closed" PROVE conv'[d].status = "closed"
    BY <2>8, ClosedStep
  <2> QED
    BY <2>1, <2>2, <2>3, <2>6, <2>7, <2>8 DEF FirstInv
<1>11. ASSUME NEW t \in Turn, Deliver(t) \/ FailTurn(t) \/ KillTurn(t) PROVE FirstInv'
  <2>1. \E p \in {"sync", "respond", "apologise", "done"} : GoTo(t, p)
    BY <1>11 DEF Deliver, FailTurn, KillTurn
  <2>2. EndSession(t) /\ UNCHANGED <<known, conv>>
    BY <1>11 DEF Deliver, FailTurn, KillTurn
  <2> QED
    BY <2>1, <2>2, <1>m, <1>n
<1>12. ASSUME NEW t \in Turn, SyncLead(t) \/ SendError(t) \/ Respond(t) PROVE FirstInv'
  <2>1. \E p \in {"respond", "done"} : GoTo(t, p)
    BY <1>12 DEF SyncLead, SendError, Respond
  <2>2. UNCHANGED <<known, conv, cand, held>>
    BY <1>12 DEF SyncLead, SendError, Respond
  <2> QED
    BY <2>1, <2>2, <1>m, <1>n
<1>13. CASE SetHandover \/ SetBlocked \/ UNCHANGED vars
  <2>1. UNCHANGED <<known, conv, pc, cand, held>>
    BY <1>13 DEF SetHandover, SetBlocked, vars
  <2> QED
    BY <2>1, FirstFrame
<1> QED
  BY <1>1, <1>2, <1>4, <1>5, <1>6, <1>7, <1>8, <1>9, <1>10, <1>11, <1>12, <1>13 DEF Next, TurnStep

\* However many first messages of a new number race, and whichever of them fail
\* or die, at most one conversation is open until one has been closed: the unique
\* phone number lets one turn through, and those after it find its conversation.
THEOREM FirstContactIsOne ==
  ASSUME ~KnownContact
  PROVE  Spec => []FirstContactOpensOne
<1>1. Spec => [](TypeOK /\ LockInv)
  BY InitLock, NextLock, TypeCorrect, PTL DEF Spec
<1>2. TypeOK /\ FirstInv => FirstContactOpensOne
  <2> SUFFICES ASSUME TypeOK, FirstInv, \A c \in ConvId : conv[c].status # "closed",
                      NEW c \in OpenConvs, NEW d \in OpenConvs
               PROVE  c = d
    BY DEF FirstContactOpensOne
  <2> QED
    BY DEF TypeOK, FirstInv, OnlyOne, OpenConvs
<1> QED
  BY <1>1, <1>2, InitFirst, NextFirst, PTL DEF Spec

(***************************************************************************)
(* Nobody waits for ever.  That every message settles is a liveness        *)
(* property and stays with TLC; this section proves what it rests on.      *)
(* As long as a message with deliveries enough is not accounted for, some  *)
(* turn can take a step; and no turn has more than a bounded number of     *)
(* steps to take.                                                          *)
(***************************************************************************)
UnderWay(t) == pc[t] \notin {"idle", "done"}

\* The locks: who keeps turn t from its next statement.
Awaits(t, u) ==
    \/ pc[t] = "adduser" /\ InsertingUser(u)
    \/ /\ pc[t] = "lock"
       /\ \E c \in cand[t] : (\A d \in cand[t] : d <= c) /\ Holding(u, c)
    \/ pc[t] = "store" /\ Msg(u) = Msg(t) /\ pc[u] \in Claimed

\* The guards of the disjuncts of TurnStep, together.
CanGoOn(t) ==
    /\ UnderWay(t)
    /\ \A u \in Turn : ~Awaits(t, u)
    /\ pc[t] = "lock" /\ cand[t] = {} => nextConv <= MaxConv

\* A turn that takes a step awaited nobody.
LEMMA StepsAreFree == ASSUME TypeOK, NEW t \in Turn, TurnStep(t) PROVE CanGoOn(t)
<1> USE DEF CanGoOn, UnderWay, Awaits
<1>1. ASSUME AddUser(t) PROVE CanGoOn(t)
  BY <1>1 DEF AddUser
<1>2. ASSUME LockActive(t) PROVE CanGoOn(t)
  <2>1. PICK c \in cand[t] : (\A d \in cand[t] : d <= c) /\ \A u \in Turn : ~Holding(u, c)
    BY <1>2 DEF LockActive
  <2>2. pc[t] = "lock" /\ cand[t] \subseteq Nat
    BY <1>2 DEF LockActive, TypeOK, ConvId
  <2>3. \A d \in cand[t] : (\A e \in cand[t] : e <= d) => d = c
    BY <2>1, <2>2
  <2> QED
    BY <2>1, <2>2, <2>3
<1>3. ASSUME CreateConversation(t) PROVE CanGoOn(t)
  BY <1>3 DEF CreateConversation
<1>4. ASSUME StoreMessage(t) PROVE CanGoOn(t)
  BY <1>4 DEF StoreMessage
<1>5. ASSUME ExistsWaMessage(t) \/ LoadUser(t) \/ FindActive(t) \/ HandleTurn(t) \/ Commit(t)
             \/ Deliver(t) \/ SyncLead(t) \/ SendError(t) \/ Respond(t)
      PROVE  CanGoOn(t)
  BY <1>5 DEF ExistsWaMessage, LoadUser, FindActive, HandleTurn, Commit, Deliver, SyncLead,
              SendError, Respond
<1> QED
  BY <1>1, <1>2, <1>3, <1>4, <1>5 DEF TurnStep

\* A turn waits only for turns further on: an insert of the user for any turn
\* past it, a row lock for turns at or past the transcript, the transcript for
\* turns past it.  So the waits form no circle, whatever the locks are on.
LEMMA NoCircle ==
  ASSUME TypeOK, NEW t \in Turn, UnderWay(t)
  PROVE  \E u \in Turn : UnderWay(u) /\ \A w \in Turn : ~Awaits(u, w)
<1> DEFINE Waiting == {"adduser", "lock", "store"}
<1>1. ASSUME NEW u \in Turn, UnderWay(u), pc[u] \notin Waiting
      PROVE  \A w \in Turn : ~Awaits(u, w)
  BY <1>1 DEF Awaits
<1>2. CASE \E u \in Turn : UnderWay(u) /\ pc[u] \notin Waiting
  BY <1>1, <1>2
<1>3. CASE \A u \in Turn : UnderWay(u) => pc[u] \in Waiting
  <2>1. \A u \in Turn : pc[u] \notin Claimed \union {"find"}
    BY <1>3 DEF UnderWay, Claimed
  <2>2. ASSUME NEW u \in Turn, pc[u] = "store" PROVE UnderWay(u) /\ \A w \in Turn : ~Awaits(u, w)
    BY <2>1, <2>2 DEF Awaits, UnderWay
  <2>3. ASSUME NEW u \in Turn, pc[u] = "lock", \A w \in Turn : pc[w] # "store"
        PROVE  UnderWay(u) /\ \A w \in Turn : ~Awaits(u, w)
    BY <2>1, <2>3 DEF Awaits, UnderWay, Holding
  <2>4. ASSUME NEW u \in Turn, pc[u] = "adduser", \A w \in Turn : pc[w] \notin {"store", "lock"}
        PROVE  UnderWay(u) /\ \A w \in Turn : ~Awaits(u, w)
    BY <2>1, <2>4 DEF Awaits, UnderWay, InsertingUser
  <2> QED
    BY <1>3, <2>2, <2>3, <2>4
<1> QED
  BY <1>2, <1>3

(***************************************************************************)
(* A turn's way is down: every step of a turn, and every fault that hits   *)
(* it, lowers StepsLeft, and no step of another turn raises it.            *)
(***************************************************************************)
Rank(p) ==
    CASE p = "done" -> 0
      [] p = "respond" -> 1
      [] p \in {"sync", "apologise"} -> 2
      [] p = "deliver" -> 3
      [] p = "commit" -> 4
      [] p = "machine" -> 5
      [] p = "store" -> 6
      [] p = "lock" -> 7
      [] p = "find" -> MaxConv + 8
      [] p = "adduser" -> MaxConv + 9
      [] p = "load" -> MaxConv + 10
      [] p = "dedupe" -> MaxConv + 11
      [] p = "idle" -> MaxConv + 12

Left(p, S) == Rank(p) + (IF p = "lock" THEN Cardinality(S) ELSE 0)

StepsLeft(t) == Left(pc[t], cand[t])

LEMMA Ranks ==
    /\ MaxConv \in Nat
    /\ Rank("done") = 0 /\ Rank("respond") = 1 /\ Rank("sync") = 2 /\ Rank("apologise") = 2
    /\ Rank("deliver") = 3 /\ Rank("commit") = 4 /\ Rank("machine") = 5 /\ Rank("store") = 6
    /\ Rank("lock") = 7 /\ Rank("find") = MaxConv + 8 /\ Rank("adduser") = MaxConv + 9
    /\ Rank("load") = MaxConv + 10 /\ Rank("dedupe") = MaxConv + 11
    /\ Rank("idle") = MaxConv + 12
  BY BoundsAssumption DEF Rank

LEMMA RankType == \A p \in Phase : Rank(p) \in 0 .. (MaxConv + 12)
  BY Ranks DEF Phase, InTxn, Before, Claimed, After

\* What a step makes of the turn that takes it: it goes on to a lower phase,
\* or passes over a conversation that was closed while it waited.
Moved(t) ==
    /\ \A u \in Turn \ {t} : pc'[u] = pc[u] /\ cand'[u] = cand[u]
    /\ \/ /\ pc'[t] \in Phase /\ Rank(pc'[t]) < Rank(pc[t])
          /\ pc'[t] = "lock" => pc[t] = "find"
       \/ /\ pc[t] = "lock" /\ pc'[t] = "lock"
          /\ \E c \in cand[t] : cand'[t] = cand[t] \ {c}

LEMMA StepMoves ==
  ASSUME TypeOK, NEW t \in Turn,
         Receive(t) \/ Discard(t) \/ TurnStep(t) \/ FailTurn(t) \/ KillTurn(t)
  PROVE  Moved(t)
<1> USE DEF session
\* A turn that goes on, and leaves every other turn's candidates alone.
<1>g. ASSUME NEW p \in Phase, GoTo(t, p), Rank(p) < Rank(pc[t]), p = "lock" => pc[t] = "find",
             \A u \in Turn \ {t} : cand'[u] = cand[u]
      PROVE  Moved(t)
  BY <1>g DEF Moved, GoTo, TypeOK
<1>e. ASSUME EndSession(t) PROVE \A u \in Turn \ {t} : cand'[u] = cand[u]
  BY <1>e DEF EndSession, ForgetRows, TypeOK
<1>p. {"dedupe", "load", "adduser", "find", "lock", "store", "machine", "commit", "deliver", "sync",
       "apologise", "respond", "done"} \subseteq Phase
  BY DEF Phase, InTxn, Before, Claimed, After
<1>1. ASSUME Receive(t) \/ Discard(t) PROVE Moved(t)
  <2>1. pc[t] = "idle" /\ cand' = cand /\ (GoTo(t, "dedupe") \/ GoTo(t, "respond"))
    BY <1>1 DEF Receive, Discard, Posted
  <2> QED
    BY <2>1, <1>g, <1>p, Ranks
<1>2. ASSUME ExistsWaMessage(t) PROVE Moved(t)
  <2>1. pc[t] = "dedupe" /\ cand' = cand /\ (GoTo(t, "load") \/ GoTo(t, "respond"))
    BY <1>2 DEF ExistsWaMessage
  <2> QED
    BY <2>1, <1>g, <1>p, Ranks
<1>3. ASSUME LoadUser(t) PROVE Moved(t)
  <2>1. pc[t] = "load" /\ cand' = cand
    BY <1>3 DEF LoadUser
  <2>2. GoTo(t, "respond") \/ GoTo(t, "find") \/ GoTo(t, "adduser")
    BY <1>3 DEF LoadUser
  <2> QED
    BY <2>1, <2>2, <1>g, <1>p, Ranks
<1>4. ASSUME Silence(t), pc[t] \in {"adduser", "store"} PROVE Moved(t)
  BY <1>4, <1>e, <1>g, <1>p, Ranks DEF Silence
<1>5. ASSUME AddUser(t) PROVE Moved(t)
  <2>1. CASE known
    BY <1>5, <2>1, <1>4 DEF AddUser
  <2>2. CASE ~known
    <3>1. pc[t] = "adduser" /\ GoTo(t, "find") /\ cand' = cand
      BY <1>5, <2>2 DEF AddUser
    <3> QED
      BY <3>1, <1>g, <1>p, Ranks
  <2> QED
    BY <2>1, <2>2
<1>6. ASSUME FindActive(t) PROVE Moved(t)
  <2>1. pc[t] = "find" /\ GoTo(t, "lock") /\ cand' = [cand EXCEPT ![t] = OpenConvs]
    BY <1>6 DEF FindActive
  <2>2. \A u \in Turn \ {t} : cand'[u] = cand[u]
    BY <2>1 DEF TypeOK
  <2> QED
    BY <2>1, <2>2, <1>g, <1>p, Ranks
<1>7. ASSUME LockActive(t) PROVE Moved(t)
  <2>1. PICK c \in cand[t] :
          \/ GoTo(t, "store") /\ cand' = cand
          \/ cand' = [cand EXCEPT ![t] = @ \ {c}] /\ pc' = pc
    BY <1>7 DEF LockActive
  <2>2. pc[t] = "lock"
    BY <1>7 DEF LockActive
  <2>3. CASE GoTo(t, "store") /\ cand' = cand
    BY <2>2, <2>3, <1>g, <1>p, Ranks
  <2>4. CASE cand' = [cand EXCEPT ![t] = @ \ {c}] /\ pc' = pc
    BY <2>2, <2>4 DEF Moved, TypeOK
  <2> QED
    BY <2>1, <2>3, <2>4
<1>8. ASSUME CreateConversation(t) PROVE Moved(t)
  <2>1. pc[t] = "lock" /\ GoTo(t, "store") /\ cand' = cand
    BY <1>8 DEF CreateConversation
  <2> QED
    BY <2>1, <1>g, <1>p, Ranks
<1>9. ASSUME StoreMessage(t) PROVE Moved(t)
  <2>1. CASE rows[Msg(t)] > 0
    BY <1>9, <2>1, <1>4 DEF StoreMessage
  <2>2. CASE ~(rows[Msg(t)] > 0)
    <3>1. pc[t] = "store" /\ cand' = cand /\ (GoTo(t, "commit") \/ GoTo(t, "machine"))
      BY <1>9, <2>2 DEF StoreMessage
    <3> QED
      BY <3>1, <1>g, <1>p, Ranks
  <2> QED
    BY <2>1, <2>2
<1>10. ASSUME HandleTurn(t) PROVE Moved(t)
  <2>1. pc[t] = "machine" /\ GoTo(t, "commit") /\ cand' = cand
    BY <1>10 DEF HandleTurn
  <2> QED
    BY <2>1, <1>g, <1>p, Ranks
<1>11. ASSUME Commit(t) PROVE Moved(t)
  <2>1. pc[t] = "commit" /\ cand' = [cand EXCEPT ![t] = {}] /\ (GoTo(t, "respond") \/ GoTo(t, "deliver"))
    BY <1>11 DEF Commit, ForgetRows
  <2>2. \A u \in Turn \ {t} : cand'[u] = cand[u]
    BY <2>1 DEF TypeOK
  <2> QED
    BY <2>1, <2>2, <1>g, <1>p, Ranks
<1>12. ASSUME Deliver(t) PROVE Moved(t)
  <2>1. pc[t] = "deliver" /\ EndSession(t) /\ (GoTo(t, "sync") \/ GoTo(t, "respond"))
    BY <1>12 DEF Deliver
  <2> QED
    BY <2>1, <1>e, <1>g, <1>p, Ranks
<1>13. ASSUME SyncLead(t) \/ SendError(t) PROVE Moved(t)
  <2>1. pc[t] \in {"sync", "apologise"} /\ cand' = cand /\ (GoTo(t, "respond") \/ GoTo(t, "done"))
    BY <1>13 DEF SyncLead, SendError
  <2> QED
    BY <2>1, <1>g, <1>p, Ranks
<1>14. ASSUME Respond(t) PROVE Moved(t)
  <2>1. pc[t] = "respond" /\ GoTo(t, "done") /\ cand' = cand
    BY <1>14 DEF Respond
  <2> QED
    BY <2>1, <1>g, <1>p, Ranks
<1>15. ASSUME FailTurn(t) PROVE Moved(t)
  <2>1. pc[t] \in InTxn /\ GoTo(t, "apologise") /\ EndSession(t)
    BY <1>15 DEF FailTurn
  <2>2. \A p \in InTxn : 2 < Rank(p)
    BY Ranks DEF InTxn, Before, Claimed
  <2> QED
    BY <2>1, <2>2, <1>e, <1>g, <1>p, Ranks
<1>16. ASSUME KillTurn(t) PROVE Moved(t)
  <2>1. pc[t] \in InTxn \union After /\ GoTo(t, "done") /\ EndSession(t)
    BY <1>16 DEF KillTurn
  <2>2. \A p \in InTxn \union After : 0 < Rank(p)
    BY Ranks DEF InTxn, Before, Claimed, After
  <2> QED
    BY <2>1, <2>2, <1>e, <1>g, <1>p, Ranks
<1> QED
  BY <1>1, <1>2, <1>3, <1>5, <1>6, <1>7, <1>8, <1>9, <1>10, <1>11, <1>12, <1>13, <1>14, <1>15, <1>16
  DEF TurnStep

\* No step but these touches where a turn is.
LEMMA StepOrStill ==
  ASSUME TypeOK, [Next]_vars
  PROVE  UNCHANGED <<pc, cand>> \/ \E t \in Turn : Moved(t)
<1>1. SetHandover \/ SetBlocked \/ UNCHANGED vars => UNCHANGED <<pc, cand>>
  BY DEF SetHandover, SetBlocked, vars, session
<1> QED
  BY <1>1, StepMoves DEF Next

\* Candidates are finitely many, so they can be counted.
LEMMA CandCount ==
  ASSUME NEW S \in SUBSET ConvId
  PROVE  IsFiniteSet(S) /\ Cardinality(S) \in 0 .. MaxConv
<1>1. IsFiniteSet(1 .. MaxConv) /\ Cardinality(1 .. MaxConv) = MaxConv
  BY FS_Interval, BoundsAssumption
<1>2. IsFiniteSet(S) /\ Cardinality(S) <= MaxConv
  BY <1>1, FS_Subset DEF ConvId
<1> QED
  BY <1>2, FS_CardinalityType, BoundsAssumption

LEMMA LeftType ==
  ASSUME NEW p \in Phase, NEW S \in SUBSET ConvId
  PROVE  Left(p, S) \in 0 .. (MaxConv + 12)
<1>1. Cardinality(S) \in 0 .. MaxConv
  BY CandCount
<1>2. CASE p = "lock"
  BY <1>1, <1>2, Ranks DEF Left
<1>3. CASE p # "lock"
  BY <1>1, <1>3, RankType, Ranks DEF Left
<1> QED
  BY <1>2, <1>3

\* A step lowers the count of the turn it moves.
LEMMA MovedIsDown ==
  ASSUME TypeOK, TypeOK', NEW t \in Turn, Moved(t)
  PROVE  StepsLeft(t)' < StepsLeft(t)
<1>t. /\ Rank(pc[t]) \in Nat /\ Rank(pc'[t]) \in Nat /\ MaxConv \in Nat
      /\ IsFiniteSet(cand[t])
      /\ Cardinality(cand[t]) \in 0 .. MaxConv /\ Cardinality(cand'[t]) \in 0 .. MaxConv
  <2>1. \A p \in Phase : Rank(p) \in Nat
    BY RankType, Ranks
  <2>2. pc[t] \in Phase /\ pc'[t] \in Phase
        /\ cand[t] \in SUBSET ConvId /\ cand'[t] \in SUBSET ConvId
    BY DEF TypeOK
  <2> QED
    BY <2>1, <2>2, CandCount, Ranks
<1>s. /\ StepsLeft(t)' = Left(pc'[t], cand'[t])
      /\ StepsLeft(t) = Left(pc[t], cand[t])
  BY DEF StepsLeft
<1>1. CASE Rank(pc'[t]) < Rank(pc[t]) /\ pc'[t] # "lock"
  BY <1>t, <1>s, <1>1 DEF Left
<1>2. CASE pc'[t] = "lock" /\ pc[t] = "find"
  BY <1>t, <1>s, <1>2, Ranks DEF Left
<1>3. ASSUME pc[t] = "lock", pc'[t] = "lock", NEW c \in cand[t], cand'[t] = cand[t] \ {c}
      PROVE  StepsLeft(t)' < StepsLeft(t)
  <2>1. Cardinality(cand'[t]) = Cardinality(cand[t]) - 1
    BY <1>t, <1>3, FS_RemoveElement
  <2> QED
    BY <1>t, <1>s, <1>3, <2>1, Ranks DEF Left
<1> QED
  BY <1>1, <1>2, <1>3 DEF Moved

\* A delivery has at most MaxConv + 12 steps to take: each step of it takes
\* one off, and nothing that happens elsewhere adds one.
TurnsRunDown ==
    [][\A t \in Turn : /\ StepsLeft(t)' <= StepsLeft(t)
                       /\ TurnStep(t) => StepsLeft(t)' < StepsLeft(t)]_vars

LEMMA StepIsDown ==
  ASSUME TypeOK, [Next]_vars, NEW t \in Turn
  PROVE  StepsLeft(t)' <= StepsLeft(t) /\ (TurnStep(t) => StepsLeft(t)' < StepsLeft(t))
<1>0. TypeOK'
  BY NextType
<1>1. TurnStep(t) => StepsLeft(t)' < StepsLeft(t)
  BY <1>0, StepMoves, MovedIsDown
<1>2. StepsLeft(t) \in Nat /\ StepsLeft(t)' \in Nat
  <2>1. StepsLeft(t) \in 0 .. (MaxConv + 12)
    BY LeftType DEF StepsLeft, TypeOK
  <2>2. StepsLeft(t)' \in 0 .. (MaxConv + 12)
    BY <1>0, LeftType DEF StepsLeft, TypeOK
  <2> QED
    BY <2>1, <2>2, Ranks
<1>3. ASSUME pc'[t] = pc[t], cand'[t] = cand[t] PROVE StepsLeft(t)' = StepsLeft(t)
  BY <1>3 DEF StepsLeft
<1>4. ASSUME NEW u \in Turn, Moved(u) PROVE StepsLeft(t)' <= StepsLeft(t)
  <2>1. CASE u = t
    BY <1>0, <1>2, <1>4, <2>1, MovedIsDown
  <2>2. CASE u # t
    BY <1>2, <1>3, <1>4, <2>2 DEF Moved
  <2> QED
    BY <2>1, <2>2
<1>5. CASE UNCHANGED <<pc, cand>>
  BY <1>1, <1>2, <1>3, <1>5
<1> QED
  BY <1>1, <1>4, <1>5, StepOrStill

\* No delivery goes round in circles: each of its steps takes it closer to its
\* end, a turn passed over by a closed conversation included, and no other turn,
\* fault or click takes it back.
THEOREM EveryTurnRunsDown == Spec => [](\A t \in Turn : StepsLeft(t) \in 0 .. (MaxConv + 12)) /\ TurnsRunDown
<1>1. TypeOK => \A t \in Turn : StepsLeft(t) \in 0 .. (MaxConv + 12)
  BY LeftType DEF StepsLeft, TypeOK
<1>2. TypeOK /\ [Next]_vars
        => [\A t \in Turn : /\ StepsLeft(t)' <= StepsLeft(t)
                            /\ TurnStep(t) => StepsLeft(t)' < StepsLeft(t)]_vars
  BY StepIsDown
<1> QED
  BY <1>1, <1>2, TypeCorrect, PTL DEF Spec, TurnsRunDown

(***************************************************************************)
(* Ids last.  A delivery takes at most one conversation id, on its way     *)
(* past the lock; so with more ids than deliveries, and one that was there *)
(* at the start, nobody finds the sequence at its bound.                   *)
(***************************************************************************)
Beyond == Locked \union After \union {"done"}

Past == {t \in Turn : pc[t] \in Beyond}

IdsInv == IsFiniteSet(Turn) => nextConv <= 2 + Cardinality(Past)

LEMMA InitIds == Init => IdsInv
<1> SUFFICES ASSUME Init, IsFiniteSet(Turn) PROVE nextConv <= 2 + Cardinality(Past)
  BY DEF IdsInv
<1>1. IsFiniteSet(Past)
  BY FS_Subset DEF Past
<1>2. Cardinality(Past) \in Nat
  BY <1>1, FS_CardinalityType
<1>3. nextConv \in {1, 2}
  BY DEF Init
<1> QED
  BY <1>2, <1>3

\* Nobody comes back from beyond the lock.
LEMMA BeyondRanks == \A p \in Phase : p \in Beyond <=> Rank(p) < 7
<1>1. \A p \in Phase : p \in Beyond \/ p \in {"lock", "find", "adduser", "load", "dedupe", "idle"}
  BY DEF Phase, InTxn, Before, Claimed, After, Beyond, Locked
<1>2. \A p \in Beyond : Rank(p) < 7
  BY Ranks DEF Beyond, Locked, Claimed, After
<1>3. \A p \in {"lock", "find", "adduser", "load", "dedupe", "idle"} : ~(Rank(p) < 7)
  BY Ranks
<1> QED
  BY <1>1, <1>2, <1>3

LEMMA PastGrows == ASSUME TypeOK, [Next]_vars PROVE Past \subseteq Past'
<1>1. ASSUME NEW t \in Turn, Moved(t), NEW u \in Past PROVE u \in Past'
  <2>1. CASE u # t
    BY <1>1, <2>1 DEF Moved, Past
  <2>2. CASE u = t
    <3>1. pc[t] \in Phase /\ Rank(pc[t]) < 7 /\ pc[t] # "lock"
      BY <1>1, <2>2, BeyondRanks, Ranks DEF Past, TypeOK
    <3>2. pc'[t] \in Phase /\ Rank(pc'[t]) < Rank(pc[t])
      BY <1>1, <3>1 DEF Moved
    <3>3. Rank(pc[t]) \in Nat /\ Rank(pc'[t]) \in Nat
      BY <3>1, <3>2, RankType, Ranks
    <3>4. pc'[t] \in Beyond
      BY <3>1, <3>2, <3>3, BeyondRanks
    <3> QED
      BY <1>1, <2>2, <3>4 DEF Past
  <2> QED
    BY <2>1, <2>2
<1>2. UNCHANGED pc => Past' = Past
  BY DEF Past
<1> QED
  BY <1>1, <1>2, StepOrStill

LEMMA NextIds == ASSUME TypeOK, IdsInv, [Next]_vars PROVE IdsInv'
<1> SUFFICES ASSUME IsFiniteSet(Turn) PROVE nextConv' <= 2 + Cardinality(Past')
  BY DEF IdsInv
<1> USE DEF dbVars
<1>1. /\ IsFiniteSet(Past) /\ IsFiniteSet(Past')
      /\ Cardinality(Past) \in Nat /\ Cardinality(Past') \in Nat
  <2>1. IsFiniteSet(Past) /\ IsFiniteSet(Past')
    BY FS_Subset DEF Past
  <2> QED
    BY <2>1, FS_CardinalityType
<1>2. Cardinality(Past) <= Cardinality(Past')
  BY <1>1, PastGrows, FS_Subset
<1>3. nextConv \in Nat /\ nextConv <= 2 + Cardinality(Past)
  BY BoundsAssumption DEF IdsInv, TypeOK
<1>4. CASE nextConv' = nextConv
  BY <1>1, <1>2, <1>3, <1>4
<1>5. ASSUME NEW t \in Turn, CreateConversation(t) PROVE nextConv' <= 2 + Cardinality(Past')
  <2>1. pc[t] = "lock" /\ GoTo(t, "store") /\ nextConv' = nextConv + 1
    BY <1>5 DEF CreateConversation
  <2>2. t \notin Past
    BY <2>1 DEF Past, Beyond, Locked, Claimed, After
  <2>3. t \in Past'
    BY <2>1 DEF Past, Beyond, Locked, GoTo, TypeOK
  <2>4. Past \union {t} \subseteq Past'
    BY <2>3, PastGrows
  <2>5. Cardinality(Past \union {t}) = Cardinality(Past) + 1
    BY <1>1, <2>2, FS_AddElement
  <2>6. Cardinality(Past \union {t}) <= Cardinality(Past')
    BY <1>1, <2>4, FS_Subset
  <2> QED
    BY <1>1, <1>3, <2>1, <2>5, <2>6
<1>6. ASSUME NEW t \in Turn,
             Receive(t) \/ Discard(t) \/ ExistsWaMessage(t) \/ LoadUser(t) \/ AddUser(t)
             \/ FindActive(t) \/ LockActive(t) \/ StoreMessage(t)
      PROVE  nextConv' = nextConv
  BY <1>6 DEF Receive, Discard, ExistsWaMessage, LoadUser, AddUser, Silence, FindActive, LockActive,
              StoreMessage
<1>7. ASSUME NEW t \in Turn,
             HandleTurn(t) \/ Commit(t) \/ Deliver(t) \/ SyncLead(t) \/ SendError(t) \/ Respond(t)
             \/ FailTurn(t) \/ KillTurn(t)
      PROVE  nextConv' = nextConv
  BY <1>7 DEF HandleTurn, Commit, Deliver, SyncLead, SendError, Respond, FailTurn, KillTurn
<1>8. SetHandover \/ SetBlocked \/ UNCHANGED vars => nextConv' = nextConv
  BY DEF SetHandover, SetBlocked, vars
<1> QED
  BY <1>4, <1>5, <1>6, <1>7, <1>8 DEF Next, TurnStep

\* With ids enough, a turn that creates a conversation gets its id.
LEMMA IdsLast ==
  ASSUME IsFiniteSet(Turn), Cardinality(Turn) < MaxConv, TypeOK, IdsInv,
         NEW t \in Turn, pc[t] = "lock"
  PROVE  nextConv <= MaxConv
<1>1. t \notin Past
  BY DEF Past, Beyond, Locked, Claimed, After
<1>2. IsFiniteSet(Past) /\ Cardinality(Past \union {t}) = Cardinality(Past) + 1
  BY <1>1, FS_Subset, FS_AddElement DEF Past
<1>3. Past \union {t} \subseteq Turn
  BY DEF Past
<1>4. Cardinality(Past \union {t}) <= Cardinality(Turn)
  BY <1>3, FS_Subset
<1>5. Cardinality(Past) \in Nat /\ Cardinality(Turn) \in Nat /\ nextConv \in Nat /\ MaxConv \in Nat
  BY <1>2, FS_CardinalityType, BoundsAssumption DEF TypeOK
<1> QED
  BY <1>2, <1>4, <1>5 DEF IdsInv

(***************************************************************************)
(* Lost deliveries.  A delivery that ended with its message not accounted  *)
(* for was killed, and each kill is a fault; so they are no more than      *)
(* there have been faults.                                                 *)
(***************************************************************************)
Lost == {t \in Turn : pc[t] = "done" /\ ~Accounted(Msg(t))}

LostInv == faults <= MaxFaults /\ IsFiniteSet(Lost) /\ Cardinality(Lost) <= faults

LEMMA InitLost == Init => LostInv
<1> SUFFICES ASSUME Init PROVE LostInv
  OBVIOUS
<1>1. Lost = {}
  BY DEF Init, Lost
<1> QED
  BY <1>1, FS_EmptySet, BoundsAssumption DEF Init, LostInv

\* A delivery is lost only by ending with its message not accounted for.
LEMMA LostFrame ==
  ASSUME TypeOK, [Next]_vars, LostInv, faults' \in Nat, faults <= faults', faults' <= MaxFaults,
         \A u \in Turn : pc'[u] = "done" /\ pc[u] # "done" => Accounted(Msg(u))'
  PROVE  LostInv'
<1>1. Lost' \subseteq Lost
  BY AccountedStays, MsgType DEF Lost
<1>2. IsFiniteSet(Lost') /\ Cardinality(Lost') <= Cardinality(Lost)
  BY <1>1, FS_Subset DEF LostInv
<1>3. Cardinality(Lost) \in Nat /\ Cardinality(Lost') \in Nat /\ faults \in Nat
  BY <1>2, FS_CardinalityType DEF LostInv, TypeOK
<1> QED
  BY <1>2, <1>3 DEF LostInv

Counted == faults' = faults \/ (faults < MaxFaults /\ faults' = faults + 1)

LEMMA NextLost == ASSUME TypeOK, AccountInv, LostInv, [Next]_vars PROVE LostInv'
<1> USE DEF dbVars, outVars, logVars, session
<1>f. faults \in Nat /\ faults' \in Nat /\ MaxFaults \in Nat /\ faults <= MaxFaults
  BY NextType, BoundsAssumption DEF TypeOK, LostInv
\* Nobody ends.
<1>m. ASSUME Counted,
             \A u \in Turn : pc'[u] = "done" => pc[u] = "done"
      PROVE  LostInv'
  BY <1>f, <1>m, LostFrame DEF Counted
\* One turn moves on, not to its end.
<1>g. ASSUME NEW t \in Turn, NEW p \in Phase \ {"done"}, GoTo(t, p) \/ UNCHANGED pc,
             Counted
      PROVE  LostInv'
  <2>1. \A u \in Turn : pc'[u] = "done" => pc[u] = "done"
    BY <1>g DEF GoTo, TypeOK
  <2> QED
    BY <1>g, <1>m, <2>1
\* One turn ends, its message accounted for.
<1>d. ASSUME NEW t \in Turn, pc[t] \in Answered, GoTo(t, "done"),
             Counted
      PROVE  LostInv'
  <2>1. Accounted(Msg(t))'
    BY <1>d, AccountedStays, MsgType DEF AccountInv
  <2>2. \A u \in Turn : pc'[u] = "done" /\ pc[u] # "done" => u = t
    BY <1>d DEF GoTo, TypeOK
  <2> QED
    BY <1>d, <1>f, <2>1, <2>2, LostFrame DEF Counted
<1>p. {"dedupe", "load", "adduser", "find", "lock", "store", "machine", "commit", "deliver", "sync",
       "apologise", "respond"} \subseteq Phase \ {"done"}
  BY DEF Phase, InTxn, Before, Claimed, After
<1>1. ASSUME NEW t \in Turn, Receive(t) \/ Discard(t) \/ ExistsWaMessage(t) \/ LoadUser(t) PROVE LostInv'
  <2>1. \E p \in {"dedupe", "respond", "load", "find", "adduser"} : GoTo(t, p)
    BY <1>1 DEF Receive, Discard, ExistsWaMessage, LoadUser
  <2>2. Counted
    BY <1>1 DEF Counted, Receive, Discard, ExistsWaMessage, LoadUser
  <2> QED
    BY <2>1, <2>2, <1>g, <1>p
<1>2. ASSUME NEW t \in Turn,
             AddUser(t) \/ FindActive(t) \/ LockActive(t) \/ CreateConversation(t) \/ StoreMessage(t)
      PROVE  LostInv'
  <2>1. (\E p \in {"respond", "find", "lock", "store", "commit", "machine"} : GoTo(t, p)) \/ UNCHANGED pc
    BY <1>2 DEF AddUser, Silence, FindActive, LockActive, CreateConversation, StoreMessage
  <2>2. Counted
    BY <1>2 DEF Counted, AddUser, Silence, FindActive, LockActive, CreateConversation, StoreMessage
  <2>3. CASE UNCHANGED pc
    BY <2>2, <2>3, <1>m
  <2> QED
    BY <2>1, <2>2, <2>3, <1>g, <1>p
<1>3. ASSUME NEW t \in Turn, HandleTurn(t) \/ Commit(t) \/ Deliver(t) \/ SendError(t) PROVE LostInv'
  <2>1. \E p \in {"commit", "respond", "deliver", "sync"} : GoTo(t, p)
    BY <1>3 DEF HandleTurn, Commit, Deliver, SendError
  <2>2. Counted
    BY <1>3 DEF Counted, HandleTurn, Commit, Deliver, SendError
  <2> QED
    BY <2>1, <2>2, <1>g, <1>p
<1>4. ASSUME NEW t \in Turn, SyncLead(t) PROVE LostInv'
  <2>1. pc[t] = "sync" /\ Counted
        /\ (GoTo(t, "respond") \/ GoTo(t, "done"))
    BY <1>4 DEF SyncLead, Counted
  <2>2. pc[t] \in Answered
    BY <2>1 DEF Answered
  <2> QED
    BY <2>1, <2>2, <1>d, <1>g, <1>p
<1>5. ASSUME NEW t \in Turn, Respond(t) PROVE LostInv'
  BY <1>5, <1>d DEF Respond, Answered, Counted
<1>6. ASSUME NEW t \in Turn, FailTurn(t) PROVE LostInv'
  BY <1>6, <1>g, <1>p DEF FailTurn, Counted
<1>7. ASSUME NEW t \in Turn, KillTurn(t) PROVE LostInv'
  <2>1. faults < MaxFaults /\ faults' = faults + 1 /\ GoTo(t, "done")
    BY <1>7 DEF KillTurn
  <2>2. Lost' \subseteq Lost \union {t}
    BY <2>1, AccountedStays, MsgType DEF Lost, GoTo, TypeOK
  <2>3. /\ IsFiniteSet(Lost \union {t})
        /\ Cardinality(Lost \union {t}) \in {Cardinality(Lost), Cardinality(Lost) + 1}
    BY FS_AddElement DEF LostInv
  <2>4. IsFiniteSet(Lost') /\ Cardinality(Lost') <= Cardinality(Lost \union {t})
    BY <2>2, <2>3, FS_Subset
  <2>5. Cardinality(Lost) \in Nat /\ Cardinality(Lost') \in Nat
    BY <2>4, FS_CardinalityType DEF LostInv
  <2> QED
    BY <1>f, <2>1, <2>3, <2>4, <2>5 DEF LostInv
<1>8. CASE SetHandover \/ SetBlocked \/ UNCHANGED vars
  <2>1. UNCHANGED <<pc, faults>>
    BY <1>8 DEF SetHandover, SetBlocked, vars
  <2> QED
    BY <2>1, <1>m DEF Counted
<1> QED
  BY <1>1, <1>2, <1>3, <1>4, <1>5, <1>6, <1>7, <1>8 DEF Next, TurnStep

(***************************************************************************)
(* The way on.                                                             *)
(***************************************************************************)
Deliveries(m) == {t \in Turn : Msg(t) = m}

\* Meta posts the deliveries of a message in the order of their attempts.
LEMMA FirstPosted ==
  ASSUME NEW m \in Messages, m \notin acked, NEW t \in Deliveries(m), pc[t] = "idle"
  PROVE  \E u \in Turn : Posted(u)
<1> DEFINE Waiting == {u \in Deliveries(m) : pc[u] = "idle"}
           Attempts == {Attempt(u) : u \in Waiting}
<1>1. \A u \in Turn : Attempt(u) \in Nat
  BY BoundsAssumption DEF Attempt
<1>2. Attempts \subseteq Nat /\ Attempts # {}
  BY <1>1 DEF Deliveries
<1>3. \E a \in Attempts : \A b \in Attempts : ~(<<b, a>> \in OpToRel(<, Nat))
  <2> HIDE DEF Attempts
  <2> QED
    BY <1>2, NatLessThanWellFounded, WFMin
<1>4. PICK a \in Attempts : \A b \in Attempts : ~(b < a)
  BY <1>2, <1>3 DEF OpToRel
<1>5. PICK u \in Waiting : Attempt(u) = a
  OBVIOUS
<1>6. u \in Turn /\ Msg(u) = m /\ pc[u] = "idle"
  BY DEF Deliveries
<1>7. ASSUME NEW w \in Turn, Msg(w) = Msg(u), Attempt(w) < Attempt(u) PROVE pc[w] # "idle"
  BY <1>4, <1>5, <1>6, <1>7 DEF Deliveries
<1> QED
  BY <1>6, <1>7 DEF Posted

\* With inline processing: as long as a message that Meta delivers more often
\* than turns die is not accounted for, there is a delivery Meta will still post
\* or a turn under way that nobody keeps from its next statement.
NeverStuck ==
    \A m \in Messages :
        Cardinality(Deliveries(m)) > MaxFaults /\ ~Accounted(m)
        => \E t \in Turn : Posted(t) \/ CanGoOn(t)

LEMMA AlwaysAWayOn ==
  ASSUME Inline, IsFiniteSet(Turn), Cardinality(Turn) < MaxConv,
         TypeOK, AccountInv, IdsInv, LostInv
  PROVE  NeverStuck
<1> SUFFICES ASSUME NEW m \in Messages, Cardinality(Deliveries(m)) > MaxFaults, ~Accounted(m)
             PROVE  \E t \in Turn : Posted(t) \/ CanGoOn(t)
  BY DEF NeverStuck
<1>1. m \notin acked
  BY DEF AccountInv
<1>2. ~(Deliveries(m) \subseteq Lost)
  <2>1. SUFFICES ASSUME Deliveries(m) \subseteq Lost PROVE FALSE
    OBVIOUS
  <2>2. IsFiniteSet(Deliveries(m)) /\ Cardinality(Deliveries(m)) <= Cardinality(Lost)
    BY <2>1, FS_Subset DEF LostInv
  <2>3. Cardinality(Deliveries(m)) \in Nat /\ Cardinality(Lost) \in Nat
        /\ faults \in Nat /\ MaxFaults \in Nat
    BY <2>2, FS_CardinalityType, BoundsAssumption DEF LostInv, TypeOK
  <2> QED
    BY <2>2, <2>3 DEF LostInv
<1>3. PICK t \in Deliveries(m) : pc[t] # "done"
  BY <1>2 DEF Lost, Deliveries
<1>4. CASE pc[t] = "idle"
  BY <1>1, <1>4, FirstPosted
<1>5. CASE UnderWay(t)
  <2>1. t \in Turn
    BY DEF Deliveries
  <2>2. PICK u \in Turn : UnderWay(u) /\ \A w \in Turn : ~Awaits(u, w)
    BY <1>5, <2>1, NoCircle
  <2>3. CanGoOn(u)
    BY <2>2, IdsLast DEF CanGoOn
  <2> QED
    BY <2>3
<1> QED
  BY <1>3, <1>4, <1>5 DEF UnderWay

\* Nothing ever stands still with a message unaccounted for: whatever locks the
\* turns hold on the user row, the conversation and the transcript, whoever died
\* on the way, somebody can go on.
THEOREM TurnsNeverStuck ==
  ASSUME Inline, IsFiniteSet(Turn), Cardinality(Turn) < MaxConv
  PROVE  Spec => []NeverStuck
<1>1. Spec => [](TypeOK /\ AccountInv)
  BY InitAccount, NextAccount, TypeCorrect, PTL DEF Spec
<1>2. Spec => [](IdsInv /\ LostInv)
  BY <1>1, InitIds, NextIds, InitLost, NextLost, PTL DEF Spec
<1>3. TypeOK /\ AccountInv /\ IdsInv /\ LostInv => NeverStuck
  BY AlwaysAWayOn
<1> QED
  BY <1>1, <1>2, <1>3, PTL

\* When nothing is left to do for a message - every delivery of it has ended,
\* or Meta has a 200 and will not post the rest - it is settled.
SettledWhenQuiet ==
    \A m \in Messages :
        /\ Cardinality(Deliveries(m)) > MaxFaults
        /\ \A t \in Deliveries(m) : pc[t] = "done" \/ (pc[t] = "idle" /\ m \in acked)
        => rows[m] = 1 \/ m \in refused \union failed

\* For a contact the database knows, a message comes to rest only recorded,
\* refused, or with its failure admitted: the end that EveryMessageSettles says
\* is always reached is the only one there is.
THEOREM RestIsSettled ==
  ASSUME Inline, KnownContact
  PROVE  Spec => []SettledWhenQuiet
<1>1. Spec => [](TypeOK /\ LedgerInv /\ AccountInv)
  BY InitLedger, NextLedger, InitAccount, NextAccount, TypeCorrect, PTL DEF Spec
<1>2. Spec => []LostInv
  BY <1>1, InitLost, NextLost, PTL DEF Spec
<1>3. Spec => []SilencedIsRecorded
  BY SilencedOnlyRedeliveries
<1>4. ASSUME TypeOK, LedgerInv, AccountInv, LostInv, SilencedIsRecorded PROVE SettledWhenQuiet
  <2> SUFFICES ASSUME NEW m \in Messages, Cardinality(Deliveries(m)) > MaxFaults,
                      \A t \in Deliveries(m) : pc[t] = "done" \/ (pc[t] = "idle" /\ m \in acked)
               PROVE  rows[m] = 1 \/ m \in refused \union failed
    BY DEF SettledWhenQuiet
  <2>1. Accounted(m)
    <3>1. CASE m \in acked
      BY <1>4, <3>1 DEF AccountInv
    <3>2. CASE m \notin acked
      <4>1. SUFFICES ASSUME ~Accounted(m) PROVE FALSE
        OBVIOUS
      <4>2. Deliveries(m) \subseteq Lost
        BY <3>2, <4>1 DEF Deliveries, Lost
      <4>3. IsFiniteSet(Deliveries(m)) /\ Cardinality(Deliveries(m)) <= Cardinality(Lost)
        BY <1>4, <4>2, FS_Subset DEF LostInv
      <4>4. Cardinality(Deliveries(m)) \in Nat /\ Cardinality(Lost) \in Nat
            /\ faults \in Nat /\ MaxFaults \in Nat
        BY <1>4, <4>3, FS_CardinalityType, BoundsAssumption DEF LostInv, TypeOK
      <4> QED
        BY <1>4, <4>3, <4>4 DEF LostInv
    <3> QED
      BY <3>1, <3>2
  <2>2. rows[m] > 0 => rows[m] = 1
    BY <1>4 DEF LedgerInv, AtMostOnce, TypeOK
  <2> QED
    BY <1>4, <2>1, <2>2 DEF Accounted, Settled, SilencedIsRecorded
<1> QED
  BY <1>1, <1>2, <1>3, <1>4, PTL
=============================================================================
