----------------------- MODULE InactivitySweepProofs -----------------------
(***************************************************************************)
(* Theorems about InactivitySweep, for any sweeps and turns at once, every  *)
(* choice of the three delays, and every number of turns, console changes,  *)
(* agent messages, calls that fail and sweeps that die.                     *)
(***************************************************************************)
EXTENDS InactivitySweep, TLAPS

(***************************************************************************)
(* The inductive invariants.                                               *)
(***************************************************************************)
Busy(s) == spc[s] # "idle"

\* A sweep looked before now, and saw that a check-in was left.
LookedInv ==
    \A s \in Sweeps :
        /\ selected[s][1] <= events
        /\ Busy(s) => seen[s][1] < MAX_STAGE

\* What a sweep made sure of holds until somebody else commits.
JustifiedInv ==
    \A s \in Sweeps :
        spc[s] \in {"check", "send"} /\ selected[s][1] = events =>
            /\ standing = "going" /\ ~paused /\ ~blocked
            /\ spc[s] = "send" => lastBy = "bot" /\ ~goodbye
            /\ selected[s][2] - active \in First .. MaxAge

Alone == \A r, s \in Sweeps : Busy(r) /\ Busy(s) => r = s

\* The stage counts the check-ins of this silence the sweeper noticed, and its time
\* is the last one's; while one has been sent and not recorded, what the sweep is
\* going to write does.
CountInv ==
    /\ \A s \in Sweeps :
        /\ spc[s] \in {"check", "send"} =>
             /\ silence <= seen[s][1] + repeats
             /\ silence > repeats => seen[s][2] = lastNudge
             /\ seen[s][1] = 1 => now - seen[s][2] >= Gap
        /\ spc[s] = "commit" =>
             /\ silence <= seen[s][1] + 1 + repeats
             /\ silence > repeats => sentAt[s] = lastNudge
    /\ (\A s \in Sweeps : spc[s] # "commit") =>
        /\ silence <= stage + repeats
        /\ silence > repeats => at = lastNudge

SpacedInv == ~raced /\ faults = 0 => Alone /\ CountInv

\* One turn at most is under way and has loaded all there is, and so had a sweep as
\* long as nobody else has committed; what it saw is still there, also for an open
\* turn.
KeptInv ==
    /\ \A x, y \in turn : x = y
    /\ \A x \in turn : data \subseteq x.loaded[3]
    /\ \A s \in Sweeps : Busy(s) =>
        /\ seen[s][3] \subseteq data
        /\ \A x \in turn : seen[s][3] \subseteq x.loaded[3]
        /\ selected[s][1] = events => seen[s][3] = data

DetailsInv == ~raced => Alone /\ (~overlapped => KeptInv)

(***************************************************************************)
(* Type correctness.                                                       *)
(***************************************************************************)
\* The parts of a context.
LEMMA ContextParts ==
  /\ \A c \in Context : c[1] \in 0 .. MAX_STAGE /\ c[2] \in Never .. MaxNow /\ c[3] \subseteq 1 .. MaxEvents
  /\ \A a, b, c : <<a, b, c>> \in Context
       <=> a \in 0 .. MAX_STAGE /\ b \in Never .. MaxNow /\ c \subseteq 1 .. MaxEvents
  BY DEF Context

\* The initial states are well typed, and no sweep has looked yet.
LEMMA InitType == Init => TypeOK /\ LookedInv
<1> SUFFICES ASSUME Init PROVE TypeOK /\ LookedInv
  OBVIOUS
<1> USE SweepAssumption DEF Init
<1>1. <<0, Never, {}>> \in Context /\ context \in Context
  BY DEF Context, context, MAX_STAGE, Never
<1>2. now \in 1 .. MaxNow /\ active \in 1 .. MaxNow
  OBVIOUS
<1>3. seen \in [Sweeps -> Context] /\ sentAt \in [Sweeps -> Never .. MaxNow]
  BY <1>1 DEF Never
<1>4. selected \in [Sweeps -> (0 .. MaxEvents) \X (Never .. MaxNow)]
  BY DEF Never
<1>5. LookedInv
  <2>1. ASSUME NEW s \in Sweeps PROVE selected[s][1] <= events /\ ~Busy(s)
    <3>1. selected[s] = <<0, Never>> /\ events = 0 /\ spc[s] = "idle"
      OBVIOUS
    <3> QED
      BY <3>1 DEF Busy
  <2> HIDE DEF Init
  <2> QED
    BY <2>1 DEF LookedInv
<1>6. spc \in [Sweeps -> {"idle", "check", "send", "commit"}] /\ turn \subseteq [id : Turns, withAgent : BOOLEAN, loaded : Context]
  OBVIOUS
<1>7. {silence, repeats, lastNudge, faults} \subseteq Nat /\ events \in 0 .. MaxEvents
  BY DEF Never
<1>8. standing \in {"going", "finished", "closed"} /\ overlapped \in BOOLEAN /\ goodbye \in BOOLEAN /\ paused \in BOOLEAN /\ blocked \in BOOLEAN /\ raced \in BOOLEAN
      /\ lastBy \in {"user", "bot", "agent"}
  OBVIOUS
<1> QED
  BY <1>1, <1>2, <1>3, <1>4, <1>5, <1>6, <1>7, <1>8 DEF TypeOK

\* What a sweep forgets leaves it well typed.
LEMMA LeaveType ==
  ASSUME TypeOK, LookedInv, NEW s \in Sweeps, Leave(s)
  PROVE  /\ spc' \in [Sweeps -> {"idle", "check", "send", "commit"}]
         /\ seen' \in [Sweeps -> Context]
         /\ sentAt' \in [Sweeps -> Never .. MaxNow]
         /\ selected' \in [Sweeps -> (0 .. MaxEvents) \X (Never .. MaxNow)]
         /\ spc'[s] = "idle" /\ selected'[s][1] = 0
         /\ \A r \in Sweeps \ {s} :
              /\ spc'[r] = spc[r] /\ seen'[r] = seen[r]
              /\ sentAt'[r] = sentAt[r] /\ selected'[r] = selected[r]
<1>1. <<0, Never, {}>> \in Context /\ <<0, Never>> \in (0 .. MaxEvents) \X (Never .. MaxNow)
  BY SweepAssumption DEF Context, MAX_STAGE, Never
<1> QED
  BY <1>1, SweepAssumption DEF Leave, TypeOK, Never

\* What a call adds: noticed is one at most, and the sweeper remembers when.
LEMMA SendCounts ==
  ASSUME TypeOK, LookedInv, NEW s \in Sweeps, Send(s)
  PROVE  \E copies \in Nat :
           /\ silence' = silence + copies
           /\ \/ /\ spc' = [spc EXCEPT ![s] = "commit"] /\ sentAt' = [sentAt EXCEPT ![s] = now]
                 /\ repeats' \in Nat /\ repeats' >= repeats /\ repeats' + 1 >= repeats + copies
                 /\ lastNudge' = now /\ now \in Nat /\ UNCHANGED <<seen, selected>>
              \/ Leave(s) /\ repeats' = repeats + copies /\ UNCHANGED lastNudge
<1>1. PICK copies \in 0 .. Attempts :
        /\ silence' = silence + copies
        /\ \/ /\ spc' = [spc EXCEPT ![s] = "commit"] /\ sentAt' = [sentAt EXCEPT ![s] = now]
              /\ repeats' = repeats + (IF copies = 0 THEN 0 ELSE copies - 1)
              /\ lastNudge' = now /\ UNCHANGED <<seen, selected>>
           \/ Leave(s) /\ repeats' = repeats + copies /\ UNCHANGED lastNudge
  BY DEF Send
<1>2. copies \in Nat /\ repeats \in Nat /\ now \in Nat
  BY SweepAssumption DEF Attempts, TypeOK
<1>3. ASSUME repeats' = repeats + (IF copies = 0 THEN 0 ELSE copies - 1)
      PROVE  repeats' \in Nat /\ repeats' >= repeats /\ repeats' + 1 >= repeats + copies
  BY <1>2, <1>3
<1> QED
  BY <1>1, <1>2, <1>3

\* Every step keeps every variable's type, and no conversation gets past the
\* second stage.
LEMMA NextType == TypeOK /\ LookedInv /\ [Next]_vars => (TypeOK /\ LookedInv)'
<1> SUFFICES ASSUME TypeOK, LookedInv, [Next]_vars PROVE TypeOK' /\ LookedInv'
  OBVIOUS
<1> USE SweepAssumption DEF convVars, flagVars, sweepVars, ghostVars, logVars
<1>1. CASE Tick
  BY <1>1 DEF Tick, TypeOK, LookedInv, Busy, context
<1>2. ASSUME NEW i \in Turns, TurnLoad(i) PROVE TypeOK' /\ LookedInv'
  <2>1. [id |-> i, withAgent |-> paused, loaded |-> context] \in [id : Turns, withAgent : BOOLEAN, loaded : Context]
    BY <1>2 DEF TypeOK
  <2>2. /\ turn' = turn \union {[id |-> i, withAgent |-> paused, loaded |-> context]}
        /\ overlapped' \in BOOLEAN
        /\ UNCHANGED <<now, convVars, flagVars, context, sweepVars, events, ghostVars, faults, raced>>
    BY <1>2 DEF TurnLoad, TypeOK
  <2> QED
    BY <2>1, <2>2 DEF TypeOK, LookedInv, Busy, context
<1>3. ASSUME NEW t \in turn, TurnCommit(t) PROVE TypeOK' /\ LookedInv'
  <2>1. /\ goodbye' \in BOOLEAN /\ lastBy' \in {"user", "bot"} /\ standing' \in {standing, "going", "finished", "closed"}
        /\ \/ UNCHANGED context
           \/ stage' = t.loaded[1] /\ at' = t.loaded[2] /\ data' = t.loaded[3] \union {events'}
    BY <1>3 DEF TurnCommit, context
  <2>2. events < MaxEvents /\ events' = events + 1 /\ events' \in 1 .. MaxEvents
    BY <1>3 DEF TurnCommit, Event, TypeOK
  <2>3. context' \in Context
    <3>1. t.loaded \in Context
      BY DEF TypeOK
    <3>2. CASE UNCHANGED context
      BY <3>2 DEF TypeOK
    <3>3. CASE stage' = t.loaded[1] /\ at' = t.loaded[2] /\ data' = t.loaded[3] \union {events'}
      BY <2>2, <3>1, <3>3, ContextParts DEF context
    <3> QED
      BY <2>1, <3>2, <3>3
  <2>4. turn' = turn \ {t} /\ active' = now /\ silence' = 0 /\ repeats' = 0 /\ UNCHANGED <<now, paused, blocked, spc, seen, sentAt, selected, lastNudge, faults, raced, overlapped>>
    BY <1>3 DEF TurnCommit
  <2>5. LookedInv'
    <3>1. \A s \in Sweeps : selected[s][1] \in Nat /\ events \in Nat
      BY DEF TypeOK
    <3> QED
      BY <2>2, <2>4, <3>1 DEF LookedInv, Busy
  <2>6. standing' \in {"going", "finished", "closed"}
    BY <2>1 DEF TypeOK
  <2> QED
    BY <2>1, <2>2, <2>3, <2>4, <2>5, <2>6 DEF TypeOK
<1>4. CASE SetHandover \/ SetBlocked \/ SendMessage
  <2>1. events < MaxEvents /\ events' = events + 1 /\ events' \in 0 .. MaxEvents
    BY <1>4 DEF SetHandover, SetBlocked, SendMessage, Event, TypeOK
  <2>2. /\ UNCHANGED <<now, standing, goodbye, stage, at, data, turn, spc, seen, sentAt, selected, silence, repeats, lastNudge, faults, raced, overlapped>>
        /\ paused' \in BOOLEAN /\ blocked' \in BOOLEAN /\ active' \in {active, now} /\ lastBy' \in {lastBy, "agent"}
    BY <1>4 DEF SetHandover, SetBlocked, SendMessage, TypeOK, context
  <2>3. LookedInv'
    <3>1. \A s \in Sweeps : selected[s][1] \in Nat /\ events \in Nat
      BY DEF TypeOK
    <3> QED
      BY <2>1, <2>2, <3>1 DEF LookedInv, Busy
  <2> QED
    BY <2>1, <2>2, <2>3 DEF TypeOK, context
<1>5. ASSUME NEW s \in Sweeps, Select(s) PROVE TypeOK' /\ LookedInv'
  <2>1. /\ spc' = [spc EXCEPT ![s] = "check"] /\ seen' = [seen EXCEPT ![s] = context]
        /\ selected' = [selected EXCEPT ![s] = <<events, now>>] /\ stage < MAX_STAGE
        /\ raced' \in BOOLEAN
        /\ UNCHANGED <<now, convVars, flagVars, context, turn, sentAt, events, ghostVars, faults, overlapped>>
    BY <1>5 DEF Select, Due, TypeOK
  <2>2. seen' \in [Sweeps -> Context] /\ spc' \in [Sweeps -> {"idle", "check", "send", "commit"}]
    BY <2>1 DEF TypeOK
  <2>3. selected' \in [Sweeps -> (0 .. MaxEvents) \X (Never .. MaxNow)]
    BY <2>1 DEF TypeOK, Never
  <2>4. seen'[s][1] < MAX_STAGE /\ selected'[s][1] = events
    BY <2>1 DEF TypeOK, context
  <2>5. LookedInv'
    <3>1. \A r \in Sweeps \ {s} : spc'[r] = spc[r] /\ seen'[r] = seen[r] /\ selected'[r] = selected[r]
      BY <2>1 DEF TypeOK
    <3> QED
      BY <2>1, <2>4, <3>1 DEF LookedInv, Busy, TypeOK
  <2> QED
    BY <2>1, <2>2, <2>3, <2>5 DEF TypeOK, context
<1>6. ASSUME NEW s \in Sweeps, Check(s) PROVE TypeOK' /\ LookedInv'
  BY <1>6, LeaveType, SMTT(30) DEF Check, TypeOK, LookedInv, Busy, context
<1>7. ASSUME NEW s \in Sweeps, Send(s) PROVE TypeOK' /\ LookedInv'
  <2>1. UNCHANGED <<now, convVars, flagVars, context, turn, events, logVars>>
    BY <1>7 DEF Send
  <2>2. silence' \in Nat /\ repeats' \in Nat /\ lastNudge' \in Nat
    BY <1>7, SendCounts DEF TypeOK
  <2>3. CASE Leave(s)
    BY <2>1, <2>2, <2>3, LeaveType DEF TypeOK, LookedInv, Busy, context
  <2>4. CASE ~Leave(s)
    <3>1. /\ spc[s] = "send" /\ spc' = [spc EXCEPT ![s] = "commit"] /\ sentAt' = [sentAt EXCEPT ![s] = now]
          /\ UNCHANGED <<seen, selected>>
      BY <1>7, <2>4 DEF Send
    <3>2. sentAt' \in [Sweeps -> Never .. MaxNow] /\ spc' \in [Sweeps -> {"idle", "check", "send", "commit"}]
      BY <3>1 DEF TypeOK, Never
    <3>3. LookedInv'
      BY <2>1, <3>1 DEF TypeOK, LookedInv, Busy
    <3> QED
      BY <2>1, <2>2, <3>1, <3>2, <3>3 DEF TypeOK, context
  <2> QED
    BY <2>3, <2>4
<1>8. ASSUME NEW s \in Sweeps, Commit(s) PROVE TypeOK' /\ LookedInv'
  <2>1. /\ spc[s] = "commit" /\ stage' = seen[s][1] + 1 /\ at' = sentAt[s] /\ data' = seen[s][3]
        /\ Leave(s) /\ lastBy' = "bot"
        /\ UNCHANGED <<now, standing, active, goodbye, flagVars, turn, events, ghostVars, logVars>>
    BY <1>8 DEF Commit
  <2>2. context' \in Context
    <3>1. seen[s] \in Context /\ seen[s][1] < MAX_STAGE /\ sentAt[s] \in Never .. MaxNow
      BY <2>1 DEF LookedInv, Busy, TypeOK
    <3>2. seen[s][1] + 1 \in 0 .. MAX_STAGE
      BY <3>1, ContextParts DEF MAX_STAGE
    <3> QED
      BY <2>1, <3>1, <3>2, ContextParts DEF context
  <2>3. LookedInv'
    BY <2>1, LeaveType DEF LookedInv, Busy, TypeOK
  <2> QED
    BY <2>1, <2>2, <2>3, LeaveType DEF TypeOK
<1>9. ASSUME NEW s \in Sweeps, Die(s) PROVE TypeOK' /\ LookedInv'
  BY <1>9, LeaveType DEF Die, TypeOK, LookedInv, Busy, context
<1>10. CASE UNCHANGED vars
  BY <1>10 DEF vars, TypeOK, LookedInv, Busy, context
<1>11. ASSUME NEW t \in turn, TurnGone(t) PROVE TypeOK' /\ LookedInv'
  BY <1>11 DEF TurnGone, TypeOK, LookedInv, Busy, context
<1> QED
  BY <1>1, <1>2, <1>3, <1>4, <1>5, <1>6, <1>7, <1>8, <1>9, <1>10, <1>11 DEF Next

\* Every variable keeps its shape; in particular the stage never passes two,
\* also when sweeps race, die, or write a stage they read long ago.
THEOREM TypeCorrect == Spec => []TypeOK
<1>1. Spec => [](TypeOK /\ LookedInv)
  BY InitType, NextType, PTL DEF Spec
<1> QED
  BY <1>1, PTL

(***************************************************************************)
(* A message that goes out is one the rules allow.                         *)
(***************************************************************************)
\* Whoever else commits is counted, and a sweep that looked before it is
\* promised nothing any more.
LEMMA EventsCount ==
  ASSUME TypeOK, LookedInv, (\E t \in turn : TurnCommit(t)) \/ SetHandover \/ SetBlocked \/ SendMessage,
         NEW s \in Sweeps
  PROVE  selected'[s][1] # events' /\ spc' = spc /\ seen' = seen /\ events' # events
<1>1. events' = events + 1 /\ selected' = selected /\ spc' = spc /\ seen' = seen
  BY DEF TurnCommit, SetHandover, SetBlocked, SendMessage, Event, sweepVars
<1>2. selected[s][1] \in Nat /\ events \in Nat /\ selected[s][1] <= events
  BY DEF TypeOK, LookedInv
<1> QED
  BY <1>1, <1>2

\* What a sweep has checked stays true until somebody else commits.
LEMMA NextJustified == TypeOK /\ LookedInv /\ JustifiedInv /\ [Next]_vars => JustifiedInv'
<1> SUFFICES ASSUME TypeOK, LookedInv, JustifiedInv, [Next]_vars PROVE JustifiedInv'
  OBVIOUS
<1> USE DEF convVars, flagVars, sweepVars, ghostVars, logVars
<1>1. CASE (\E t \in turn : TurnCommit(t)) \/ SetHandover \/ SetBlocked \/ SendMessage
  BY <1>1, EventsCount DEF JustifiedInv
<1>2. CASE Tick \/ (\E i \in Turns : TurnLoad(i)) \/ (\E t \in turn : TurnGone(t)) \/ UNCHANGED vars
  BY <1>2 DEF Tick, TurnLoad, TurnGone, vars, JustifiedInv
<1>3. ASSUME NEW s \in Sweeps, Select(s) PROVE JustifiedInv'
  <2>1. /\ standing = "going" /\ ~paused /\ ~blocked /\ now - active >= First /\ now - active <= MaxAge
        /\ spc'[s] = "check" /\ selected'[s] = <<events, now>>
        /\ \A r \in Sweeps \ {s} : spc'[r] = spc[r] /\ selected'[r] = selected[r]
        /\ UNCHANGED <<standing, paused, blocked, active, lastBy, goodbye, events>>
    BY <1>3 DEF Select, TypeOK
  <2>2. now - active \in First .. MaxAge
    BY <2>1, SweepAssumption DEF TypeOK
  <2> QED
    BY <2>1, <2>2 DEF JustifiedInv
<1>4. ASSUME NEW s \in Sweeps, Check(s) PROVE JustifiedInv'
  <2>1. \/ spc' = [spc EXCEPT ![s] = "send"] /\ selected' = selected /\ lastBy = "bot" /\ ~goodbye
        \/ Leave(s)
    BY <1>4 DEF Check
  <2>2. spc[s] = "check" /\ UNCHANGED <<standing, paused, blocked, active, lastBy, goodbye, events>>
    BY <1>4 DEF Check
  <2>3. CASE Leave(s)
    BY <2>2, <2>3, LeaveType DEF JustifiedInv
  <2>4. CASE spc' = [spc EXCEPT ![s] = "send"] /\ selected' = selected /\ lastBy = "bot" /\ ~goodbye
    BY <2>2, <2>4 DEF JustifiedInv, TypeOK
  <2> QED
    BY <2>1, <2>3, <2>4
<1>5. ASSUME NEW s \in Sweeps, Send(s) \/ Commit(s) \/ Die(s) PROVE JustifiedInv'
  <2>1. \/ spc' = [spc EXCEPT ![s] = "commit"] /\ selected' = selected
        \/ Leave(s)
    BY <1>5 DEF Send, Commit, Die
  <2>2. UNCHANGED <<standing, paused, blocked, active, goodbye, events>> /\ lastBy' \in {lastBy, "bot"}
    BY <1>5 DEF Send, Commit, Die
  <2>3. \A r \in Sweeps : spc'[r] \in {"check", "send"} => spc'[r] = spc[r] /\ selected'[r] = selected[r]
    BY <2>1, LeaveType DEF TypeOK
  <2> QED
    BY <2>2, <2>3 DEF JustifiedInv
<1> QED
  BY <1>1, <1>2, <1>3, <1>4, <1>5 DEF Next

\* A check-in about to go out is one the rules allow, unless a turn, an agent
\* or the console changed the contact after the sweep looked - whatever other
\* sweeps do meanwhile.
THEOREM NudgesAreJustified == Spec => []NudgeJustified
<1>1. Init => JustifiedInv
  BY DEF Init, JustifiedInv
<1>2. TypeOK /\ LookedInv /\ JustifiedInv => NudgeJustified
  BY DEF LookedInv, JustifiedInv, NudgeJustified, Busy
<1> QED
  BY <1>1, <1>2, InitType, NextType, NextJustified, PTL DEF Spec

(***************************************************************************)
(* At most two check-ins, a gap apart.                                     *)
(***************************************************************************)
Others ==
    \/ Tick \/ SetHandover \/ SetBlocked \/ SendMessage \/ UNCHANGED vars
    \/ \E i \in Turns : TurnLoad(i)
    \/ \E t \in turn : TurnCommit(t) \/ TurnGone(t)

\* Nobody but a sweep touches what the sweeps remember, and time passes.
LEMMA OthersStep ==
  ASSUME TypeOK, Others
  PROVE  UNCHANGED <<spc, seen, sentAt, selected, lastNudge, faults, raced>> /\ now' >= now /\ now' \in Nat /\ now \in Nat
<1> USE DEF convVars, flagVars, sweepVars, ghostVars, logVars
<1>1. now \in Nat
  BY SweepAssumption DEF TypeOK
<1>2. CASE Tick
  BY <1>1, <1>2 DEF Tick
<1>3. CASE \E i \in Turns : TurnLoad(i)
  BY <1>1, <1>3 DEF TurnLoad
<1>4. CASE \E t \in turn : TurnCommit(t) \/ TurnGone(t)
  BY <1>1, <1>4 DEF TurnCommit, TurnGone
<1>5. CASE SetHandover \/ SetBlocked \/ SendMessage
  BY <1>1, <1>5 DEF SetHandover, SetBlocked, SendMessage
<1>6. CASE UNCHANGED vars
  BY <1>1, <1>6 DEF vars
<1> QED
  BY <1>2, <1>3, <1>4, <1>5, <1>6 DEF Others

\* While no two sweeps have raced, one sweep at a time is under way.
LEMMA NextAlone ==
  ASSUME TypeOK, LookedInv, ~raced => Alone, [Next]_vars, ~raced'
  PROVE  ~raced /\ Alone /\ Alone'
<1> USE DEF convVars, flagVars, sweepVars, ghostVars, logVars
<1>1. ASSUME NEW s \in Sweeps, Select(s) PROVE ~raced /\ Alone'
  BY <1>1 DEF Select, Alone, Busy, TypeOK
<1>2. ASSUME NEW s \in Sweeps, Check(s) \/ Send(s) \/ Commit(s) \/ Die(s) PROVE ~raced /\ Alone'
  <2>1. raced' = raced /\ Busy(s) /\ \A r \in Sweeps \ {s} : spc'[r] = spc[r]
    BY <1>2, LeaveType DEF Check, Send, Commit, Die, Busy, TypeOK
  <2> QED
    BY <2>1 DEF Alone, Busy
<1>3. CASE Others
  BY <1>3, OthersStep DEF Alone, Busy
<1> QED
  BY <1>1, <1>2, <1>3 DEF Next, Others

\* Time and the turns keep the count: a turn that puts an older stage back has
\* also ended the silence.
LEMMA OthersCount ==
  ASSUME TypeOK, CountInv, Others
  PROVE  CountInv'
<1> USE DEF convVars, flagVars, sweepVars, ghostVars, logVars
<1>1. \A s \in Sweeps : seen[s][1] \in 0 .. MAX_STAGE /\ seen[s][2] \in Nat
  BY ContextParts, SweepAssumption DEF TypeOK, Never
<1>2. UNCHANGED <<spc, seen, sentAt, lastNudge>> /\ now' \in Nat /\ now' >= now /\ now \in Nat
  BY OthersStep
<1>3. CASE \E t \in turn : TurnCommit(t)
  <2>1. silence' = 0 /\ repeats' = 0 /\ stage' \in 0 .. MAX_STAGE
    <3>1. silence' = 0 /\ repeats' = 0 /\ (stage' = stage \/ \E t \in turn : stage' = t.loaded[1])
      BY <1>3 DEF TurnCommit, context
    <3> QED
      BY <3>1, ContextParts DEF TypeOK, context
  <2>2. now' = now
    BY <1>3 DEF TurnCommit
  <2>3. repeats' \in Nat /\ silence' = 0 /\ ~(silence' > repeats')
    BY <2>1
  <2>4. stage' \in Nat
    BY <2>1 DEF MAX_STAGE
  <2>5. \A n \in Nat : silence' <= n + repeats' /\ silence' <= n + 1 + repeats'
    <3>1. \A n, r \in Nat : 0 <= n + r /\ 0 <= n + 1 + r
      OBVIOUS
    <3> QED
      BY <2>3, <3>1
  <2>6. \A s \in Sweeps : /\ silence' <= seen'[s][1] + repeats'
                         /\ silence' <= seen'[s][1] + 1 + repeats'
    BY <1>1, <1>2, <2>5 DEF MAX_STAGE
  <2> QED
    BY <1>2, <2>2, <2>3, <2>4, <2>5, <2>6 DEF CountInv
<1>4. CASE ~\E t \in turn : TurnCommit(t)
  <2>1. UNCHANGED <<silence, repeats, stage, at>>
    BY <1>4 DEF Others, Tick, TurnLoad, TurnGone, SetHandover, SetBlocked, SendMessage, vars, context
  <2> QED
    BY <1>1, <1>2, <2>1, SweepAssumption DEF CountInv
<1> QED
  BY <1>3, <1>4

\* A sweep that is alone keeps it too, unless it dies.
LEMMA SweepCounts ==
  ASSUME TypeOK, LookedInv, CountInv, Alone, NEW s \in Sweeps, Select(s) \/ Check(s) \/ Send(s) \/ Commit(s),
         Alone'
  PROVE  CountInv'
<1> USE DEF convVars, flagVars, sweepVars, ghostVars, logVars
<1>1. /\ seen[s][1] \in 0 .. MAX_STAGE /\ seen[s][2] \in Nat /\ sentAt[s] \in Nat
      /\ stage \in 0 .. MAX_STAGE /\ at \in Nat /\ now \in Nat /\ silence \in Nat /\ repeats \in Nat
  BY ContextParts, SweepAssumption DEF TypeOK, Never, context
<1>2. CASE Select(s)
  <2>1. /\ spc[s] = "idle" /\ spc'[s] = "check" /\ seen'[s] = <<stage, at, data>>
        /\ stage = 1 => now - at >= Gap
        /\ UNCHANGED <<now, stage, at, sentAt, silence, repeats, lastNudge>>
    BY <1>2 DEF Select, Due, context, TypeOK
  <2>2. \A r \in Sweeps \ {s} : spc'[r] = "idle" /\ spc[r] = "idle"
    BY <1>2, <2>1 DEF Select, Alone, Busy, TypeOK
  <2>3. silence <= stage + repeats /\ (silence > repeats => at = lastNudge)
    BY <2>1, <2>2 DEF CountInv
  <2> QED
    BY <2>1, <2>2, <2>3 DEF CountInv
<1>3. CASE ~Select(s)
  <2>1. Busy(s) /\ \A r \in Sweeps \ {s} : spc'[r] = "idle" /\ spc[r] = "idle"
    BY <1>3, LeaveType DEF Check, Send, Commit, Alone, Busy, TypeOK
  <2>2. CASE Check(s)
    <3>1. /\ spc[s] = "check" /\ spc'[s] \in {"send", "idle"}
          /\ spc'[s] = "send" => seen'[s] = seen[s]
          /\ UNCHANGED <<now, stage, at, silence, repeats, lastNudge>>
      BY <2>2, LeaveType DEF Check, TypeOK, context
    <3>2. silence <= stage + repeats /\ (silence > repeats => at = lastNudge)
      BY <2>1, <3>1 DEF CountInv
    <3> QED
      BY <2>1, <3>1, <3>2 DEF CountInv
  <2>3. CASE Send(s)
    <3>1. spc[s] = "send" /\ UNCHANGED <<now, stage, at>>
      BY <2>3 DEF Send, context
    <3>2. silence <= stage + repeats /\ (silence > repeats => at = lastNudge) /\ silence <= seen[s][1] + repeats
      BY <2>1, <3>1 DEF CountInv
    <3>3. PICK copies \in Nat :
            /\ silence' = silence + copies
            /\ \/ /\ spc' = [spc EXCEPT ![s] = "commit"] /\ sentAt' = [sentAt EXCEPT ![s] = now]
                  /\ repeats' \in Nat /\ repeats' >= repeats /\ repeats' + 1 >= repeats + copies
                  /\ lastNudge' = now /\ now \in Nat /\ UNCHANGED <<seen, selected>>
               \/ Leave(s) /\ repeats' = repeats + copies /\ UNCHANGED lastNudge
      BY <2>3, SendCounts
    <3>4. CASE Leave(s) /\ repeats' = repeats + copies /\ UNCHANGED lastNudge
      <4>1. spc'[s] = "idle"
        BY <3>4, LeaveType
      <4>2. silence' <= stage' + repeats' /\ (silence' > repeats' => at' = lastNudge')
        BY <1>1, <3>1, <3>2, <3>3, <3>4
      <4> QED
        BY <2>1, <4>1, <4>2 DEF CountInv
    <3>5. CASE ~(Leave(s) /\ repeats' = repeats + copies /\ UNCHANGED lastNudge)
      <4>1. spc'[s] = "commit" /\ sentAt'[s] = now /\ lastNudge' = now /\ seen' = seen
        BY <3>3, <3>5 DEF TypeOK
      <4>2. silence' <= seen[s][1] + 1 + repeats'
        BY <1>1, <3>2, <3>3, <3>5
      <4> QED
        BY <2>1, <4>1, <4>2 DEF CountInv
    <3> QED
      BY <3>4, <3>5
  <2>4. CASE Commit(s)
    <3>1. /\ spc[s] = "commit" /\ spc'[s] = "idle" /\ UNCHANGED <<silence, repeats, lastNudge>>
          /\ stage' = seen[s][1] + 1 /\ at' = sentAt[s]
      BY <2>4, LeaveType DEF Commit
    <3>2. silence <= seen[s][1] + 1 + repeats /\ (silence > repeats => sentAt[s] = lastNudge)
      BY <3>1 DEF CountInv
    <3> QED
      BY <2>1, <3>1, <3>2 DEF CountInv
  <2> QED
    BY <1>3, <2>2, <2>3, <2>4
<1> QED
  BY <1>2, <1>3

LEMMA NextSpaced == TypeOK /\ LookedInv /\ SpacedInv /\ [Next]_vars => SpacedInv'
<1> SUFFICES ASSUME TypeOK, LookedInv, SpacedInv, [Next]_vars, ~raced', faults' = 0 PROVE Alone' /\ CountInv'
  BY DEF SpacedInv
<1>1. faults = 0 /\ \A s \in Sweeps : ~Die(s)
  <2>1. \A s \in Sweeps : ~Die(s)
    BY DEF Die, TypeOK
  <2>2. ASSUME NEW s \in Sweeps, Select(s) \/ Check(s) \/ Send(s) \/ Commit(s) PROVE faults = 0
    BY <2>2 DEF Select, Check, Send, Commit, logVars
  <2> QED
    BY <2>1, <2>2, OthersStep DEF Next, Others
<1>2. ~raced /\ Alone /\ Alone'
  BY <1>1, NextAlone DEF SpacedInv
<1>3. CountInv
  BY <1>1, <1>2 DEF SpacedInv
<1> QED
  BY <1>1, <1>2, <1>3, OthersCount, SweepCounts DEF Next, Others

\* A step that sends a check-in, during a silence that has seen one, comes a gap
\* after it.
LEMMA SendSpaced ==
  ASSUME TypeOK, LookedInv, SpacedInv, [Next]_vars, ~raced, faults = 0, silence' > silence, silence > repeats
  PROVE  now - lastNudge >= Gap
<1>1. silence \in Nat /\ repeats \in Nat /\ CountInv
  BY DEF TypeOK, SpacedInv
<1>2. PICK s \in Sweeps : Send(s)
  <2>1. ASSUME NEW s \in Sweeps, Select(s) \/ Check(s) \/ Commit(s) \/ Die(s) PROVE FALSE
    BY <1>1, <2>1 DEF Select, Check, Commit, Die, ghostVars
  <2>2. ~(Tick \/ SetHandover \/ SetBlocked \/ SendMessage \/ UNCHANGED vars)
        /\ ~(\E i \in Turns : TurnLoad(i)) /\ ~(\E t \in turn : TurnGone(t))
    BY <1>1 DEF Tick, TurnLoad, TurnGone, SetHandover, SetBlocked, SendMessage, ghostVars, vars
  <2>3. ~\E t \in turn : TurnCommit(t)
    BY <1>1 DEF TurnCommit
  <2> QED
    BY <2>1, <2>2, <2>3 DEF Next
<1>3. spc[s] = "send" /\ seen[s][1] \in 0 .. MAX_STAGE /\ seen[s][1] < MAX_STAGE
  BY <1>2, ContextParts DEF Send, TypeOK, LookedInv, Busy
<1>4. seen[s][1] = 1 /\ seen[s][2] = lastNudge
  BY <1>1, <1>3 DEF CountInv, MAX_STAGE
<1> QED
  BY <1>1, <1>3, <1>4 DEF CountInv

\* SpacedInv is invariant.
LEMMA AlwaysSpaced == Spec => [](TypeOK /\ LookedInv /\ SpacedInv)
<1>1. Init => SpacedInv
  BY DEF Init, SpacedInv, Alone, CountInv, Busy
<1> QED
  BY <1>1, InitType, NextType, NextSpaced, PTL DEF Spec

\* A customer who stays away hears from us twice at most, and beyond that exactly
\* what the sweeper does not notice, however turns, agents and the console
\* interleave with the sweeps, unless two sweeps run at once or one dies with its
\* messages out.
THEOREM TwoCheckInsAtMost == Spec => []AtMostTwoPerSilence
<1>1. TypeOK /\ LookedInv /\ SpacedInv => AtMostTwoPerSilence
  <2> SUFFICES ASSUME TypeOK, LookedInv, CountInv PROVE silence <= MAX_STAGE + repeats
    BY DEF SpacedInv, AtMostTwoPerSilence
  <2>1. silence \in Nat /\ repeats \in Nat /\ stage \in 0 .. MAX_STAGE /\ \A s \in Sweeps : seen[s][1] \in 0 .. MAX_STAGE
    BY ContextParts DEF TypeOK, context
  <2>2. ASSUME NEW s \in Sweeps, spc[s] = "commit" PROVE silence <= MAX_STAGE + repeats
    BY <2>1, <2>2 DEF CountInv, LookedInv, Busy, MAX_STAGE
  <2>3. CASE \A s \in Sweeps : spc[s] # "commit"
    BY <2>1, <2>3 DEF CountInv, MAX_STAGE
  <2> QED
    BY <2>2, <2>3
<1> QED
  BY <1>1, AlwaysSpaced, PTL

\* ... and what goes out after one that was noticed comes a gap after the last.
THEOREM CheckInsAreSpaced == Spec => NudgesSpaced
<1>1. TypeOK /\ LookedInv /\ SpacedInv /\ [Next]_vars
        => [~raced /\ faults = 0 /\ silence' > silence /\ silence > repeats
              => now - lastNudge >= Gap]_vars
  BY SendSpaced
<1> QED
  BY <1>1, AlwaysSpaced, PTL DEF Spec, NudgesSpaced

(***************************************************************************)
(* What a turn captured is kept.                                           *)
(***************************************************************************)
\* A turn that comes alone loads all there is, also after turns that overlapped.
LEMMA LoadKeeps ==
  ASSUME TypeOK, LookedInv, ~overlapped => KeptInv, NEW i \in Turns, TurnLoad(i), ~overlapped'
  PROVE  KeptInv'
<1>1. /\ turn = {} /\ turn' = {[id |-> i, withAgent |-> paused, loaded |-> context]}
      /\ UNCHANGED <<data, spc, seen, selected, events>>
  BY DEF TurnLoad, context, sweepVars
<1>2. \A x \in turn' : x.loaded[3] = data
  BY <1>1 DEF context
<1>3. CASE \A s \in Sweeps : ~Busy(s)
  BY <1>1, <1>2, <1>3 DEF KeptInv, Busy
<1>4. CASE ~\A s \in Sweeps : ~Busy(s)
  <2>1. KeptInv
    BY <1>1, <1>4 DEF TurnLoad, Busy
  <2> QED
    BY <1>1, <1>2, <2>1 DEF KeptInv, Busy
<1> QED
  BY <1>3, <1>4

\* A turn under way alone adds to what there is, and what a sweep saw of it stays.
LEMMA TurnKeeps ==
  ASSUME TypeOK, LookedInv, KeptInv, NEW t \in turn, TurnCommit(t) \/ TurnGone(t)
  PROVE  KeptInv' /\ data \subseteq data'
<1> USE DEF convVars, flagVars, sweepVars, ghostVars, logVars
<1>1. CASE TurnGone(t)
  BY <1>1 DEF TurnGone, KeptInv, Busy, context
<1>2. CASE TurnCommit(t)
  <2>1. data' = data \/ data' = t.loaded[3] \union {events'}
    BY <1>2 DEF TurnCommit, context
  <2>2. turn' = {} /\ UNCHANGED <<spc, seen, selected>>
    BY <1>2 DEF TurnCommit, KeptInv
  <2>3. data \subseteq data' /\ \A s \in Sweeps : Busy(s) => seen[s][3] \subseteq data'
    BY <2>1 DEF KeptInv
  <2>4. \A s \in Sweeps : selected'[s][1] # events'
    BY <1>2, EventsCount
  <2> QED
    BY <2>2, <2>3, <2>4 DEF KeptInv, Busy
<1> QED
  BY <1>1, <1>2

\* A sweep that is alone puts back what is still there.
LEMMA SweepKeeps ==
  ASSUME TypeOK, LookedInv, KeptInv, Alone, Alone', NEW s \in Sweeps,
         Select(s) \/ Check(s) \/ Send(s) \/ Commit(s) \/ Die(s)
  PROVE  KeptInv'
<1> USE DEF convVars, flagVars, sweepVars, ghostVars, logVars
<1>1. CASE Select(s)
  <2>1. /\ seen'[s] = <<stage, at, data>> /\ Busy(s)' /\ UNCHANGED <<data, turn, events>>
        /\ \A r \in Sweeps \ {s} : ~Busy(r)'
    BY <1>1 DEF Select, TypeOK, context, Busy, Alone
  <2> QED
    BY <2>1 DEF KeptInv
<1>2. CASE Commit(s)
  <2>1. Busy(s) /\ data' = seen[s][3] /\ turn' = turn /\ spc'[s] = "idle" /\ \A r \in Sweeps \ {s} : spc'[r] = spc[r]
    BY <1>2, LeaveType DEF Commit, Busy
  <2>2. \A r \in Sweeps : ~Busy(r)'
    BY <2>1 DEF Alone, Busy
  <2> QED
    BY <2>1, <2>2 DEF KeptInv
<1>3. CASE Check(s) \/ Send(s) \/ Die(s)
  <2>1. /\ Busy(s) /\ UNCHANGED <<data, turn, events>>
        /\ \A r \in Sweeps : Busy(r)' => Busy(r) /\ seen'[r] = seen[r] /\ selected'[r] = selected[r]
    <3>1. spc[s] # "idle" /\ UNCHANGED <<data, turn, events>>
      BY <1>3 DEF Check, Send, Die, context
    <3>2. \/ Leave(s)
          \/ UNCHANGED <<seen, selected>> /\ \A r \in Sweeps \ {s} : spc'[r] = spc[r]
      BY <1>3 DEF Check, Send, Die, TypeOK
    <3> QED
      BY <3>1, <3>2, LeaveType DEF Busy
  <2> QED
    BY <2>1 DEF KeptInv
<1> QED
  BY <1>1, <1>2, <1>3

LEMMA NextDetails == TypeOK /\ LookedInv /\ DetailsInv /\ [Next]_vars => DetailsInv'
<1> SUFFICES ASSUME TypeOK, LookedInv, DetailsInv, [Next]_vars, ~raced' PROVE Alone' /\ (~overlapped' => KeptInv')
  BY DEF DetailsInv
<1>1. ~raced /\ Alone /\ Alone' /\ (~overlapped => KeptInv)
  BY NextAlone DEF DetailsInv
<1> SUFFICES ASSUME ~overlapped' PROVE KeptInv'
  BY <1>1
<1>2. CASE \E i \in Turns : TurnLoad(i)
  BY <1>1, <1>2, LoadKeeps
<1>3. CASE ~\E i \in Turns : TurnLoad(i)
  <2>1. KeptInv
    <3>1. overlapped' = overlapped
      BY <1>3 DEF Next, Tick, TurnCommit, TurnGone, SetHandover, SetBlocked, SendMessage,
                  Select, Check, Send, Commit, Die, vars, logVars
    <3> QED
      BY <1>1, <3>1
  <2>2. CASE Tick \/ UNCHANGED vars
    BY <2>1, <2>2 DEF Tick, vars, convVars, sweepVars, context, KeptInv, Busy
  <2>3. CASE SetHandover \/ SetBlocked \/ SendMessage
    <3>1. UNCHANGED <<data, turn, seen, spc>>
      BY <2>3 DEF SetHandover, SetBlocked, SendMessage, context, sweepVars
    <3>2. \A s \in Sweeps : selected'[s][1] # events'
      BY <2>3, EventsCount
    <3> QED
      BY <2>1, <3>1, <3>2 DEF KeptInv, Busy
  <2> QED
    BY <1>1, <1>3, <2>1, <2>2, <2>3, TurnKeeps, SweepKeeps DEF Next
<1> QED
  BY <1>2, <1>3

\* While turns come one after another, what they captured goes only with a sweep
\* that looked before somebody else's commit and now writes back what it saw,
\* unless two sweeps have run at once - also when sweeps die, and again as soon as a
\* turn comes alone after some that overlapped.
THEOREM DetailsAreKept == Spec => DetailsKept
<1>1. Init => DetailsInv
  BY DEF Init, DetailsInv, Alone, KeptInv, Busy
<1>2. Spec => [](TypeOK /\ LookedInv /\ DetailsInv)
  BY <1>1, InitType, NextType, NextDetails, PTL DEF Spec
<1>3. TypeOK /\ LookedInv /\ DetailsInv /\ [Next]_vars
        => [~raced /\ ~overlapped /\ ~(data \subseteq data')
              => \E s \in Sweeps : spc[s] = "commit" /\ selected[s][1] # events]_vars
  <2> SUFFICES ASSUME TypeOK, LookedInv, KeptInv, Next, ~(data \subseteq data')
               PROVE  \E s \in Sweeps : spc[s] = "commit" /\ selected[s][1] # events
    BY DEF DetailsInv
  <2>1. PICK s \in Sweeps : Commit(s)
    <3>1. ~\E t \in turn : TurnCommit(t) \/ TurnGone(t)
      BY TurnKeeps
    <3>2. ~(Tick \/ SetHandover \/ SetBlocked \/ SendMessage) /\ ~\E i \in Turns : TurnLoad(i)
      BY DEF Tick, TurnLoad, SetHandover, SetBlocked, SendMessage, context
    <3>3. \A s \in Sweeps : ~(Select(s) \/ Check(s) \/ Send(s) \/ Die(s))
      BY DEF Select, Check, Send, Die, context
    <3> QED
      BY <3>1, <3>2, <3>3 DEF Next
  <2>2. spc[s] = "commit" /\ data' = seen[s][3]
    BY <2>1 DEF Commit
  <2> QED
    BY <2>2 DEF KeptInv, Busy
<1> QED
  BY <1>2, <1>3, PTL DEF Spec, DetailsKept
=============================================================================
