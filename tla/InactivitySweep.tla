-------------------------- MODULE InactivitySweep --------------------------
(***************************************************************************)
(* InactivitySweeper: check-ins with a customer who went quiet.  A sweep   *)
(* selects the conversations that look stalled, and then deals with them   *)
(* one after the other - two queries and a WhatsApp call each, up to 200   *)
(* times - before one commit at the end records what it sent.              *)
(*                                                                         *)
(* Conversations interact only through how long that takes and through the *)
(* common commit, so there is one conversation here, any delay between the *)
(* steps of a sweep, and a sweep that may die after the message went out.  *)
(* The WhatsApp call may fail although Meta delivers, and then the sweep   *)
(* takes it that nothing went out.  Turns write the same context column    *)
(* meanwhile, several at once if the customer writes fast, and agents use  *)
(* the console.                                                            *)
(***************************************************************************)
EXTENDS Naturals

CONSTANTS
    Sweeps,       \* sweeps that can run: the loop's, the scheduler's requests
    Turns,        \* turns that can be under way at once
    First,        \* inactivity_minutes, in ticks
    Gap,          \* inactivity_followup_minutes, in ticks
    MaxAge,       \* inactivity_max_age_hours, in ticks
    MaxNow,       \* bound: ticks
    MaxEvents,    \* bound: turns, console changes and agent messages
    MaxFaults,    \* bound: sweeps that die
    MaxRepeats    \* bound: check-ins in one silence that the sweeper did not notice

ASSUME SweepAssumption ==
    /\ {First, Gap, MaxAge, MaxNow} \subseteq Nat \ {0}
    /\ {MaxEvents, MaxFaults, MaxRepeats} \subseteq Nat

MAX_STAGE == 2
Attempts == 3 \* stop_after_attempt of the WhatsApp client
Never == 0    \* times start at 1

VARIABLES
    now,
    standing,   \* the conversation: going; finished, but active; closed
    active,     \* conversations.last_activity_at
    lastBy,     \* who wrote the last transcript row
    goodbye,    \* the customer's last message was a closing remark
    paused,     \* users.bot_paused
    blocked,    \* users.blocked
    stage, at,  \* the context's inactivity_stage and inactivity_at
    data,       \* the turns whose captured details the context holds
    turn,       \* the turns under way, each with what it loaded
    spc,        \* where each sweep is: idle, check, send, commit
    seen,       \* the context it loaded: <<stage, at, data>>
    sentAt,     \* when it sent its message
    selected,   \* ghost: what it looked at: <<events, now>>
    events,     \* ghost: commits by others so far
    silence,    \* ghost: check-ins that went out since the last turn committed
    repeats,    \* ghost: those of them the sweeper did not notice: of a call that
                \* failed, or more than one of a call that did not
    lastNudge,  \* ghost: when a call last succeeded
    faults,     \* sweeps that died
    raced,      \* ghost: two sweeps once ran at the same time
    overlapped  \* ghost: two turns were under way at once, and a sweep or a turn
                \* from then may still be

context   == <<stage, at, data>>
convVars  == <<standing, active, lastBy, goodbye>>
flagVars  == <<paused, blocked>>
sweepVars == <<spc, seen, sentAt, selected>>
ghostVars == <<silence, repeats, lastNudge>>
logVars   == <<faults, raced, overlapped>>
vars == <<now, convVars, flagVars, context, turn, sweepVars, events,
          ghostVars, logVars>>

Init ==
    /\ now = 1
    /\ standing = "going"
    /\ active = 1
    /\ lastBy = "bot"
    /\ goodbye = FALSE
    /\ paused = FALSE
    /\ blocked = FALSE
    /\ stage \in {0, 1}      \* 1 without a time: chased by the previous version
    /\ at = Never
    /\ data = {}
    /\ turn = {}
    /\ spc = [s \in Sweeps |-> "idle"]
    /\ seen = [s \in Sweeps |-> <<0, Never, {}>>]
    /\ sentAt = [s \in Sweeps |-> Never]
    /\ selected = [s \in Sweeps |-> <<0, Never>>]
    /\ events = 0
    /\ silence = 0
    /\ repeats = 0
    /\ lastNudge = Never
    /\ faults = 0
    /\ raced = FALSE
    /\ overlapped = FALSE

Tick ==
    /\ now < MaxNow
    /\ now' = now + 1
    /\ UNCHANGED <<convVars, flagVars, context, turn, sweepVars, events,
                   ghostVars, logVars>>

Event ==
    /\ events < MaxEvents
    /\ events' = events + 1

(***************************************************************************)
(* A turn of the customer's.  The row lock keeps two turns apart, but the  *)
(* context comes with the user, before the lock, so that turns which       *)
(* overlap all work on the context as it was.                              *)
(***************************************************************************)
TurnLoad(i) ==
    /\ standing # "closed" /\ ~blocked
    /\ events < MaxEvents
    /\ \A t \in turn : t.id # i
    /\ turn' = turn \union {[id |-> i, withAgent |-> paused, loaded |-> context]}
    /\ overlapped' = (turn # {} \/ (overlapped /\ \E s \in Sweeps : spc[s] # "idle"))
    /\ UNCHANGED <<now, convVars, flagVars, context, sweepVars, events, ghostVars,
                   faults, raced>>

\* With an agent the message is only recorded.  Otherwise the bot answers, which
\* may finish or close the conversation, or take up one that was finished; if
\* the turn captured anything, the whole context is written.
TurnCommit(t) ==
    /\ standing # "closed"
    /\ Event
    /\ turn' = turn \ {t}
    /\ active' = now
    /\ silence' = 0
    /\ repeats' = 0
    /\ goodbye' \in BOOLEAN
    /\ IF t.withAgent
       THEN /\ lastBy' = "user"
            /\ UNCHANGED <<standing, context>>
       ELSE /\ lastBy' = "bot"
            /\ standing' \in {"going", "finished", "closed"}
            /\ \/ UNCHANGED context
               \/ /\ stage' = t.loaded[1]
                  /\ at' = t.loaded[2]
                  /\ data' = t.loaded[3] \union {events'}
    /\ UNCHANGED <<now, flagVars, sweepVars, lastNudge, logVars>>

\* The turn fails, or finds the conversation closed by another and goes on in a
\* new one.
TurnGone(t) ==
    /\ turn' = turn \ {t}
    /\ UNCHANGED <<now, convVars, flagVars, context, sweepVars, events, ghostVars,
                   logVars>>

(***************************************************************************)
(* The console.                                                            *)
(***************************************************************************)
SetHandover ==
    /\ Event
    /\ ~blocked
    /\ paused' = ~paused
    /\ UNCHANGED <<now, convVars, blocked, context, turn, sweepVars,
                   ghostVars, logVars>>

SetBlocked ==
    /\ Event
    /\ blocked' = ~blocked
    /\ UNCHANGED <<now, convVars, paused, context, turn, sweepVars,
                   ghostVars, logVars>>

\* send_message: only while the agent has the conversation.
SendMessage ==
    /\ Event
    /\ paused /\ ~blocked
    /\ lastBy' = "agent"
    /\ active' = now
    /\ UNCHANGED <<now, standing, goodbye, flagVars, context, turn, sweepVars,
                   ghostVars, logVars>>

(***************************************************************************)
(* A sweep.                                                                *)
(***************************************************************************)
\* Mutants: no limit; no gap.
DueForever == stage = 1 => at # Never /\ now - at >= Gap
DueAtOnce == stage < MAX_STAGE

\* _stage_of, _due_for_second: at most two, the second a gap after the first
\* (and never without knowing when that was).
Due ==
    /\ stage < MAX_STAGE
    /\ stage = 1 => at # Never /\ now - at >= Gap

\* The SELECT, with the checks of the context it loaded.
Select(s) ==
    /\ spc[s] = "idle"
    /\ standing = "going"
    /\ now - active >= First /\ now - active <= MaxAge
    /\ ~paused /\ ~blocked
    /\ Due
    /\ spc' = [spc EXCEPT ![s] = "check"]
    /\ seen' = [seen EXCEPT ![s] = context]
    /\ raced' = (raced \/ \E r \in Sweeps : spc[r] # "idle")
    /\ selected' = [selected EXCEPT ![s] = <<events, now>>]
    /\ UNCHANGED <<now, convVars, flagVars, context, turn, sentAt, events,
                   ghostVars, faults, overlapped>>

\* Forget the conversation and go on with the next.
Leave(s) ==
    /\ spc' = [spc EXCEPT ![s] = "idle"]
    /\ seen' = [seen EXCEPT ![s] = <<0, Never, {}>>]
    /\ sentAt' = [sentAt EXCEPT ![s] = Never]
    /\ selected' = [selected EXCEPT ![s] = <<0, Never>>]

\* Mutant: a goodbye is not noticed.
CheckSpeaker(s) ==
    /\ spc[s] = "check" /\ lastBy = "bot"
    /\ spc' = [spc EXCEPT ![s] = "send"]
    /\ UNCHANGED <<now, convVars, flagVars, context, turn, seen, sentAt, selected,
                   events, ghostVars, logVars>>

\* _is_waiting_on_them, on the transcript as it is by now.
Check(s) ==
    /\ spc[s] = "check"
    /\ IF lastBy = "bot" /\ ~goodbye
       THEN /\ spc' = [spc EXCEPT ![s] = "send"]
            /\ UNCHANGED <<seen, sentAt, selected>>
       ELSE Leave(s)
    /\ UNCHANGED <<now, convVars, flagVars, context, turn, events, ghostVars, logVars>>

\* The WhatsApp call, one step although it takes seconds.  An attempt that timed
\* out may have delivered, also when all have failed; and a number that is not
\* listed is a success of which nothing goes out.  A call that failed leaves the
\* stage as it is.
Send(s) ==
    /\ spc[s] = "send"
    /\ \E copies \in 0 .. Attempts :
        /\ silence' = silence + copies
        /\ \/ /\ spc' = [spc EXCEPT ![s] = "commit"]
              /\ sentAt' = [sentAt EXCEPT ![s] = now]
              /\ repeats' = repeats + (IF copies = 0 THEN 0 ELSE copies - 1)
              /\ lastNudge' = now
              /\ UNCHANGED <<seen, selected>>
           \/ /\ Leave(s)
              /\ repeats' = repeats + copies
              /\ UNCHANGED lastNudge
    /\ repeats' <= MaxRepeats
    /\ UNCHANGED <<now, convVars, flagVars, context, turn, events, logVars>>

\* Mutant: the transcript row is kept, the stage is not.
CommitRow(s) ==
    /\ spc[s] = "commit"
    /\ lastBy' = "bot"
    /\ Leave(s)
    /\ UNCHANGED <<now, standing, active, goodbye, flagVars, context, turn, events,
                   ghostVars, logVars>>

\* Mutant: the context is made anew, with the stage and its time only.
CommitBare(s) ==
    /\ spc[s] = "commit"
    /\ lastBy' = "bot"
    /\ stage' = seen[s][1] + 1
    /\ at' = sentAt[s]
    /\ data' = {}
    /\ Leave(s)
    /\ UNCHANGED <<now, standing, active, goodbye, flagVars, turn, events,
                   ghostVars, logVars>>

\* The commit: the check-in's transcript row (numbered only now), and the
\* context as loaded with the stage and its time put in.
Commit(s) ==
    /\ spc[s] = "commit"
    /\ lastBy' = "bot"
    /\ stage' = seen[s][1] + 1
    /\ at' = sentAt[s]
    /\ data' = seen[s][3]
    /\ Leave(s)
    /\ UNCHANGED <<now, standing, active, goodbye, flagVars, turn, events,
                   ghostVars, logVars>>

\* The process stops, the request is cancelled or the commit fails.
Die(s) ==
    /\ spc[s] # "idle"
    /\ faults < MaxFaults
    /\ faults' = faults + 1
    /\ Leave(s)
    /\ UNCHANGED <<now, convVars, flagVars, context, turn, events, ghostVars, raced, overlapped>>

Next ==
    \/ Tick
    \/ \E i \in Turns : TurnLoad(i)
    \/ \E t \in turn : TurnCommit(t) \/ TurnGone(t)
    \/ SetHandover \/ SetBlocked \/ SendMessage
    \/ \E s \in Sweeps : Select(s) \/ Check(s) \/ Send(s) \/ Commit(s) \/ Die(s)

Spec == Init /\ [][Next]_vars

-----------------------------------------------------------------------------
Context == (0 .. MAX_STAGE) \X (Never .. MaxNow) \X SUBSET (1 .. MaxEvents)

\* Every variable has its shape; in particular no conversation gets past the
\* second stage.
TypeOK ==
    /\ now \in 1 .. MaxNow
    /\ standing \in {"going", "finished", "closed"}
    /\ goodbye \in BOOLEAN /\ paused \in BOOLEAN /\ blocked \in BOOLEAN
    /\ active \in 1 .. MaxNow
    /\ lastBy \in {"user", "bot", "agent"}
    /\ context \in Context
    /\ turn \subseteq [id : Turns, withAgent : BOOLEAN, loaded : Context]
    /\ spc \in [Sweeps -> {"idle", "check", "send", "commit"}]
    /\ seen \in [Sweeps -> Context]
    /\ sentAt \in [Sweeps -> Never .. MaxNow]
    /\ selected \in [Sweeps -> (0 .. MaxEvents) \X (Never .. MaxNow)]
    /\ events \in 0 .. MaxEvents
    /\ {silence, repeats, lastNudge, faults} \subseteq Nat
    /\ raced \in BOOLEAN /\ overlapped \in BOOLEAN

\* A message about to go out is one the rules allow, unless a turn, an agent
\* or another sweep changed the contact after this sweep looked: the customer
\* has been quiet for long enough and not for too long, the bot spoke last and
\* was not said goodbye to, nobody blocked or took over the contact, and there
\* are check-ins left.
NudgeJustified ==
    \A s \in Sweeps :
        spc[s] = "send" /\ selected[s][1] = events =>
            /\ standing = "going" /\ ~paused /\ ~blocked
            /\ lastBy = "bot" /\ ~goodbye
            /\ selected[s][2] - active \in First .. MaxAge
            /\ seen[s][1] < MAX_STAGE

\* "Two check-ins get them back; a third would be harassment" (inactivity.py): a
\* customer who stays away, that is until a turn of theirs is committed, hears from
\* us twice at most, however turns and agents interleave with the sweeps - and
\* beyond that exactly what the sweeper does not notice: copies of one message, and
\* those of a call that failed.  Only two sweeps at once, or one that died with its
\* messages out, can do worse.
AtMostTwoPerSilence ==
    ~raced /\ faults = 0 => silence <= MAX_STAGE + repeats

\* Whatever goes out in a silence in which the sweeper already noticed a check-in
\* comes a gap after the last it noticed, under the same conditions.
NudgesSpaced ==
    [][~raced /\ faults = 0 /\ silence' > silence /\ silence > repeats
         => now - lastNudge >= Gap]_vars

\* "NOTHING IS CLOSED. The conversation keeps its state, its course, its
\* captured details" (inactivity.py).  As far as the sweeps are concerned: while
\* turns come one after another, what they captured goes only with a sweep that
\* looked before somebody else's commit and writes back what it saw, or after two
\* sweeps ran at once and one put back what the other had lost.  What turns that
\* overlap do to each other is left out (TurnTransaction), until the next that
\* comes alone.
DetailsKept ==
    [][~raced /\ ~overlapped /\ ~(data \subseteq data')
         => \E s \in Sweeps : spc[s] = "commit" /\ selected[s][1] # events]_vars
=============================================================================
