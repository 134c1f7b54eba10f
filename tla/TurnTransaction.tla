-------------------------- MODULE TurnTransaction --------------------------
(***************************************************************************)
(* The inbound turn of ConversationService: one WhatsApp message in, one   *)
(* database transaction, zero or more replies out.  Several webhook        *)
(* requests for the same contact run at once (several messages, or Meta's  *)
(* redelivery of one), an agent flips the contact's flags from the console *)
(* meanwhile, transactions fail and processes die.                         *)
(*                                                                         *)
(* One contact only: every row a turn touches hangs off its own user row,  *)
(* so contacts do not interact.                                            *)
(*                                                                         *)
(* PostgreSQL runs at READ COMMITTED.  A step of this module is one        *)
(* statement (or the code between two statements, where nothing awaits     *)
(* the database); the writes of a turn become visible at Commit.           *)
(***************************************************************************)
EXTENDS Naturals, FiniteSets

CONSTANTS
    Messages,     \* WhatsApp message ids (wa_message_id)
    Turn,         \* the deliveries considered: <<message, attempt>> pairs
    MaxConv,      \* bound: conversation ids the sequence hands out
    MaxFaults,    \* bound: failed transactions and killed turns, together
    MaxConsole,   \* bound: console changes of the contact's flags
    Inline,       \* settings.webhook_inline_processing
    KnownContact  \* TRUE: the contact's user row exists at the start

ASSUME BoundsAssumption ==
    /\ Turn \subseteq Messages \X (Nat \ {0})
    /\ MaxConv \in Nat \ {0}
    /\ MaxFaults \in Nat
    /\ MaxConsole \in Nat
    /\ Inline \in BOOLEAN
    /\ KnownContact \in BOOLEAN

\* A turn is one delivery of one message: its WhatsApp id and which attempt.
Msg(t) == t[1]
Attempt(t) == t[2]

ConvId == 1 .. MaxConv
NoConv == 0

\* What the machine's answer does to the conversation: nothing beyond a
\* reply; a new state or slot; or a booking, which also creates the lead and
\* closes the conversation.
Outcome == {"none", "answer", "advance", "book"}

ConvRow == [status : {"absent", "open", "closed"},
            ctx     : SUBSET Messages,   \* turns whose captured data the row holds
            applied : SUBSET Messages]   \* ghost: turns that ever committed into it

VARIABLES
    known,     \* the users row is committed
    blocked,   \* users.blocked
    paused,    \* users.bot_paused
    conv,      \* the committed conversations rows
    nextConv,  \* the id sequence (never rolled back)
    rows,      \* committed USER transcript rows, by message
    replies,   \* times the bot's answer to a message was sent
    acked,     \* messages Meta has received a 200 for
    pc,        \* where each turn is
    sawPaused, \* bot_paused as the turn's session loaded it
    loadedAt,  \* ghost: the epoch in which it was loaded
    snap,      \* the conversations rows that came with the user
    cand,      \* active conversations the locking statement still considers
    held,      \* the conversation the turn locked or inserted
    ctx,       \* the context the turn works on
    outcome,   \* what the machine decided (kept until the replies are out)
    faults,    \* faults so far
    epoch,     \* ghost: console changes so far
    refused,   \* ghost: messages dropped: stale, over budget, contact blocked
    silenced,  \* ghost: messages whose IntegrityError was swallowed
    failed     \* ghost: messages a turn of which raised

userVars == <<known, blocked, paused>>
dbVars   == <<userVars, conv, nextConv, rows>>
outVars  == <<replies, acked>>
session  == <<sawPaused, loadedAt, snap, cand, held, ctx, outcome>>
logVars  == <<faults, epoch, refused, silenced, failed>>
vars     == <<dbVars, outVars, pc, session, logVars>>

AbsentRow == [status |-> "absent", ctx |-> {}, applied |-> {}]
OpenRow   == [status |-> "open", ctx |-> {}, applied |-> {}]
NoRows    == [c \in ConvId |-> AbsentRow]

\* Leaving the session block forgets everything that was loaded.
ForgetRows(t) ==
    /\ sawPaused' = [sawPaused EXCEPT ![t] = FALSE]
    /\ snap' = [snap EXCEPT ![t] = NoRows]
    /\ cand' = [cand EXCEPT ![t] = {}]
    /\ held' = [held EXCEPT ![t] = NoConv]
    /\ ctx' = [ctx EXCEPT ![t] = {}]

EndSession(t) ==
    /\ ForgetRows(t)
    /\ loadedAt' = [loadedAt EXCEPT ![t] = 0]
    /\ outcome' = [outcome EXCEPT ![t] = "none"]

(***************************************************************************)
(* Where a turn can be.                                                    *)
(***************************************************************************)
\* Inside the session, nothing of the transcript written yet.
Before == {"dedupe", "load", "adduser", "find", "lock", "store"}
\* Inside the session, the USER row inserted (and its unique key claimed).
Claimed == {"machine", "commit"}
InTxn == Before \union Claimed
After == {"deliver", "sync", "apologise", "respond"}
Phase == {"idle", "done"} \union InTxn \union After

GoTo(t, next) == pc' = [pc EXCEPT ![t] = next]

\* Rows an uncommitted transaction locks for everybody else.
InsertingUser(t) == ~known /\ pc[t] \in {"find", "lock", "store"} \union Claimed
Holding(t, c) == pc[t] \in {"store"} \union Claimed /\ held[t] = c

OpenConvs == {c \in ConvId : conv[c].status = "open"}

(***************************************************************************)
(* The initial state: nothing received.  A known contact may or may not    *)
(* have an open conversation.                                              *)
(***************************************************************************)
Init ==
    /\ known = KnownContact
    /\ blocked = FALSE
    /\ paused = FALSE
    /\ \/ /\ KnownContact
          /\ conv = [NoRows EXCEPT ![1] = OpenRow]
          /\ nextConv = 2
       \/ /\ conv = NoRows
          /\ nextConv = 1
    /\ rows = [m \in Messages |-> 0]
    /\ replies = [m \in Messages |-> 0]
    /\ acked = {}
    /\ pc = [t \in Turn |-> "idle"]
    /\ sawPaused = [t \in Turn |-> FALSE]
    /\ loadedAt = [t \in Turn |-> 0]
    /\ snap = [t \in Turn |-> NoRows]
    /\ cand = [t \in Turn |-> {}]
    /\ held = [t \in Turn |-> NoConv]
    /\ ctx = [t \in Turn |-> {}]
    /\ outcome = [t \in Turn |-> "none"]
    /\ faults = 0
    /\ epoch = 0
    /\ refused = {}
    /\ silenced = {}
    /\ failed = {}

(***************************************************************************)
(* The webhook.  Meta posts a message, and posts it again as long as it    *)
(* has no 200 for it - also while an earlier attempt is still running.     *)
(* With deferred processing the 200 goes out before the turn.              *)
(***************************************************************************)
Posted(t) ==
    /\ pc[t] = "idle"
    /\ Msg(t) \notin acked
    /\ \A u \in Turn : Msg(u) = Msg(t) /\ Attempt(u) < Attempt(t) => pc[u] # "idle"

\* Mutant: the 200 goes out before the turn even with inline processing.
ReceiveAcksFirst(t) ==
    /\ Posted(t)
    /\ GoTo(t, "dedupe")
    /\ acked' = acked \union {Msg(t)}
    /\ UNCHANGED <<dbVars, replies, session, logVars>>

Receive(t) ==
    /\ Posted(t)
    /\ GoTo(t, "dedupe")
    /\ \/ acked' = acked
       \/ ~Inline /\ acked' = acked \union {Msg(t)}
    /\ UNCHANGED <<dbVars, replies, session, logVars>>

\* The webhook's own filters: a message older than the freshness window, or
\* over its sender's budget, is accepted and dropped.
Discard(t) ==
    /\ Posted(t)
    /\ GoTo(t, "respond")
    /\ refused' = refused \union {Msg(t)}
    /\ UNCHANGED <<dbVars, outVars, session, faults, epoch, silenced, failed>>

\* The handler returns; Meta gets the 200, or the response is lost.
Respond(t) ==
    /\ pc[t] = "respond"
    /\ GoTo(t, "done")
    /\ acked' \in {acked, acked \union {Msg(t)}}
    /\ UNCHANGED <<dbVars, replies, session, logVars>>

(***************************************************************************)
(* The turn, statement by statement.                                       *)
(***************************************************************************)
\* exists_wa_message: a message with a committed row was answered before.
ExistsWaMessage(t) ==
    /\ pc[t] = "dedupe"
    /\ GoTo(t, IF rows[Msg(t)] > 0 THEN "respond" ELSE "load")
    /\ UNCHANGED <<dbVars, outVars, session, logVars>>

\* get_by_phone: loads the user and, with it, every conversation the user
\* has (User.conversations is lazy="selectin"); then the block gate.
LoadUser(t) ==
    /\ pc[t] = "load"
    /\ IF blocked
       THEN /\ GoTo(t, "respond")
            /\ refused' = refused \union {Msg(t)}
            /\ UNCHANGED session
       ELSE /\ GoTo(t, IF known THEN "find" ELSE "adduser")
            /\ sawPaused' = [sawPaused EXCEPT ![t] = paused]
            /\ loadedAt' = [loadedAt EXCEPT ![t] = epoch]
            /\ snap' = [snap EXCEPT ![t] = conv]
            /\ UNCHANGED <<cand, held, ctx, outcome, refused>>
    /\ UNCHANGED <<dbVars, outVars, faults, epoch, silenced, failed>>

\* The swallowed IntegrityError: rolled back, nothing sent.
Silence(t) ==
    /\ GoTo(t, "respond")
    /\ EndSession(t)
    /\ silenced' = silenced \union {Msg(t)}
    /\ UNCHANGED <<dbVars, outVars, faults, epoch, refused, failed>>

\* Mutant: no unique index on users.phone.
AddUserTwice(t) ==
    /\ pc[t] = "adduser"
    /\ GoTo(t, "find")
    /\ UNCHANGED <<dbVars, outVars, session, logVars>>

\* First contact: INSERT INTO users.  The unique phone makes it wait for an
\* uncommitted insert of the same number and fail after a committed one.
AddUser(t) ==
    /\ pc[t] = "adduser"
    /\ \A u \in Turn : ~InsertingUser(u)
    /\ IF known
       THEN Silence(t)
       ELSE /\ GoTo(t, "find")
            /\ UNCHANGED <<dbVars, outVars, session, logVars>>

\* SELECT ... WHERE is_active ORDER BY id DESC LIMIT 1 FOR UPDATE: the rows
\* the statement's snapshot shows.
FindActive(t) ==
    /\ pc[t] = "find"
    /\ GoTo(t, "lock")
    /\ cand' = [cand EXCEPT ![t] = OpenConvs]
    /\ UNCHANGED <<dbVars, outVars, sawPaused, loadedAt, snap, held, ctx, outcome,
                   logVars>>

\* Mutant: the row is taken as the snapshot showed it, closed meanwhile or not.
LockUnchecked(t) ==
    /\ pc[t] = "lock"
    /\ \E c \in cand[t] :
         /\ \A u \in Turn : ~Holding(u, c)
         /\ held' = [held EXCEPT ![t] = c]
         /\ ctx' = [ctx EXCEPT ![t] = snap[t][c].ctx]
    /\ GoTo(t, "store")
    /\ UNCHANGED <<dbVars, outVars, sawPaused, loadedAt, snap, cand, outcome, logVars>>

\* Mutant: a turn waits for the conversation it found to be open again.
LockOnlyOpen(t) ==
    /\ \A c \in cand[t] : conv[c].status = "open"
    /\ LockUnchecked(t)

\* The row lock, highest id first.  PostgreSQL re-checks is_active on the
\* version it finally locks and passes over a row that was closed meanwhile.
\* The session keeps the attributes it loaded with the user: only a
\* conversation it had not seen is populated from the locked row.
LockActive(t) ==
    /\ pc[t] = "lock"
    /\ \E c \in cand[t] :
         /\ \A d \in cand[t] : d <= c
         /\ \A u \in Turn : ~Holding(u, c)
         /\ IF conv[c].status = "open"
            THEN /\ GoTo(t, "store")
                 /\ held' = [held EXCEPT ![t] = c]
                 /\ ctx' = [ctx EXCEPT ![t] = IF snap[t][c].status = "absent"
                                              THEN conv[c].ctx ELSE snap[t][c].ctx]
                 /\ UNCHANGED cand
            ELSE /\ cand' = [cand EXCEPT ![t] = @ \ {c}]
                 /\ UNCHANGED <<pc, held, ctx>>
    /\ UNCHANGED <<dbVars, outVars, sawPaused, loadedAt, snap, outcome, logVars>>

\* Mutant: the turn refers to its conversation by the id after the flushed one.
CreateOffByOne(t) ==
    /\ pc[t] = "lock" /\ cand[t] = {} /\ nextConv <= MaxConv
    /\ GoTo(t, "store")
    /\ held' = [held EXCEPT ![t] = nextConv + 1]
    /\ nextConv' = nextConv + 1
    /\ UNCHANGED <<userVars, conv, rows, outVars, sawPaused, loadedAt, snap, cand,
                   ctx, outcome, logVars>>

\* No active conversation: create one.
CreateConversation(t) ==
    /\ pc[t] = "lock"
    /\ cand[t] = {}
    /\ nextConv <= MaxConv
    /\ GoTo(t, "store")
    /\ held' = [held EXCEPT ![t] = nextConv]
    /\ nextConv' = nextConv + 1
    /\ UNCHANGED <<userVars, conv, rows, outVars, sawPaused, loadedAt, snap, cand,
                   ctx, outcome, logVars>>

\* Mutants: the handover gate is gone; an insert still in flight counts as a
\* duplicate; the transcript has no unique index.
StoreUngated(t) ==
    /\ pc[t] = "store"
    /\ \A u \in Turn : ~(Msg(u) = Msg(t) /\ pc[u] \in Claimed)
    /\ IF rows[Msg(t)] > 0
       THEN Silence(t)
       ELSE GoTo(t, "machine") /\ UNCHANGED <<dbVars, outVars, session, logVars>>

StoreNoWait(t) ==
    /\ pc[t] = "store"
    /\ IF rows[Msg(t)] > 0 \/ \E u \in Turn : Msg(u) = Msg(t) /\ pc[u] \in Claimed
       THEN Silence(t)
       ELSE GoTo(t, "machine") /\ UNCHANGED <<dbVars, outVars, session, logVars>>

StoreTwice(t) ==
    /\ pc[t] = "store"
    /\ GoTo(t, IF sawPaused[t] THEN "commit" ELSE "machine")
    /\ UNCHANGED <<dbVars, outVars, session, logVars>>

\* INSERT INTO messages.  The unique wa_message_id waits for an uncommitted
\* insert of the same id and fails after a committed one.  Then the handover
\* gate, on the flag as loaded before the lock.
StoreMessage(t) ==
    /\ pc[t] = "store"
    /\ \A u \in Turn : ~(Msg(u) = Msg(t) /\ pc[u] \in Claimed)
    /\ IF rows[Msg(t)] > 0
       THEN Silence(t)
       ELSE /\ GoTo(t, IF sawPaused[t] THEN "commit" ELSE "machine")
            /\ UNCHANGED <<dbVars, outVars, session, logVars>>

\* machine.handle and everything up to leaving the session block: retrieval
\* and the model call happen here, so this step may be far from the last.
HandleTurn(t) ==
    /\ pc[t] = "machine"
    /\ GoTo(t, "commit")
    /\ \E o \in Outcome \ {"none"} :
         /\ outcome' = [outcome EXCEPT ![t] = o]
         /\ ctx' = [ctx EXCEPT ![t] = IF o = "answer" THEN @ ELSE @ \union {Msg(t)}]
    /\ UNCHANGED <<dbVars, outVars, sawPaused, loadedAt, snap, cand, held, logVars>>

\* What the commit writes to the conversation row.  An UPDATE carries only
\* the columns the turn changed, but context is one JSON column: a turn that
\* changed anything in it writes all of it.
WrittenRow(t) ==
    LET row == conv[held[t]]
        advances == outcome[t] \in {"advance", "book"}
    IN  [status  |-> IF outcome[t] = "book" THEN "closed" ELSE "open",
         ctx     |-> IF advances THEN ctx[t] ELSE row.ctx,
         applied |-> IF advances THEN row.applied \union {Msg(t)} ELSE row.applied]

Commit(t) ==
    /\ pc[t] = "commit"
    /\ known' = TRUE
    /\ conv' = [conv EXCEPT ![held[t]] = WrittenRow(t)]
    /\ rows' = [rows EXCEPT ![Msg(t)] = @ + 1]
    /\ ForgetRows(t)
    /\ GoTo(t, IF outcome[t] = "none" THEN "respond" ELSE "deliver")
    /\ UNCHANGED <<blocked, paused, nextConv, outVars, loadedAt, outcome, logVars>>

\* _deliver: a reply that cannot be sent is logged and given up.
Deliver(t) ==
    /\ pc[t] = "deliver"
    /\ \/ replies' = [replies EXCEPT ![Msg(t)] = @ + 1]
       \/ replies' = replies
    /\ GoTo(t, IF outcome[t] = "book" THEN "sync" ELSE "respond")
    /\ EndSession(t)
    /\ UNCHANGED <<dbVars, acked, logVars>>

\* lead_sync.sync opens a session of its own; outside its try a database
\* error escapes, and the webhook answers 500.
SyncLead(t) ==
    /\ pc[t] = "sync"
    /\ \/ GoTo(t, "respond") /\ faults' = faults
       \/ /\ faults < MaxFaults
          /\ faults' = faults + 1
          /\ GoTo(t, "done")
    /\ UNCHANGED <<dbVars, outVars, session, epoch, refused, silenced, failed>>

(***************************************************************************)
(* Faults.                                                                 *)
(***************************************************************************)
\* Any other exception inside the session: rollback, then the error message.
FailTurn(t) ==
    /\ pc[t] \in InTxn
    /\ faults < MaxFaults
    /\ faults' = faults + 1
    /\ failed' = failed \union {Msg(t)}
    /\ GoTo(t, "apologise")
    /\ EndSession(t)
    /\ UNCHANGED <<dbVars, outVars, epoch, refused, silenced>>

\* _send_error, best effort.
SendError(t) ==
    /\ pc[t] = "apologise"
    /\ GoTo(t, "respond")
    /\ UNCHANGED <<dbVars, outVars, session, logVars>>

\* The instance dies or the request is cancelled: the transaction rolls back
\* and nothing after this point happens.
KillTurn(t) ==
    /\ pc[t] \in InTxn \union After
    /\ faults < MaxFaults
    /\ faults' = faults + 1
    /\ GoTo(t, "done")
    /\ EndSession(t)
    /\ UNCHANGED <<dbVars, outVars, epoch, refused, silenced, failed>>

(***************************************************************************)
(* The console.  Each endpoint is one short transaction on the users row;  *)
(* a click that repeats the current value is a stuttering step.            *)
(***************************************************************************)
SetHandover ==
    /\ epoch < MaxConsole
    /\ known /\ ~blocked
    /\ paused' = ~paused
    /\ epoch' = epoch + 1
    /\ UNCHANGED <<known, blocked, conv, nextConv, rows, outVars, pc, session,
                   faults, refused, silenced, failed>>

SetBlocked ==
    /\ epoch < MaxConsole
    /\ known
    /\ blocked' = ~blocked
    /\ epoch' = epoch + 1
    /\ UNCHANGED <<known, paused, conv, nextConv, rows, outVars, pc, session,
                   faults, refused, silenced, failed>>

(***************************************************************************)
(* The specification.                                                      *)
(***************************************************************************)
TurnStep(t) ==
    \/ ExistsWaMessage(t) \/ LoadUser(t) \/ AddUser(t) \/ FindActive(t)
    \/ LockActive(t) \/ CreateConversation(t) \/ StoreMessage(t)
    \/ HandleTurn(t) \/ Commit(t) \/ Deliver(t) \/ SyncLead(t)
    \/ SendError(t) \/ Respond(t)

Next ==
    \/ \E t \in Turn : Receive(t) \/ Discard(t) \/ TurnStep(t) \/ FailTurn(t) \/ KillTurn(t)
    \/ SetHandover
    \/ SetBlocked

Spec == Init /\ [][Next]_vars

\* A request that was accepted is run to its end by the event loop, and Meta
\* keeps redelivering what it has no 200 for.
Fairness ==
    /\ \A t \in Turn : WF_vars(TurnStep(t))
    /\ \A t \in Turn : WF_vars(Receive(t))

FairSpec == Spec /\ Fairness

-----------------------------------------------------------------------------
(***************************************************************************)
(* Properties.                                                             *)
(***************************************************************************)

\* Every variable has the shape its comment gives it.
TypeOK ==
    /\ known \in BOOLEAN /\ blocked \in BOOLEAN /\ paused \in BOOLEAN
    /\ conv \in [ConvId -> ConvRow]
    /\ nextConv \in 1 .. (MaxConv + 1)
    /\ rows \in [Messages -> Nat]
    /\ replies \in [Messages -> Nat]
    /\ acked \subseteq Messages
    /\ pc \in [Turn -> Phase]
    /\ sawPaused \in [Turn -> BOOLEAN]
    /\ loadedAt \in [Turn -> Nat]
    /\ snap \in [Turn -> [ConvId -> ConvRow]]
    /\ cand \in [Turn -> SUBSET ConvId]
    /\ held \in [Turn -> {NoConv} \union ConvId]
    /\ ctx \in [Turn -> SUBSET Messages]
    /\ outcome \in [Turn -> Outcome]
    /\ faults \in Nat
    /\ epoch \in Nat
    /\ refused \subseteq Messages
    /\ silenced \subseteq Messages
    /\ failed \subseteq Messages

\* However often Meta redelivers, and however the attempts overlap, fail or
\* die, a message has at most one row in the transcript and is answered at
\* most once, and only after that row is committed (the up-front check, the
\* unique index behind it, and answering after the commit, together).
AtMostOnce ==
    \A m \in Messages : replies[m] <= rows[m] /\ rows[m] <= 1

\* A closed conversation is history: no turn that was waiting for its row
\* reopens it, adds to it or forgets part of it.
ClosedIsFinal ==
    [][\A c \in ConvId : conv[c].status = "closed" => conv'[c] = conv[c]]_vars

\* A turn that may still answer never contradicts flags it could have seen:
\* if no console change happened since it loaded the user, the contact is
\* neither blocked nor with an agent.
NoAnswerPastTheGate ==
    \A t \in Turn :
        /\ pc[t] \in {"machine", "deliver"} \/ (pc[t] = "commit" /\ outcome[t] # "none")
        /\ loadedAt[t] = epoch
        => ~blocked /\ ~paused

\* A swallowed IntegrityError is only ever a redelivery: the message it
\* silences has its row (conversation_service.py: "The customer is already
\* getting an answer from the turn that won").
SilencedIsRecorded ==
    \A m \in silenced : rows[m] = 1

\* Racing first messages of a new number open one conversation, not two:
\* until one has been closed there is at most one (user_repository.py: "the
\* unique index on phone is the real guard against duplicates").
FirstContactOpensOne ==
    (\A c \in ConvId : conv[c].status # "closed") => \A c, d \in OpenConvs : c = d

\* The contract of MessageLedger: a message's status is read off its
\* transcript rows and the answers sent; anything else is no status at all.
StatusFor(stored, answered) ==
    IF stored = 0 /\ answered = 0 THEN "new"
    ELSE IF stored = 1 /\ answered = 0 THEN "recorded"
    ELSE IF stored = 1 /\ answered = 1 THEN "answered"
    ELSE "broken"

LedgerStatus == [m \in Messages |-> StatusFor(rows[m], replies[m])]

Ledger == INSTANCE MessageLedger WITH status <- LedgerStatus,
                                      excused <- refused \union failed

\* For a contact the database knows, with inline processing, every step of
\* every turn is a step of the ledger or leaves it alone: no message is
\* recorded or answered twice, and none is acknowledged and then forgotten.
MeetsLedger == Ledger!Spec

\* Two turns never build on the same starting state: what a committed turn
\* put into the conversation is still there afterwards
\* (conversation_repository.py: the row lock exists so two messages "cannot
\* both advance the state machine from the same starting state").
NoAdvanceLost ==
    \A c \in ConvId : conv[c].applied \subseteq conv[c].ctx

\* Every message Meta posts and keeps redelivering - more often than turns
\* die - is settled in the end: recorded, refused, or its failure admitted.
\* In particular no set of waiting transactions waits for ever.
EveryMessageSettles ==
    \A m \in Messages :
        LET deliveries == {t \in Turn : Msg(t) = m}
        IN  Cardinality(deliveries) > MaxFaults =>
              ((\E t \in deliveries : pc[t] # "idle")
                 ~> (rows[m] = 1 \/ m \in refused \union failed))
=============================================================================
