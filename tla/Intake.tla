------------------------------- MODULE Intake -------------------------------
(***************************************************************************)
(* The edge of the service: POST /webhook (receive and _process of         *)
(* app/api/v1/webhook.py) from the rate limit to the 200, and what goes    *)
(* out through WhatsAppClient (app/services/whatsapp/client.py) behind the *)
(* allowlist.                                                              *)
(*                                                                         *)
(* The turn between them is TurnTransaction's, seen from here as what it   *)
(* ends in.  Meta delivers a payload as often as it likes.  A request is   *)
(* interrupted only where it awaits: for its body, and in the turns.       *)
(***************************************************************************)
EXTENDS RateLimiter

CONSTANTS
    Requests,       \* requests at once
    Payloads,       \* what Meta posts: [host, signed, readable, messages], a message
                    \* being [sender, whole, stamped, sent, replies]
    Verification,   \* "signed", "refused" (production without a secret) or "trusted"
    Listed,         \* the allowlist
    SourceLimit, SenderLimit,
    MaxAge,         \* age up to which messages are answered, 0 for any
    MaxTime, MaxDeliveries, MaxFaults   \* bounds

MaxAttempts == 3
Messages == UNION {ToSet(p.messages) : p \in Payloads}
Senders == {m.sender : m \in Messages}

\* Meta posts lists of messages, each with a time and a number of answers; a limiter lets one
\* event through and holds one key at least.
ASSUME IntakeAssumption ==
    /\ IsFiniteSet(Senders)
    /\ \A p \in Payloads : p.messages \in Seq(ToSet(p.messages))
    /\ \A m \in Messages : m.replies \in Nat /\ m.sent \in Int
    /\ \A l \in {SourceLimit, SenderLimit} :
        l.limit \in Nat \ {0} /\ l.window \in Nat /\ l.keys \in Nat \ {0}
    /\ MaxAge \in Int /\ MaxTime \in Nat

VARIABLES
    inline,      \* webhook_inline_processing
    time,
    sourceHits, senderHits,
    request,     \* [at, payload, queue, replies, attempt] of each request
    deliveries,
    rows,        \* messages recorded
    shown,       \* for each message the answers on the customer's phone, in order
    late,        \* sends given up here that WhatsApp may still carry out
    faults,
    accepted,    \* history: times at which a sender's messages were let through
    crowded,     \* history: more senders at once than the limiter has keys
    acked,       \* history: [payload, refused] answered with 200, refused being over budget
    handled,     \* history: messages whose turn came to an end
    cutOff,      \* history: a turn raised, or the process died
    unclear      \* history: messages with a send whose fate the service did not learn

envVars == <<inline, time, deliveries, faults>>
limitVars == <<sourceHits, senderHits, accepted, crowded>>
logVars == <<acked, handled, cutOff>>
outVars == <<shown, late, unclear>>
intakeVars == <<envVars, limitVars, request, rows, logVars, outVars>>

Idle == [at |-> "idle"]
Error == 0   \* the reply that says something went wrong

IntakeInit ==
    /\ inline \in BOOLEAN
    /\ time = 0 /\ faults = 0 /\ deliveries = 0
    /\ sourceHits = NoHits /\ senderHits = NoHits
    /\ request = [r \in Requests |-> Idle]
    /\ rows = {} /\ shown = [m \in Messages |-> <<>>] /\ late = {}
    /\ accepted = [s \in Senders |-> <<>>] /\ crowded = FALSE
    /\ acked = {} /\ handled = {} /\ cutOff = FALSE /\ unclear = {}

Elapse ==
    /\ time < MaxTime
    /\ time' = time + 1
    /\ accepted' = [s \in Senders |-> Live(SenderLimit, accepted[s], time')]
    /\ UNCHANGED <<inline, deliveries, faults, sourceHits, senderHits, crowded, request, rows, logVars, outVars>>

Fault == faults < MaxFaults /\ faults' = faults + 1

-----------------------------------------------------------------------------
(* receive, before and after it waits for the body. *)

\* Floods are shed before the body is read: a 429, which Meta repeats.
Post(r, p) ==
    LET source == Allow(SourceLimit, sourceHits, p.host, time)
    IN  /\ request[r] = Idle
        /\ deliveries < MaxDeliveries
        /\ deliveries' = deliveries + 1
        /\ sourceHits' = source.hits
        /\ request' = IF source.ok THEN [request EXCEPT ![r] = [at |-> "body", payload |-> p]] ELSE request
        /\ UNCHANGED <<inline, time, faults, senderHits, accepted, crowded, rows, logVars, outVars>>

Verified(p) ==
    \/ Verification = "signed" /\ p.signed
    \/ Verification = "trusted"

IsFresh(m) == MaxAge <= 0 \/ ~m.stamped \/ time - m.sent <= MaxAge
Allows(phone) == phone \in Listed

\* The places in the payload of messages with an id and a sender; and of those answered at all.
Parsed(p) == {i \in 1..Len(p.messages) : p.messages[i].whole}
Passed(p) == {i \in Parsed(p) : IsFresh(p.messages[i]) /\ Allows(p.messages[i].sender)}

\* A message spends its sender's budget, or is over it.
Spend(sofar, i, sender) ==
    LET verdict == Allow(SenderLimit, sofar.hits, sender, time)
    IN  [hits |-> verdict.hits,
         accepted |-> IF verdict.ok THEN [sofar.accepted EXCEPT ![sender] = Append(@, time)] ELSE sofar.accepted,
         refused |-> IF verdict.ok THEN sofar.refused ELSE sofar.refused \cup {i}]

\* In the order of the payload: what has been spent after each place in it.
Spending(p) ==
    LET spent[i \in 0..Len(p.messages)] ==
            IF i = 0 THEN [hits |-> senderHits, accepted |-> accepted, refused |-> {}]
            ELSE IF i \in Passed(p) THEN Spend(spent[i - 1], i, p.messages[i].sender)
            ELSE spent[i - 1]
    IN  spent

Accept(r) ==
    LET p == request[r].payload
        spent == Spending(p)[Len(p.messages)]
        queued == Passed(p) \ spent.refused
    IN  /\ request[r].at = "body"
        /\ IF Verified(p) /\ p.readable
           THEN /\ senderHits' = spent.hits
                /\ accepted' = spent.accepted
                /\ crowded' = (crowded \/ Cardinality({s \in Senders : accepted'[s] # <<>>}) > SenderLimit.keys)
                /\ request' = [request EXCEPT ![r] =
                       [at |-> "turns", payload |-> p, queue |-> queued, refused |-> spent.refused]]
                /\ acked' = IF inline THEN acked ELSE acked \cup {[payload |-> p, refused |-> spent.refused]}
           ELSE \* 403, or a 200 for what can never be read
                /\ request' = [request EXCEPT ![r] = Idle]
                /\ UNCHANGED <<senderHits, accepted, crowded, acked>>
        /\ UNCHANGED <<envVars, sourceHits, rows, handled, cutOff, outVars>>

-----------------------------------------------------------------------------
(* _process, one message after the other.  Requests hold the places of     *)
(* messages still to process, the answers still to send and the attempts   *)
(* at the first of them.                                                   *)

Message(r) == request[r].payload.messages[Min(request[r].queue)]
InStage(r, stage) == request[r].at = stage

\* What a 200 says of the request: the payload, and the messages of it that were over budget.
Receipt(r) == [payload |-> request[r].payload, refused |-> request[r].refused]

Sending(r, replies, raises) ==
    request' = [request EXCEPT ![r] = [at |-> "sending", payload |-> @.payload, queue |-> @.queue, refused |-> @.refused,
                                       replies |-> replies, attempt |-> 1, raises |-> raises]]

\* Mutant: what is on record is answered again.
TurnAgain(r) ==
    /\ InStage(r, "turns") /\ request[r].queue # {}
    /\ rows' = rows \cup {Message(r)} /\ Sending(r, [i \in 1..Message(r).replies |-> i], FALSE)
    /\ UNCHANGED <<envVars, limitVars, logVars, outVars>>

\* The read receipt, on which nothing depends, and then what TurnTransaction makes of it:
\* recorded, with the answers or, for a contact the bot is silent with, none; dropped as a
\* duplicate; failed, which is told and not recorded; or the database gone once the answers
\* are out.
Turn(r) ==
    LET m == Message(r)
        answers == [i \in 1..m.replies |-> i]
    IN  /\ InStage(r, "turns") /\ request[r].queue # {}
        /\ \/ m \in rows /\ Sending(r, <<>>, FALSE) /\ UNCHANGED <<rows, faults>>
           \/ m \notin rows /\ rows' = rows \cup {m} /\ Sending(r, answers, FALSE) /\ UNCHANGED faults
           \/ m \notin rows /\ rows' = rows \cup {m} /\ Sending(r, answers, TRUE) /\ Fault
           \/ Fault /\ Sending(r, <<Error>>, FALSE) /\ UNCHANGED rows
        /\ UNCHANGED <<inline, time, deliveries, limitVars, logVars, outVars>>

Show(m, n) == shown' = [shown EXCEPT ![m] = Append(@, n)]

\* Given up or done, _deliver goes on with the next answer.
Sent(r) == request' = [request EXCEPT ![r].replies = Tail(@), ![r].attempt = 1]
SendFailed(r) ==
    IF request[r].attempt = MaxAttempts THEN Sent(r) ELSE request' = [request EXCEPT ![r].attempt = @ + 1]

\* One POST to Meta: it answers; or refuses, for now or, tried again all the same and as often,
\* for good; or nothing comes back of what was carried out or still may be.
Send(r) ==
    LET m == Message(r)
        n == Head(request[r].replies)
    IN  /\ InStage(r, "sending") /\ request[r].replies # <<>>
        /\ \/ ~Allows(m.sender) /\ Sent(r) /\ UNCHANGED <<outVars, faults>>
           \/ Allows(m.sender) /\ Show(m, n) /\ Sent(r) /\ UNCHANGED <<late, unclear, faults>>
           \/ Allows(m.sender) /\ Fault /\ (SendFailed(r) \/ Sent(r)) /\ UNCHANGED outVars
           \/ Allows(m.sender) /\ Fault /\ SendFailed(r) /\ unclear' = unclear \cup {m}
              /\ \/ Show(m, n) /\ UNCHANGED late
                 \/ late' = late \cup {<<m, n, request[r].attempt>>} /\ UNCHANGED shown
        /\ UNCHANGED <<inline, time, deliveries, limitVars, rows, logVars>>

Land(send) ==
    /\ late' = late \ {send}
    /\ Show(send[1], send[2])
    /\ UNCHANGED <<envVars, limitVars, request, rows, logVars, unclear>>

\* Mutant: the 200 goes out whatever the turn ended in.
EndTurnAcked(r) ==
    /\ InStage(r, "sending") /\ request[r].replies = <<>>
    /\ handled' = handled \cup {Message(r)}
    /\ cutOff' = (cutOff \/ request[r].raises)
    /\ request' = IF request[r].raises THEN [request EXCEPT ![r] = Idle]
                  ELSE [request EXCEPT ![r] = [at |-> "turns", payload |-> @.payload, queue |-> @.queue \ {Min(@.queue)}, refused |-> @.refused]]
    /\ acked' = IF request[r].raises THEN acked \cup {Receipt(r)} ELSE acked
    /\ UNCHANGED <<envVars, limitVars, rows, outVars>>

\* A turn that raises ends the request: a 500 inline, the tasks after it dropped otherwise.
EndTurn(r) ==
    /\ InStage(r, "sending") /\ request[r].replies = <<>>
    /\ handled' = handled \cup {Message(r)}
    /\ cutOff' = (cutOff \/ request[r].raises)
    /\ request' = IF request[r].raises THEN [request EXCEPT ![r] = Idle]
                  ELSE [request EXCEPT ![r] = [at |-> "turns", payload |-> @.payload, queue |-> @.queue \ {Min(@.queue)}, refused |-> @.refused]]
    /\ UNCHANGED <<envVars, limitVars, rows, acked, outVars>>

Finish(r) ==
    /\ InStage(r, "turns") /\ request[r].queue = {}
    /\ acked' = acked \cup {Receipt(r)}
    /\ request' = [request EXCEPT ![r] = Idle]
    /\ UNCHANGED <<envVars, limitVars, rows, handled, cutOff, outVars>>

\* The limits live in the process.
Crash ==
    /\ Fault
    /\ request' = [r \in Requests |-> Idle]
    /\ sourceHits' = NoHits /\ senderHits' = NoHits
    /\ accepted' = [s \in Senders |-> <<>>] /\ crowded' = FALSE
    /\ cutOff' = TRUE
    /\ UNCHANGED <<inline, time, deliveries, rows, acked, handled, outVars>>

IntakeNext ==
    \/ Elapse \/ Crash
    \/ \E r \in Requests, p \in Payloads : Post(r, p)
    \/ \E r \in Requests : Accept(r) \/ Turn(r) \/ Send(r) \/ EndTurn(r) \/ Finish(r)
    \/ \E send \in late : Land(send)

IntakeSpec == IntakeInit /\ [][IntakeNext]_intakeVars

-----------------------------------------------------------------------------
(* Properties. *)

Stages == {"idle", "body", "turns", "sending"}

IntakeTypeOK ==
    /\ time \in 0..MaxTime
    /\ \A r \in Requests : request[r].at \in Stages
    /\ \A hits \in {sourceHits, senderHits} : \A key \in DOMAIN hits : \A i \in 1..Len(hits[key]) : hits[key][i] \in 0..time
    /\ Cardinality(DOMAIN senderHits) <= SenderLimit.keys
    /\ Cardinality(DOMAIN sourceHits) <= SourceLimit.keys
    /\ rows \subseteq Messages /\ handled \subseteq Messages

\* The budget the limiter believes a sender has left is what the messages let through in the
\* last window leave of it, the one exactly a window ago included, so that nobody gets more and
\* nobody is dropped for less; forgetting a sender, when there are too many at once, can only
\* give more.  allow() and remaining() agree.
BudgetKept ==
    \A s \in Senders :
        LET through == Len(Live(SenderLimit, accepted[s], time))
            left == Remaining(SenderLimit, senderHits, s, time)
        IN  /\ ~crowded => left + through = SenderLimit.limit
            /\ left + through >= SenderLimit.limit
            /\ Allow(SenderLimit, senderHits, s, time).ok <=> left > 0

\* The message is among those the request has not ended the turn of.
Waits(r, m) ==
    /\ request[r].at \in {"turns", "sending"}
    /\ \E i \in request[r].queue : request[r].payload.messages[i] = m

\* Every message of a payload Meta was told it may forget has been through its turn, unless it
\* is too old, of a number not listed or over its sender's budget; only where the 200 goes out
\* before the turns may it still wait, and be lost when a turn before it raises or the process dies.
AcknowledgedIsHandled ==
    \A answer \in acked : \A i \in Parsed(answer.payload) :
        LET m == answer.payload.messages[i]
        IN  \/ m \in handled
            \/ ~IsFresh(m) \/ ~Allows(m.sender) \/ i \in answer.refused
            \/ ~inline /\ (cutOff \/ \E r \in Requests : Waits(r, m))

\* However often a message is delivered and a send repeated, its answers are on the phone in
\* order and once each, as far as the service learned what became of them; in no case without
\* the message being on record, more often than the client tries, or on a number not listed.
ShownOnceInOrder ==
    \A m \in Messages :
        LET answers == {i \in 1..Len(shown[m]) : shown[m][i] # Error}
        IN  /\ m \notin unclear => \A i, j \in answers : i < j => shown[m][i] < shown[m][j]
            /\ answers # {} => m \in rows /\ Allows(m.sender)
            /\ \A n \in 1..m.replies : Cardinality({i \in answers : shown[m][i] = n}) <= MaxAttempts
=============================================================================
