---------------------------- MODULE AgentConsole ----------------------------
(***************************************************************************)
(* One tab of the agent console (frontend/src/components/Inbox.tsx with    *)
(* its toggles of lib/handover.ts and its socket of lib/useLiveUpdates.ts) *)
(* against the endpoints of app/api/v1/console.py and the live updates of  *)
(* app/core/events.py, while customers write and other agents work.        *)
(*                                                                         *)
(* Every request is in flight between two steps, answers come in any       *)
(* order, and a click takes effect on the screen before the server hears   *)
(* of it.                                                                  *)
(***************************************************************************)
EXTENDS Integers, FiniteSets, SequencesExt

CONSTANTS
    Phones, NoOne,
    QueueSize,      \* signals kept for a listener
    Elsewhere,      \* the fields other agents change
    Opened,         \* the contact the agent has taken over and has open at first
    MaxThreadReads, MaxListReads,   \* bounds: fetches in flight
    MaxEvents,      \* acts of the agent, of customers and of other agents
    MaxOpens,       \* of which threads opened
    MaxFaults

Toggles == {"bot_paused", "blocked"}
Fields == Toggles \cup {"payment_pending", "pinned", "alias"}

ASSUME ConsoleAssumption ==
    /\ NoOne \notin Phones /\ Opened \in Phones
    /\ Elsewhere \subseteq Fields
    /\ QueueSize \in Nat \ {0}

\* What the endpoints signal to the open consoles; handovers, pins and names they do not.
Published == {"blocked", "payment_pending", "message"}

VARIABLES
    contact,     \* the server's [value, at] of each field of a contact; at counts its changes
    log,         \* message rows by id: [phone, by, stage]
    queue,       \* the signals waiting for this tab
    current,     \* the open thread
    toggle,      \* the reducers: [pending, shown, was, epoch], shown and was being [value, at]
    header,      \* payment_pending and alias of the open thread
    rows,        \* the list
    cache,       \* of each contact [messages, seen, lastId]; a message of the agent's not
                 \* yet confirmed has the id -n
    fetching,
    reads,       \* fetches of threads and of the list in flight
    posts,       \* changes and messages of this agent in flight
    events, faults,
    opens,       \* history: threads opened
    tangled,     \* history: fetches of a thread overlapped, or a click was answered after its thread was left
    overtaken,   \* history: messages that an id ahead of them got past
    unfetched    \* history: a change of the console's is published that no list has been read after

serverVars == <<contact, log>>
paneVars == <<current, toggle, header>>
historyVars == <<opens, tangled, overtaken, unfetched>>
boundVars == <<events, faults>>
consoleVars == <<serverVars, queue, paneVars, rows, cache, fetching, reads, posts, boundVars, historyVars>>

Value(v, at) == [value |-> v, at |-> at]
Unserved == [served |-> FALSE]
Settled(v, epoch) == [pending |-> FALSE, shown |-> v, was |-> v, epoch |-> epoch]

Init ==
    /\ contact = [p \in Phones |-> [f \in Fields |->
           Value(f = "payment_pending" \/ (f = "bot_paused" /\ p = Opened), 0)]]
    /\ log = <<>>
    /\ queue = <<>>
    /\ current = Opened
    /\ toggle = [f \in Toggles |-> Settled(contact[Opened][f], 0)]
    /\ header = [payment_pending |-> TRUE, alias |-> FALSE]
    /\ rows = contact
    /\ cache = [p \in Phones |-> [messages |-> <<>>, seen |-> {}, lastId |-> 0]]
    /\ fetching = FALSE
    /\ reads = {} /\ posts = {}
    /\ events = 0 /\ faults = 0
    /\ opens = 0 /\ tangled = FALSE /\ overtaken = {} /\ unfetched = FALSE

Event == events < MaxEvents /\ events' = events + 1
Fault == faults < MaxFaults /\ faults' = faults + 1

-----------------------------------------------------------------------------
(* handoverReducer: one per toggle. *)

Click(t) == [pending |-> TRUE, shown |-> [t.shown EXCEPT !.value = ~@], was |-> t.shown, epoch |-> t.epoch + 1]
\* Confirmed, and reset when a thread is opened.
Confirmed(t, v) == Settled(v, t.epoch + 1)
Failed(t) == Settled(t.was, t.epoch + 1)

\* Mutant: only a click under way keeps the server out.
ObservedAnyway(t, v, epoch) == IF t.pending THEN t ELSE Settled(v, t.epoch)

Observed(t, v, epoch) == IF t.pending \/ epoch < t.epoch THEN t ELSE Settled(v, t.epoch)

-----------------------------------------------------------------------------
(* The live updates. *)

\* Mutant: the buffer has no limit.
SignalledAll(q, p) == Append(q, p)

\* Never waits: a listener that does not keep up loses its oldest signal.
Signalled(q, p) == Append(IF Len(q) = QueueSize THEN Tail(q) ELSE q, p)
Publish(p) == queue' = Signalled(queue, p)

\* The socket drops and connects again: what was signalled before is lost.
Reconnect ==
    /\ queue # <<>> /\ Fault
    /\ queue' = <<>> /\ unfetched' = FALSE
    /\ UNCHANGED <<serverVars, paneVars, rows, cache, fetching, reads, posts, events, opens, tangled, overtaken>>

-----------------------------------------------------------------------------
(* What the tab fetches. *)

OfKind(kind) == {r \in reads : r.kind = kind}
\* The list is read when it is asked for: nothing of the tab's goes into the request.
ListRead == [kind |-> "list", data |-> [served |-> TRUE, contacts |-> contact]]
ThreadRead(p, full, epochs) ==
    [kind |-> "thread", phone |-> p, full |-> full, after |-> IF full THEN 0 ELSE cache[p].lastId,
     epochs |-> epochs, data |-> Unserved]
Epochs == [f \in Toggles |-> toggle[f].epoch]
HasRoom(kind) == Cardinality(OfKind(kind)) < IF kind = "list" THEN MaxListReads ELSE MaxThreadReads

\* refresh(current, false) gives way to a fetch under way.
Refreshes == current # NoOne /\ ~fetching
Refresh ==
    /\ HasRoom("thread")
    /\ fetching' = TRUE
    /\ tangled' = (tangled \/ OfKind("thread") # {})

Poll ==
    /\ Refreshes /\ Refresh
    /\ reads' = reads \cup {ThreadRead(current, FALSE, Epochs)}
    /\ UNCHANGED <<serverVars, queue, paneVars, rows, cache, posts, boundVars, opens, overtaken, unfetched>>

LoadConversations ==
    /\ HasRoom("list")
    /\ reads' = reads \cup {ListRead}
    /\ unfetched' = FALSE
    /\ UNCHANGED <<serverVars, queue, paneVars, rows, cache, fetching, posts, boundVars, opens, tangled, overtaken>>

\* Mutant: only a signal for the thread open has the list loaded.
ActivityInThread ==
    LET now == Head(queue) = current /\ Refreshes
    IN  /\ queue # <<>> /\ HasRoom("list")
        /\ queue' = Tail(queue)
        /\ IF now THEN Refresh /\ unfetched' = FALSE ELSE UNCHANGED <<fetching, tangled, unfetched>>
        /\ reads' = reads \cup IF now THEN {ListRead, ThreadRead(current, FALSE, Epochs)} ELSE {}
        /\ UNCHANGED <<serverVars, paneVars, rows, cache, posts, boundVars, opens, overtaken>>

\* A signal has the list loaded, and the thread if it is the one open.
Activity ==
    LET now == Head(queue) = current /\ Refreshes
    IN  /\ queue # <<>> /\ HasRoom("list")
        /\ queue' = Tail(queue)
        /\ unfetched' = FALSE
        /\ IF now THEN Refresh ELSE UNCHANGED <<fetching, tangled>>
        /\ reads' = reads \cup {ListRead} \cup IF now THEN {ThreadRead(current, FALSE, Epochs)} ELSE {}
        /\ UNCHANGED <<serverVars, paneVars, rows, cache, posts, boundVars, opens, overtaken>>

\* get_messages sees what is committed.
Serve(r) ==
    LET ids == {i \in 1..Len(log) : log[i].phone = r.phone /\ log[i].stage = "committed" /\ i > r.after}
        behind == {i \in 1..Len(log) : log[i].phone = r.phone /\ log[i].stage \notin {"committed", "gone"}
                                       /\ \E j \in ids : i < j}
        data == [served |-> TRUE, contact |-> contact[r.phone], ids |-> ids]
    IN  /\ ~r.data.served
        /\ reads' = (reads \ {r}) \cup {[r EXCEPT !.data = data]}
        /\ overtaken' = overtaken \cup behind
        /\ UNCHANGED <<serverVars, queue, paneVars, rows, cache, fetching, posts, boundVars, opens, tangled, unfetched>>

\* The messages of an answer come oldest first.
InOrder(ids) ==
    CHOOSE s \in [1..Cardinality(ids) -> ids] : \A i, j \in 1..Cardinality(ids) : i < j => s[i] < s[j]

\* Mutant: a full fetch forgets the messages and not that it has seen them.
MergedSeen(entry, r) ==
    LET old == IF r.full THEN [messages |-> <<>>, seen |-> entry.seen, lastId |-> 0] ELSE entry
        new == r.data.ids \ old.seen
    IN  [messages |-> old.messages \o InOrder(new), seen |-> old.seen \cup new, lastId |-> Max({old.lastId} \cup new)]

\* A full fetch starts the thread over; nothing already drawn is drawn again.
Merged(entry, r) ==
    LET old == IF r.full THEN [messages |-> <<>>, seen |-> {}, lastId |-> 0] ELSE entry
        new == r.data.ids \ old.seen
    IN  [messages |-> old.messages \o InOrder(new), seen |-> old.seen \cup new, lastId |-> Max({old.lastId} \cup new)]

LandThread(r) ==
    LET entry == cache[r.phone]
    IN  /\ r.kind = "thread" /\ r.data.served
        /\ reads' = reads \ {r}
        /\ fetching' = FALSE
        /\ IF r.phone = current
           THEN /\ cache' = [cache EXCEPT ![r.phone] = Merged(entry, r)]
                /\ toggle' = [f \in Toggles |-> Observed(toggle[f], r.data.contact[f], r.epochs[f])]
                /\ header' = [f \in DOMAIN header |-> r.data.contact[f].value]
                /\ overtaken' = IF r.full THEN overtaken ELSE overtaken \cup entry.lastId + 1..r.after
           ELSE UNCHANGED <<cache, toggle, header, overtaken>>
        /\ UNCHANGED <<serverVars, queue, current, rows, posts, boundVars, opens, tangled, unfetched>>

LandList(r) ==
    /\ r.kind = "list" /\ r.data.served
    /\ reads' = reads \ {r}
    /\ rows' = r.data.contacts
    /\ UNCHANGED <<serverVars, queue, paneVars, cache, fetching, posts, boundVars, historyVars>>

\* Mutant: the flag is lowered where the answer is taken.
ReadFailsHeld(r) ==
    /\ r.data.served /\ Fault
    /\ reads' = reads \ {r}
    /\ UNCHANGED <<serverVars, queue, paneVars, rows, cache, fetching, posts, events, historyVars>>

ReadFails(r) ==
    /\ r.data.served /\ Fault
    /\ reads' = reads \ {r}
    /\ fetching' = (fetching /\ r.kind # "thread")
    /\ UNCHANGED <<serverVars, queue, paneVars, rows, cache, posts, events, historyVars>>

-----------------------------------------------------------------------------
(* What the agent does. *)

\* The epochs are read before the reset is rendered.
Open(p) ==
    /\ Event /\ opens < MaxOpens /\ HasRoom("thread")
    /\ opens' = opens + 1
    /\ current' = p
    /\ toggle' = [f \in Toggles |-> Confirmed(toggle[f], rows[p][f])]
    /\ header' = [f \in DOMAIN header |-> rows[p][f].value]
    /\ fetching' = TRUE
    /\ reads' = reads \cup {ThreadRead(p, TRUE, Epochs)}
    /\ UNCHANGED <<serverVars, queue, rows, cache, posts, faults, tangled, overtaken, unfetched>>

Close ==
    /\ current # NoOne /\ Event
    /\ current' = NoOne
    /\ UNCHANGED <<serverVars, queue, toggle, header, rows, cache, fetching, reads, posts, faults, historyVars>>

Post(field, p, want) ==
    posts' = posts \cup {[n |-> events', field |-> field, phone |-> p, want |-> want, opening |-> opens, stage |-> "sent"]}
RowShows(p, f, value) == rows' = [rows EXCEPT ![p][f].value = value]
Acts == Event /\ UNCHANGED <<serverVars, queue, current, fetching, reads, faults, historyVars>>

\* toggleHandover, whose button is not there for a blocked contact, and toggleBlock.
PressToggle(f) ==
    LET want == ~toggle[f].shown.value
    IN  /\ current # NoOne /\ ~toggle[f].pending
        /\ f = "bot_paused" => ~toggle["blocked"].shown.value
        /\ Acts /\ Post(f, current, want)
        /\ toggle' = [toggle EXCEPT ![f] = Click(@)]
        /\ RowShows(current, f, want)
        /\ UNCHANGED <<header, cache>>

TogglePin(p) ==
    LET want == ~rows[p]["pinned"].value
    IN  /\ Acts /\ Post("pinned", p, want)
        /\ RowShows(p, "pinned", want)
        /\ UNCHANGED <<toggle, header, cache>>

SaveRename(p) ==
    /\ Acts /\ Post("alias", p, ~rows[p]["alias"].value)
    /\ UNCHANGED <<toggle, header, rows, cache>>

ClearPayment ==
    /\ current # NoOne /\ header.payment_pending
    /\ Acts /\ Post("payment_pending", current, FALSE)
    /\ header' = [header EXCEPT !.payment_pending = FALSE]
    /\ RowShows(current, "payment_pending", FALSE)
    /\ UNCHANGED <<toggle, cache>>

Send ==
    /\ current # NoOne /\ toggle["bot_paused"].shown.value /\ ~toggle["blocked"].shown.value
    /\ Acts /\ Post("message", current, TRUE)
    /\ cache' = [cache EXCEPT ![current].messages = Append(@, -events')]
    /\ UNCHANGED <<toggle, header, rows>>

-----------------------------------------------------------------------------
(* The endpoints. *)

Now(q, then) == posts' = (posts \ {q}) \cup {then}
To(q, stage) == [q EXCEPT !.stage = stage]
WithResult(q, v) == [x \in DOMAIN q \cup {"result"} |-> IF x = "result" THEN v ELSE q[x]]
\* A message goes out only where a human has the conversation.
Refuses(q) ==
    LET c == contact[q.phone]
    IN  \/ q.field = "bot_paused" /\ c["blocked"].value
        \/ q.field = "message" /\ (c["blocked"].value \/ ~c["bot_paused"].value)
Changes(p, f, value) ==
    contact' = [contact EXCEPT ![p][f] = Value(value, @.at + 1)]
ServerStep == UNCHANGED <<paneVars, rows, cache, fetching, reads, opens, tangled, overtaken>>

Refuse(q) ==
    /\ q.stage = "sent" /\ Refuses(q)
    /\ Now(q, To(q, "refused"))
    /\ ServerStep /\ UNCHANGED <<serverVars, queue, boundVars, unfetched>>

\* set_handover, set_blocked, set_pinned, rename_contact, clear_payment_flag, to their commit.
Commit(q) ==
    LET next == IF q.field \in Published THEN "committed" ELSE "answered"
    IN  /\ q.stage = "sent" /\ q.field \in Fields /\ ~Refuses(q)
        /\ Changes(q.phone, q.field, q.want)
        /\ Now(q, WithResult(To(q, next), contact'[q.phone][q.field]))
        /\ unfetched' = (unfetched \/ q.field \in Published)
        /\ ServerStep /\ UNCHANGED <<log, queue, boundVars>>

\* send_message: to WhatsApp, and then the row, which has its id before it is committed.
InsertMessage(q) ==
    /\ q.stage = "sent" /\ q.field = "message" /\ ~Refuses(q)
    /\ log' = Append(log, [phone |-> q.phone, by |-> "agent", stage |-> "inserted"])
    /\ Now(q, WithResult(To(q, "inserted"), Len(log')))
    /\ ServerStep /\ UNCHANGED <<contact, queue, boundVars, unfetched>>

CommitMessage(q) ==
    /\ q.stage = "inserted" /\ Now(q, To(q, "committed"))
    /\ log' = [log EXCEPT ![q.result].stage = "committed"]
    /\ unfetched' = TRUE
    /\ ServerStep /\ UNCHANGED <<contact, queue, boundVars>>

\* Only then the consoles are told, and the answer sent.
Respond(q) ==
    /\ q.stage = "committed" /\ Now(q, To(q, "answered"))
    /\ Publish(q.phone)
    /\ ServerStep /\ UNCHANGED <<serverVars, boundVars, unfetched>>

\* The request does not get there, or its answer does not get back; or WhatsApp refuses it.
Lose(q) ==
    /\ q.stage \in {"sent", "answered"} /\ Fault
    /\ Now(q, To(q, "refused"))
    /\ ServerStep /\ UNCHANGED <<serverVars, queue, events, unfetched>>

\* Another agent, or the bot handing over or asking for a person.
OtherAgent(p, f) ==
    /\ Event
    /\ f = "bot_paused" => ~contact[p]["blocked"].value
    /\ Changes(p, f, ~contact[p][f].value)
    /\ IF f \in Published THEN Publish(p) ELSE UNCHANGED queue
    /\ unfetched' = (unfetched \/ f \in Published)
    /\ ServerStep /\ UNCHANGED <<log, posts, faults>>

\* A turn of a customer: the row gets its id, the signal goes out, and then the commit.
TurnInserts(p) ==
    /\ Event
    /\ ~contact[p]["blocked"].value
    /\ log' = Append(log, [phone |-> p, by |-> "turn", stage |-> "inserted"])
    /\ ServerStep /\ UNCHANGED <<contact, queue, posts, faults, unfetched>>

TurnPublishes(i) ==
    /\ log[i].by = "turn" /\ log[i].stage = "inserted"
    /\ log' = [log EXCEPT ![i].stage = "published"]
    /\ Publish(log[i].phone)
    /\ ServerStep /\ UNCHANGED <<contact, posts, boundVars, unfetched>>

TurnEnds(i) ==
    /\ log[i].by = "turn" /\ log[i].stage = "published"
    /\ \/ log' = [log EXCEPT ![i].stage = "committed"] /\ UNCHANGED faults
       \/ Fault /\ log' = [log EXCEPT ![i].stage = "gone"]
    /\ ServerStep /\ UNCHANGED <<contact, queue, posts, events, unfetched>>

-----------------------------------------------------------------------------
(* The answers.  They go to what is on the screen by then. *)

Handled(q) ==
    /\ posts' = posts \ {q}
    /\ tangled' = (tangled \/ (q.field \in Toggles /\ q.opening # opens))
    /\ UNCHANGED <<serverVars, queue, current, fetching, boundVars, opens>>
\* Pinning and sending have the list loaded.
Reloads(q) ==
    IF q.field \in {"pinned", "message"}
    THEN HasRoom("list") /\ reads' = reads \cup {ListRead} /\ unfetched' = FALSE
    ELSE UNCHANGED <<reads, unfetched>>

\* A message of the agent's takes its id, where it stands, and the next fetch starts after it.
Sent(entry, q) ==
    [messages |-> [i \in 1..Len(entry.messages) |-> IF entry.messages[i] = -q.n THEN q.result ELSE entry.messages[i]],
     seen |-> entry.seen \cup {q.result},
     lastId |-> Max({entry.lastId, q.result})]

Answered(q) ==
    /\ q.stage = "answered"
    /\ Handled(q) /\ Reloads(q)
    /\ toggle' = IF q.field \in Toggles THEN [toggle EXCEPT ![q.field] = Confirmed(@, q.result)] ELSE toggle
    /\ rows' = IF q.field \in Toggles \cup {"alias"} THEN [rows EXCEPT ![q.phone][q.field] = q.result] ELSE rows
    /\ header' = IF q.field = "alias" /\ current = q.phone THEN [header EXCEPT !.alias = q.want] ELSE header
    /\ IF q.field = "message"
       THEN /\ cache' = [cache EXCEPT ![q.phone] = Sent(@, q)]
            /\ overtaken' = overtaken \cup cache[q.phone].lastId + 1..q.result
       ELSE UNCHANGED <<cache, overtaken>>

\* Back to what it was before the click; a failed message stays, marked as such.
Rejected(q) ==
    /\ q.stage = "refused"
    /\ Handled(q)
    /\ toggle' = IF q.field \in Toggles THEN [toggle EXCEPT ![q.field] = Failed(@)] ELSE toggle
    /\ rows' = IF q.field \in Toggles \cup {"pinned", "payment_pending"}
               THEN [rows EXCEPT ![q.phone][q.field].value = ~q.want] ELSE rows
    /\ header' = IF q.field = "payment_pending" THEN [header EXCEPT !.payment_pending = TRUE] ELSE header
    /\ UNCHANGED <<cache, reads, overtaken, unfetched>>

-----------------------------------------------------------------------------
Next ==
    \/ Poll \/ LoadConversations \/ Activity \/ Reconnect
    \/ Close \/ ClearPayment \/ Send
    \/ \E f \in Toggles : PressToggle(f)
    \/ \E p \in Phones :
        \/ Open(p) \/ TogglePin(p) \/ SaveRename(p) \/ TurnInserts(p)
        \/ \E f \in Elsewhere : OtherAgent(p, f)
    \/ \E r \in reads : Serve(r) \/ LandThread(r) \/ LandList(r) \/ ReadFails(r)
    \/ \E q \in posts :
        \/ Refuse(q) \/ Commit(q) \/ InsertMessage(q) \/ CommitMessage(q) \/ Respond(q) \/ Lose(q)
        \/ Answered(q) \/ Rejected(q)
    \/ \E i \in 1..Len(log) : TurnPublishes(i) \/ TurnEnds(i)

Spec == Init /\ [][Next]_consoleVars

\* Timers go on firing, and requests and turns come to an end.
Fetching(kind) == \E r \in OfKind(kind) : Serve(r) \/ LandThread(r) \/ LandList(r)
Posting == \E q \in posts :
    \/ Refuse(q) \/ Commit(q) \/ InsertMessage(q) \/ CommitMessage(q) \/ Respond(q)
    \/ Answered(q) \/ Rejected(q)
Turning == \E i \in 1..Len(log) : TurnPublishes(i) \/ TurnEnds(i)
FairSpec ==
    /\ Spec
    /\ WF_consoleVars(Poll \/ Fetching("thread"))
    /\ WF_consoleVars(LoadConversations \/ Fetching("list"))
    /\ WF_consoleVars(Posting \/ Turning)

-----------------------------------------------------------------------------
(* Properties. *)

\* Types, the bound of the queue, and whatever the tab waits for is under way: the fetch that
\* polls stand back for, and the request of a click that keeps its button locked.
TypeOK ==
    /\ current \in Phones \cup {NoOne}
    /\ \A f \in Toggles : toggle[f].pending \in BOOLEAN /\ toggle[f].epoch \in Nat
    /\ \A p \in Phones : cache[p].lastId \in 0..Len(log) /\ cache[p].seen \subseteq 1..Len(log)
    /\ Len(queue) <= QueueSize
    /\ fetching => OfKind("thread") # {}
    /\ \A f \in Toggles : toggle[f].pending => \E q \in posts : q.field = f

\* While a thread stays open its two buttons never go back to a state of the server's older than
\* one they have shown, whatever clicks, late answers and other agents do in between.  Two ways
\* of going back are left: fetches of the thread that overlapped, and the answer to a click made
\* before the thread was left.
NoFlipBack ==
    [][(opens' = opens /\ ~tangled') => \A f \in Toggles : toggle'[f].shown.at >= toggle[f].shown.at]_consoleVars

\* The places in the thread of what customers wrote.
Theirs(p) ==
    LET ids == cache[p].messages
    IN  {i \in 1..Len(ids) : ids[i] > 0 /\ log[ids[i]].by = "turn"}
Drawn(p) == {cache[p].messages[i] : i \in Theirs(p)}

\* What customers wrote, up to the last message known of, is in the thread: once, in order, and
\* nothing missing.  Only what had its id and was not yet committed, or not yet fetched, when a
\* later message got in may be missing, or come in after it.
TranscriptFaithful ==
    \A p \in Phones :
        LET ids == cache[p].messages
        IN  /\ \A i, j \in Theirs(p) : i < j => ids[i] < ids[j] \/ (ids[j] < ids[i] /\ ids[j] \in overtaken)
            /\ \A i \in 1..Len(log) :
                (/\ log[i].phone = p /\ log[i].by = "turn" /\ log[i].stage = "committed"
                 /\ i \in cache[p].seen \cup 1..cache[p].lastId /\ i \notin overtaken)
                => i \in Drawn(p)

\* A block, a payment cleared or a message sent on a console has every listening console load a
\* list that shows it, also one whose queue overflowed: as long as none has been read, a signal
\* waits or is still to come.
SignalledIsFetched ==
    unfetched => queue # <<>> \/ \E q \in posts : q.stage = "committed"

PaneAgrees ==
    /\ \A f \in Toggles : ~toggle[f].pending /\ toggle[f].shown.value = contact[current][f].value
    /\ \A f \in DOMAIN header : header[f] = contact[current][f].value
    /\ \A i \in 1..Len(log) :
        (/\ log[i].phone = current /\ log[i].by = "turn" /\ log[i].stage = "committed"
         /\ i \notin overtaken)
        => i \in Drawn(current)
Agrees == rows = contact /\ (current # NoOne => PaneAgrees)

\* Once customers and agents rest, the console comes to show what the server has, for good:
\* buttons, list and thread, whatever was lost or came late.
Converges == <>[]Agrees
=============================================================================
