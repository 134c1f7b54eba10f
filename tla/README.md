# Verification of the iScale WhatsApp bot

TLA+ models of the parts of this repository where order matters: what happens
to a WhatsApp message while Meta redelivers it, the instance dies and an agent
uses the console; what taps and texts do to a conversation and its bookings; how
a booked call reaches the counselors' spreadsheet; how a quiet customer is
reminded; what the edge of the service lets in and sends out; which times a call
can be booked for; what a question is answered from; and what an agent sees on
the console while everything changes under it. TLC checks the models on small
instances; TLAPS proves the safety properties for every instance.

All paths below are relative to `src/`. `PROJECT.json` maps every definition to
the lines it models and lists the runs, the mutants and the hazards.

## Running it

    tlasany TurnTransaction.tla
    tlc -config TurnSafety.cfg MCTurn.tla
    tlapm TurnTransactionProofs.tla    (and the other *Proofs.tla)

## 1. Inventory

The program is a FastAPI service (`app/`), one PostgreSQL database, a small
React console (`frontend/`), and three outside services: Meta's WhatsApp Cloud
API, Google Sheets, and a language model.

| Part | State | Operations | Talks to |
|---|---|---|---|
| Webhook (`api/v1/webhook.py`, `whatsapp/parser.py`) | none of its own; the rate limiter's windows | accept, discard (stale, over budget), run the turn inline or after the 200 | Inbound turn |
| Inbound turn (`services/conversation_service.py`, repositories) | `users`, `conversations`, `messages`, `leads` | one transaction per message; replies after the commit; then the lead push | flow, WhatsApp client, lead delivery |
| Conversation flow (`bot/`) | `conversations.state` and the JSON `context` | one handler per state, taps, free text, booking and moving a call | language model, callback time |
| Callback time (`services/scheduling/`) | none | parse and validate a slot | flow |
| Lead delivery (`services/lead_service.py`, `services/crm/`) | `leads.sync_status`, the sheet | push after a turn, `sync-pending`, upsert of a row | Google Sheets |
| Inactivity sweeper (`services/inactivity.py`) | `inactivity_stage`, `inactivity_at` in the context | one pass: select, check, send, commit | WhatsApp client, transcript |
| Console API (`api/v1/console.py`) | `users.bot_paused`, `blocked`, names, pins, payments | handover, block, send, thread and list reads | turns, sweeps, frontend |
| Live updates (`core/events.py`) | a bounded queue per listener | publish, subscribe | console stream |
| Rate limiter (`core/ratelimit.py`) | hit times per key | allow, remaining, evict | webhook, console login |
| WhatsApp client (`services/whatsapp/`) | none | send with retries, allowlist | Meta |
| Agent console (`frontend/src`) | the open thread, the toggles, the list | poll, click, send, switch contact | console API |
| Language model and knowledge (`services/llm/`, `services/knowledge/`) | the files loaded at startup, their index | load, match a course, retrieve, guard, call the provider | flow |
| Configuration, wiring, scripts, evals, migrations | settings | - | everything |

### What is hard, and what makes each part correct

* **Inbound turn.** One message may be processed by several requests at once
  (Meta redelivers while the first attempt runs), several messages of one
  contact overlap, and the session holds what it loaded *before* it got the row
  lock (`autoflush=False`, `expire_on_commit=False`, selectin relationships).
  Correct means: recorded and answered at most once; nothing acknowledged and
  then forgotten; closed conversations untouched; gates respected; no deadlock
  between user rows, conversation rows and unique keys.
* **Lead delivery.** Read, scan, write and mark are separate, unlocked steps.
  Correct means: `SYNCED` implies a row; one row per lead; the row shows the
  current time; everything is delivered in the end.
* **Sweeper.** One commit after up to 200 sends. Correct means: nobody is
  chased more than twice per silence, nor too soon, nor after a goodbye, a block
  or a handover; nothing captured is lost. Two things stand in the way of it: the
  context is written whole by sweeps and turns alike, and a call that raised may
  have been delivered.
* **Flow.** Every old button can be tapped in any state. Correct means: a lead
  is created only when it is complete, a move never becomes a second lead, a
  detour resumes where it left off.
* **Frontend.** Polls, clicks and late answers write the same toggle; the
  thread is fetched by "everything after this id", signals are published before
  the commit they are about, and a slow listener loses signals. Correct means:
  what was shown is not flipped back, no message stays invisible, and once
  everybody rests the screen shows what the server has.
* **Edge.** A payload holds several messages and is delivered again as a whole;
  the budgets of host and sender, the filters and the 200 come in an order that
  matters; a send whose answer is lost is repeated. Correct means: exact budgets,
  nothing acknowledged and not processed, answers in order and once.
* **Callback time and knowledge.** Pure algorithms with many cases: which date
  and time a text means, which snippets fit into the prompt. Correct means: only
  slots the office can keep, the soonest one, and a prompt that is never empty.

`PROJECT.json` lists these hazards line by line, each with the properties that
watch it, or the reason why none does.

## 2. Modules

| Module | Models | Runs |
|---|---|---|
| `TurnTransaction` | webhook, turn, console flags, faults | `turn_*` |
| `MessageLedger` | what the webhook promises about a message (abstract) | property `MeetsLedger` of `turn_safety` |
| `TurnTransactionProofs` | theorems about `TurnTransaction` | - |
| `LeadSync` | lead creation, moves, pushes, retry, sheet | `lead_*` |
| `InactivitySweep` | sweeps against turns and console | `sweep_*` |
| `BotFlow` | the conversation state machine, its forms and bookings | `flow_*` |
| `RateLimiter` | the sliding window, as operators on its state | used by `Intake` |
| `Intake` | webhook requests from the limits to the 200, sends behind the allowlist | `services` |
| `CallbackTime` | the parser and validator of callback times, and the date kept for the next message | `services` |
| `Knowledge` | loading, course matching, retrieval, as operators | used by `Answering` |
| `Answering` | a question: scope, guard, prompt, attempts at the provider, what comes of it | `services` |
| `Services` | callback times, answering and intake beside each other | `services` |
| `AgentConsole` | a console tab, the endpoints and signals it uses, customers and other agents | `console` |
| `LeadSyncProofs`, `InactivitySweepProofs`, `BotFlowProofs`, `IntakeProofs`, `CallbackTimeProofs`, `AnsweringProofs`, `AgentConsoleProofs` | theorems about the module of that name (`AnsweringProofs`: about `Services` too) | - |
| `MCTurn`, `MCLeadSync`, `MCSweep`, `MCFlow`, `MCServices`, `MCConsole` | the small instances for TLC | |

### TurnTransaction

One contact, because every row a turn touches hangs off its own `users` row. A
step is one SQL statement, or the Python between two of them. `pc[t]` says at
which statement turn `t` is; `sawPaused`, `snap`, `cand`, `held`, `ctx`,
`outcome` are what its session remembers; `known`, `blocked`, `paused`, `conv`,
`rows` are committed rows. A transcript row and a new `users` row are claimed by
being in a phase (`Claimed`, `InsertingUser`): that is what PostgreSQL's unique
indexes make other transactions wait for.

| Action | Code |
|---|---|
| `Receive`, `Discard`, `Respond` | `webhook.py`: accept, filter, answer 200 (inline or deferred) |
| `ExistsWaMessage` | the up-front duplicate check |
| `LoadUser` | `get_by_phone` and the block gate; loads all the user's conversations |
| `AddUser` | first contact, with the unique phone |
| `FindActive`, `LockActive`, `CreateConversation` | `get_active ... FOR UPDATE`, re-checked on the version finally locked |
| `StoreMessage` | the transcript insert with its unique key, then the handover gate |
| `HandleTurn` | the machine: it answers, advances, or books (which closes) |
| `Commit` | the `UPDATE` of the columns that changed; `context` is one column |
| `Deliver`, `SyncLead` | replies and lead push, after the commit |
| `FailTurn`, `SendError`, `KillTurn` | an exception, its apology, a dead process |
| `SetHandover`, `SetBlocked` | the console |

The subtle part is `LockActive`: the conversation that came with the user stays
in the session's identity map, so the locking query returns the *old* attributes
of a row it has just locked. A conversation the session had not seen is read
fresh.

### LeadSync

`sheet[l]` is the list of the rows of lead `l`. A push (`LoadRecord`, `FindRow`,
`WriteRow`, `Mark`) is what a turn starts (`SyncAfterTurn`) and what
`POST /leads/sync-pending` does one lead after another (`RetryPending`). `Mark`
and `Reschedule` write `sync_status` only when it differs from the value loaded,
as SQLAlchemy does. Failures are of four kinds: the scan fails (and counts as
"no row"), the write fails before or after taking effect, the database fails
(outside the service's `try`), the process dies.

### InactivitySweep

One conversation; other conversations only delay a sweep, and time may pass
between any two of its steps. `context = <<stage, at, data>>` is the JSON column
that turns and sweeps both write whole. `turn` are the turns under way, each with
the context it loaded, which is before the row lock orders them. `standing` tells
conversations that go on from finished ones (active, but never chased, until a turn
takes them up again) and closed ones. A sweep may die after its message went
out: then nothing of the pass is recorded. `Send` is the WhatsApp call with its
three attempts, of which any that timed out may have delivered: it may return with
nothing sent (a number not listed) or more than one copy, and it may raise with
copies sent, after which the stage stays as it is. The ghost `repeats` counts what
went out without the sweeper learning of it; `silence` counts everything.

### BotFlow

One contact, one message at a time. `conv` is the row of the active conversation
with its context; a booking closes it, and the next message finds `Fresh`.
`leads` are the bookings. A message is a tap - the id of any button ever sent, in
any state, with what its title reads like as text - or a typed text. Of a text
the model keeps what the intent tests (`means`), the slot patterns (`gives`) and
the course matcher (`about`) find in it.

| Action | Code |
|---|---|
| `OfferReply`, `Navigate` | `handle_offer_reply`, `_tapped_navigation`: before everything else |
| `MenuCommand` ... `HumanCommand` | `_global_command`, in its order, never in a form |
| `Image` | `_handle_media` |
| one action per handler | `handlers/*.py`, reached only when none of the above applies (`Handles`) |
| `Continue`, `Asks` | `next_question`, then `_create_lead` |
| `CallPasses` | time: `find_upcoming_callback` no longer returns the call |

`Absorb`, `Required`, `WithKnownName` are the slot functions of `capture.py`.
The ghost `prompted` remembers that a prompt was sent since the last menu, and the
ghost `heard` what messages gave while the form was listening (`Hears`): it is written
from the message alone, not from what `Absorb` made of it.

### Intake and RateLimiter

`Intake` is what is around the turn: `request[r]` is a webhook request, at the
await for its body, between the turns of its payload, or sending. A request is
atomic between awaits, as one coroutine of the event loop is. `Post` is the
budget of the host, before the body is read; `Accept` the signature, the parser,
the filters and the budget of each sender in the order of the payload, and in
deferred mode the 200; `Turn` what `TurnTransaction` makes of a message, reduced
to its ends (recorded and answered, duplicate, failed, gone after the answers);
`Send` one POST to Meta; `EndTurn` the next message or the end of the request;
`Finish` the 200 of inline mode. `Land` is Meta delivering what the client gave
up. `RateLimiter` has the three methods of `SlidingWindowLimiter` as operators on
its dictionary, with the eviction at the key limit; both limiters of the webhook
are instances of the same state.

### CallbackTime

A text is the set of dates and times that the parser's expressions find in it;
`ParseDate` and `ParseTime` choose among them in the parser's order, resolve
weekdays, dates without a year and hours without am or pm, and `Validate` applies
the rules of the office, with the suggestions of `SuggestSlots`. Instants are
counted in half minutes, which is what the rounding of seconds needs. `Say` is
`handle_ask_callback_time` with the pending date in the conversation, `Move` the
start of a reschedule, which forgets it.

### Knowledge and Answering

A directory has five files, each missing, broken or read, in either layout.
`Load` makes the snippets, a set in which each has its place in the order of
loading, and the catalogue, a function on the places of courses with a name;
`MatchCourse` and `Retrieve` are the lookups, BM25 being a count of shared words
(titles and tags three times), which keeps the order the weights, boosts and
penalties decide. The ranking is `Place`, one more than the snippets `Ahead`; what
is taken of it is counted in characters (`Chars`) up to the first snippet that does
not fit, where the code stops. `Ask` is
`AnswerService.answer` up to the first call, with the scope the handlers take
from the question; `Generate` one attempt of the provider's client, with
everything a POST can come back with.

### AgentConsole

`contact` and `log` are the server's rows (each field with the number of its
changes, each message with the stage of its transaction); `rows`, `toggle`,
`header` and `cache` are what the tab holds; `reads` and `posts` are requests in
flight, in the tab's hands, the server's, or on their way back. A toggle is the
reducer of `handover.ts` with its epoch. Turns of customers get an id, publish
and commit in three steps, agent messages commit before they publish.

| Action | Code |
|---|---|
| `Poll`, `Open`, `Close`, `Serve`, `LandThread`, `ReadFails` | `refresh`, `open`, `closeThread`, `get_messages` |
| `LoadConversations`, `LandList` | `loadConversations`, `list_conversations` |
| `Activity`, `Reconnect` | the socket of `useLiveUpdates` and its handler |
| `PressToggle`, `TogglePin`, `SaveRename`, `ClearPayment`, `Send` | the agent's clicks, up to their request |
| `Refuse`, `Commit`, `InsertMessage`, `CommitMessage`, `Respond`, `Lose` | the endpoints, and requests that are lost |
| `Answered`, `Rejected` | what the tab does with the answer |
| `OtherAgent`, `TurnInserts`, `TurnPublishes`, `TurnEnds` | the others |

## 3. Runs

| Run | Question | Result |
|---|---|---|
| `turn_safety` | do turns of a known contact implement the ledger, respect the gates and leave closed conversations alone, with redelivery, a fault and a console change anywhere? | holds |
| `turn_first_contact` | do the first messages of a new number, processed after the 200, open one conversation and get at most one answer each? | holds |
| `turn_liveness` | is every message settled under fairness (in particular: no deadlock)? | holds |
| `lead_safety` | does `SYNCED` imply a row, and do duplicates or stale rows need a race or the named failure? | holds |
| `lead_liveness` | is every lead delivered in the end? | holds |
| `sweep_safety` | is each check-in justified by what the sweep could know, are there two at most per silence, spaced, but for those the sweeper does not learn of, unless sweeps overlap or die, and does a sweep take captured details only when overtaken? | holds |
| `flow_form` | does every way through forms, detours, stray taps and moves end in complete bookings, ask for nothing the form was told while listening, and keep a form that was begun? | holds |
| `flow_sale` | do support cases stay support cases, answers stay on a course, and prompts keep apart, through all menus and prompts? | holds |
| `turn_lost_update` | does the row lock keep two messages from advancing from the same state? | violated |
| `turn_first_messages` | is every swallowed `IntegrityError` a redelivery? | violated |
| `services` | are the slots taken bookable and the soonest, are questions answered from something, are budgets exact, is what is acknowledged processed, are answers shown once and in order? | holds |
| `console` | do buttons never go back, is the transcript what customers wrote, is a change signalled always fetched, does the screen converge? | holds |

`services` checks three components that share no state in one run: a behaviour
belongs to one of them (`component` in `Services`), and the variables of the others keep their
initial values.

### What the violations show

* `turn_lost_update`: turns A and B of one contact load the user and the
  conversation; A takes the lock, advances, commits; B gets the lock, but its
  session still has the context it loaded before, and its commit overwrites A's
  slots. The comment at `conversation_repository.py:26-28` says the lock prevents
  exactly this.
* `turn_first_messages`: two *different* first messages of a new number. The
  loser fails on `users.phone`, and `conversation_service.py:94-103` takes every
  `IntegrityError` for a redelivery: the message is neither recorded nor
  answered.
More are visible as the exceptions their properties make, and have no run
of their own: a turn past the gate answers after a handover (`NoAnswerPastTheGate`
allows what the turn could not have seen; `conversation_service.py:178-180` says
"never"); a lead moved during a push can end `SYNCED` with the old time
(`CurrentUnlessRaced`; `lead_repository.py:145-147`); a turn that commits over a
sweep's stage takes it back, so that over its life a conversation can be chased
more often than "twice at most" (`inactivity.py:1`), while `AtMostTwoPerSilence`
holds; a call that raised after Meta took the message leaves the stage unchanged
(`inactivity.py:176-184`), so the next sweep sends the same check-in again, and a
customer can get a third, or two without the gap, with one sweep at a time and none
that died (`AtMostTwoPerSilence` and `NudgesSpaced` count such messages in `repeats`;
"a third would be harassment", `inactivity.py:3-5`); a sweep writes back the context it loaded up to 200 sends ago, and the
details a turn captured meanwhile are gone (`DetailsKept` allows it exactly when
somebody committed after the sweep looked; `inactivity.py:7-8` says they are
kept), and what overlapping turns take from each other is `turn_lost_update` and
left out of `DetailsKept`; a form asks again for what it was told while it was not
listening - beside a time it refused, most of all (`AsksOnlyWhatIsMissing` covers what
it listened to; `capture.py:9-11` says "every turn absorbs whatever the message
happens to contain"); a button flips back when fetches of a thread overlap, which happens
because any fetch that ends clears `fetching`, or when a click is answered after
its thread was left (`NoFlipBack`; `handover.ts:1-20` calls it impossible by
construction); a customer's message is skipped, or comes in out of order, when a
later id is seen first, because it was not committed yet or because the agent's own
message took `lastId` past it (`TranscriptFaithful`).

### Bounds, and why they are enough

* Turn runs: two messages, one delivered twice, three turns. Every property is
  about two turns meeting (same message, same conversation, same new user) and a
  third that follows; `MaxConv = 3` is one conversation id per turn, so the bound
  never stops a turn. `MaxFaults = 1`, `MaxConsole = 1`: one fault or flip at
  every point of every interleaving. The proofs have no such bounds.
* Lead runs: `lead_safety` has two leads (`sync-pending` goes through several
  with one process), two pushes, two call times and two faults of any kind,
  which is enough for a second row, a stale row, and a retry that meets its own
  half-done write. `lead_liveness` has one lead: leads are retried
  independently.
* Sweep runs: two sweeps, five ticks with `First = 1`, `Gap = 2`, `MaxAge = 3`:
  time for two check-ins, for a gap that is not over, and for a silence that
  becomes too old. Two events are a turn and a console change, or two turns, which
  may overlap. `MaxRepeats = 2` lets a whole call fail with two copies out, or two
  calls with one each. The constraint `OneTrouble` explores one at a time of sweeps
  that overlap, a sweep that dies and turns that overlap, as where one of them
  happened the properties it excuses say nothing more; the proofs have no such constraint.
* Flow runs: `MaxLeads = 2` and the constraint `BookingsLeft` let one contact
  finish a booking and then take every path to a second booking or to a move of
  the first; after it the conversation would only start over. `flow_form` asks a
  missing detail again once (`MAX_ATTEMPTS = 1`; the code's 2 adds one more turn
  of the same loop) and has the texts and taps that fill, refuse, or leave a
  form; `flow_sale` has the code's threshold of 3 questions, every navigation
  button and both kinds of prompt, and stops at the first booking. Deadlock is
  checked in both: no conversation is ever stuck.
* `services`, callback times: Wednesday to Saturday with Friday closed and a turn
  of the year; six instants, among them before opening, inside the last half hour,
  on the closed day and with seconds to round; every form of date with three
  times, and every form of time. Questions: four directories (grown, flat, nearly
  empty, broken), sixteen questions in three states, three providers, every
  response; snippets of a size at which the prompt ends before what was asked for. Requests: two at once and two deliveries of three payloads of up to
  five messages, two ticks with windows of one, a limiter of one sender key, two
  faults: enough to repeat a payload behind a failed one, to exceed and regain a
  budget, to evict, and to send an answer late and again.
* `console`: two contacts, two acts of anybody, two openings of threads, two
  fetches of threads and one of the list in flight, a queue of one signal, one
  lost request. Two acts are what it takes to cross: a click and another agent's,
  two customers' messages, a message and a send. Other agents change `blocked`,
  the field that is published and that guards the others.
* In the other runs deadlock is not checked: all messages handled, all leads delivered or no event
  left is a legitimate end. That nobody waits for ever is `EveryMessageSettles`.

### Fairness

* `TurnTransaction!Fairness`: a request that was accepted is run by the event
  loop, and PostgreSQL grants a lock nobody holds (weak fairness of
  `TurnStep(t)`, which includes waiting until the lock is free); Meta keeps
  redelivering what it has no 200 for (weak fairness of `Receive(t)`). Nothing is
  assumed of the console, and faults are not fair.
* `LeadSync!Fairness`: started pushes run; the sink is configured one day; the
  operator repeats `sync-pending`. The last is strong fairness, because the
  request can be busy again and again when it is made.
* `AgentConsole!FairSpec`: the timers of the tab go on firing and fetches that
  were asked for come to an end (one condition for the thread, one for the list),
  and requests of the agent and turns of customers come to an end. Nothing is
  assumed of the signals: convergence rests on the polls alone.
* The sweep is checked for safety only: nothing in the code makes a sweep happen
  but a timer or an external scheduler.

## 4. What is proved

Each theorem holds for all values of the constants that satisfy the assumption
its module names: the sets of messages, leads, contacts, texts or payloads may be
any, and the bounds of the runs any numbers.

| Module | Theorem | Statement |
|---|---|---|
| `TurnTransaction` | `TypeCorrect` | `Spec => []TypeOK` |
| (`BoundsAssumption`) | `AtMostOnceHolds` | `[]AtMostOnce`: one row and one answer per message, answers after the row |
| | `GateHolds` | `[]NoAnswerPastTheGate` |
| | `ClosedIsFinalHolds` | `ClosedIsFinal`, an action property |
| | `TurnMeetsLedger` | inline, for a known contact: `MeetsLedger`, the refinement of `MessageLedger` |
| | `SilencedOnlyRedeliveries` | for a known contact: `[]SilencedIsRecorded` |
| | `FirstContactIsOne` | for a new contact: `[]FirstContactOpensOne` |
| | `TurnMeetsLedgerForAnyone` | inline, for any contact: `AnyLedger!Spec`, the ledger with a swallowed message as one more excuse |
| | `EveryTurnRunsDown` | `[](StepsLeft(t) \in 0 .. MaxConv + 12)`, and `TurnsRunDown`: each step of a turn lowers its `StepsLeft`, and nothing raises it |
| | `TurnsNeverStuck` | inline, with fewer deliveries than `MaxConv`: `[]NeverStuck`, no deadlock while a message is unaccounted for |
| | `RestIsSettled` | inline, for a known contact: `[]SettledWhenQuiet` |
| `LeadSync` | `TypeCorrect` | `[]TypeOK` |
| (`LeadSyncAssumption`) | `SyncedLeadsHaveRows` | `[]SyncedHasRow` |
| | `OneRowPerLeadUnlessRaced` | `[]OneRowUnlessRaced` |
| | `DeliveredLeadsAreCurrent` | `[]CurrentUnlessRaced` |
| | `RowsNeverGoBack` | `RowsAdvance`, an action property |
| `InactivitySweep` | `TypeCorrect` | `[]TypeOK` |
| (`SweepAssumption`) | `NudgesAreJustified` | `[]NudgeJustified` |
| | `TwoCheckInsAtMost` | `[]AtMostTwoPerSilence` |
| | `CheckInsAreSpaced` | `NudgesSpaced`, an action property |
| | `DetailsAreKept` | `DetailsKept`, an action property |
| `BotFlow` | `TypeCorrect` | `[]TypeOK` |
| (`FlowAssumption`) | `BookingsAreComplete` | `[]BookingsComplete` |
| | `FormsAskWhatIsMissing` | `[]AsksOnlyWhatIsMissing` |
| | `SupportIsFiled` | `[]SupportIsSupport` |
| | `CourseStaysInScope` | `[]CourseInScope` |
| | `MovesAddNothing` | `MoveNeverDuplicates`, an action property |
| | `FormsAreKept` | `FormKept`, an action property |
| | `PromptedOnce` | `NoSecondPrompt`, an action property |
| `Intake` | `AnswersShownOnce` | `[]ShownOnceInOrder` |
| (`IntakeAssumption`) | `AcknowledgedMessagesAreHandled` | `[]AcknowledgedIsHandled` |
| | `BudgetsAreKept` | `[]BudgetKept` |
| | `IntakeTypes` | `[]IntakeTypeOK` |
| `CallbackTime` | `TypeCorrect` | `[]TypeOK` |
| (`HoursAssumption`, | `OnlyPromisableTimes` | with `UsualHours`: `[]SlotsBookable` |
| `TextsAssumption`) | `UndatedTextsAreTakenRight` | with `UsualHours`: `[]UndatedTime` |
| `Answering` | `AnswerTypes` | `[]AnswerTypeOK` |
| (`KnowledgeAssumption`, | `PromptsAreNeverEmpty` | `[]NeverEmptyHanded` |
| `AnsweringAssumption`) | `PromptsAreForWhoAsks` | `[]ForWhoAsks`, a part of `EntriesAnswerable` |
| | `NamedCoursesComeFirst` | `[]NamedCourseFirst` |
| | `EntriesAreAnswerable` | with `TidyFaqs`: `[]EntriesAnswerable` |
| `Services` | `PartsRun` | every behaviour is one of each component, so the theorems above hold of it |
| | `ServicesTypes` | `[]ServicesTypeOK` |
| `AgentConsole` | `SignalsAreFetched` | `[]SignalledIsFetched` |
| (`ConsoleAssumption`) | `ButtonsNeverFlipBack` | `NoFlipBack`, an action property |
| | `TranscriptsAreFaithful` | `[]TranscriptFaithful` |
| | `ConsoleTypes` | `[]TypeOK` |
| | `ConsoleCatchesUp` | `CatchesUp`, an action property |

The assumptions: bounds are numbers and positive where nothing happens without
them; of the typed texts of `BotFlow`, that they are messages, and of the offer's
threshold, that it is not below the two exchanges after which the discount may be
offered (`OFFER_AFTER_EXCHANGES`); of Meta's payloads, that they are lists of messages with a time
and a number of answers, from finitely many senders, and of the limiters, that they
let one event through and hold one key (`IntakeAssumption`); of the knowledge files that
can be read, that they are lists, or objects whose keys are there once, and that a course
with a name has a slug and terms; of questions, that they have finitely many words; of
prompts, that they may hold a snippet, and of terms, that they have a length
(`KnowledgeAssumption`, `AnsweringAssumption`); of the parser's findings, that they are forms it knows with
numbers that are not negative (`TextsAssumption`), and of the clock, that it is
past day 1 (`HoursAssumption`); of the console, that a contact is no placeholder
and its buffer has room (`ConsoleAssumption`). TLC evaluates all of them in the runs.

`UsualHours` is a hypothesis of two theorems because the settings do not enforce
it: the office opens on a half hour; the notice is over by opening time when the
call is asked for on the day before; the three preferred times are in office
hours; the horizon lies beyond the third workday that can be suggested. The
defaults (11:00 to 19:00, half an hour, 30 days; `app/core/config.py:268-272`) meet it,
and settings that do not meet it break the two properties: with an opening at
11:10 "asap" passes over what could be booked, and with a notice of days a time
without a day is refused as too soon.

`TidyFaqs` is a hypothesis of one theorem because the loader does not enforce it
either: `faqs.json` has one layout, and gives no id twice. The file of the repository
meets it, and so do those of the run. Of two entries with one id the index keeps the
later (`loader.py:112-134`), and a flat list in the file hides the groups beside
it (`loader.py:75-88`).

### The arguments

Hardly any property is inductive by itself; what each proof adds is what the code
relies on without saying so.

* `AtMostOnce` needs `LedgerInv`: a turn past the transcript insert has the only
  claim on its message and no row exists yet, and a turn about to deliver has its
  row and no answer. Uniqueness of the claim is what the unique index gives, also
  across redeliveries.
* `NoAnswerPastTheGate` needs `GateInv`: a turn that loaded the user in the
  current epoch saw the flags as they are, and one that saw the handover flag
  never decides an answer.
* `ClosedIsFinal` needs `LockInv`: two turns never hold one conversation, and
  whoever holds one holds it open. The re-check after the wait is the step that
  matters.
* `TurnMeetsLedger` needs `AccountInv` - a turn past its transaction has a message that
  is recorded, refused, failed or swallowed (`Accounted`), and with inline processing so
  has every 200 - and that is where `Inline` enters: with deferred processing a killed
  turn leaves an acknowledged message unrecorded. `KnownContact` enters with the last of the four:
  for a new contact `turn_first_messages` shows a swallowed message that nobody
  recorded, and `TurnMeetsLedgerForAnyone` that there is no other way to lose one.
* `EveryMessageSettles` is liveness, but what it needs of the code beyond a fair
  scheduler is safety, and proved. `EveryTurnRunsDown`: the variant `StepsLeft` counts
  the steps a turn has before it, and at the lock the conversations it may still have to
  try. `TurnsNeverStuck`: who waits for a row waits for somebody in a later phase - the
  user row, the conversation and the transcript row are claimed in this order - so
  waiting makes no circle (`NoCircle`), and where somebody is under way, somebody can go
  on; with nobody under way Meta still has a delivery to post (`LostInv`: a lost delivery
  is a fault, and the message has more deliveries than there are faults). `CanGoOn`
  stands for `ENABLED TurnStep(t)`: that a step is taken only where it holds is the lemma
  `StepsAreFree`, that one can be taken wherever it holds was checked by TLC on the runs'
  messages, with either processing and either contact. Conversations must not run out of ids, hence
  `Cardinality(Turn) < MaxConv` (`IdsInv`): the bound is the model's, the code's ids
  have none. `RestIsSettled`: the rest that is reached is the right one.
* `SilencedIsRecorded` for a known contact (`SilenceInv`): nobody inserts a user, so the
  only unique key left to collide on is the message's, and the turn that loses
  there waited for a row that was committed. Without `KnownContact` it is false.
* `FirstContactOpensOne` (`FirstInv`): until a conversation has been closed, turns
  that hold or look for one have all found the same one, and a turn that creates
  one is the only one past the unique phone number.
* `SyncedHasRow` needs `SyncedInv`: a push that is about to mark has its row, and a row
  found by a scan does not go away. `OneRowUnlessRaced` needs `Alone` (pushes one
  at a time, until they raced) and what the single push knows: whether the lead has
  a row, and that a scan which succeeded told the truth. `CurrentUnlessRaced` needs
  `FreshInv`: a row older than the lead's time belongs to a lead that is not
  `SYNCED`, or to one the push under way will write again - the case that matters is
  `Reschedule` between `LoadRecord` and `Mark`, where the status stays `SYNCED`
  unless it differs from what was loaded. `RowsNeverGoBack` needs `TimesInv`: no row
  is ahead of its lead, and the record a push loaded is no older than any row it can
  overwrite - which one push at a time keeps, and two would not.
* `NudgeJustified` needs `LookedInv` and `JustifiedInv`: what a sweep holds was so
  at the time it looked, and remains so until somebody else commits.
  `AtMostTwoPerSilence` and `NudgesSpaced` rest on `CountInv`: the stage of the
  context, in the row or in the hands of the sweep, is never behind the check-ins of
  this silence that the sweeper knows of (`silence` less `repeats`), and the time
  stamped is that of the last of them; a turn that commits what it loaded starts a new
  silence, so it cannot take the stage behind. `DetailsKept` rests on `KeptInv`: what a
  sweep or the turn under way loaded lacks a detail only if a turn committed after. For
  turns it holds while one is under way at a time, and again, after turns that
  overlapped, from the next that comes alone with no sweep under way.
* For `BotFlow` one invariant carries all (`Inv`): bookings are complete, and the
  conversation is `Good` - its context is sound (`Sound`: slots, attempts and the
  reschedule agree with each other, and what was heard is there), and each state keeps a promise about the slots:
  a form's state about what is given and what is missing (`FormPromise`), a branch's
  about audience and course (`BranchPromise`). The proof takes every handler, for
  any message, from any good state; that a stray tap can lead from any state to any menu
  is why the promises must be made by the state and not by the path.
* `ShownOnceInOrder` (`ShownInv`): a request that sends holds the rest of the
  answers in order (`Queued`), is the only one that has answers of that message, and
  nothing it has yet to send is out (`Claimed`); what was shown and what may still
  arrive of one answer is together no more than the attempts made (`Told`). The claim
  is won in `Turn`, by the row of the transcript.
* `AcknowledgedIsHandled` (`HandledInv`): every place of the payload of a request at
  its turns is settled - its message handled, too old, not listed or over budget - or still
  queued, so what the last turn leaves behind an empty queue is all settled. The
  filters before the turns must agree with the property: a message that is too old
  stays so, which is why the clock is part of it.
* `BudgetKept` (`BudgetInv`): the hits the limiter keeps of a sender and the times its
  messages were let through are the same from the end, as far back as they count
  (`AsIn`, in both directions). Letting a message through adds to both; what either
  side forgets does not count; and an eviction that forgets what counts happens only with
  more live senders than keys. Along a payload this holds after every place.
* `IntakeTypeOK` (`Limited`, `Logged`): `Allow` adds one key at most and evicts one
  at least when there are too many (`EvictHolds`), along a payload after every place; and
  what waits in a request are places of whole messages of its payload, so that only
  those are recorded.
* `Answering` (`AnswerInv`): the knowledge base is the one a directory loads to, the scope
  a course of it, and a prompt is what `Retrieve` gave for the question asked. The rest is
  about the operators, as lemmas for any snippets and scores. Ranking by counting those
  ahead puts the snippets on the places from one to their number, one on each
  (`RankedFacts`), so what is said of a prompt is said of places, without induction over a
  list. `NeverEmptyHanded` is that the first snippet is taken whatever its size, and that
  "about" is among the fallback when nothing scored. `NamedCourseFirst` is that
  names are looked for before keywords, and that the boost of the course asked about
  puts its snippets ahead of another's that fit no better - if they are for who asks, as
  snippets for the other side are never in the ranking. `EntriesAnswerable` is that an entry
  holding all the words of the question scores more than a quarter of any snippet
  (`TitleScores`), so that the cut-off never drops it; what remains is that the prompt ended
  before it (`SelectLeaves`), and then it ended at something ahead of it.
* `CallbackTime`: `AskInv` says that the pending date is the date last spoken of and the
  last answer is the parser's; the rest is about the parser's operators, as lemmas
  for any arguments: the calendar (`YearFound`: every day lies in the one year
  `YearOf` computes), `NextWorkdayFound`, `OpenSlot` and `OpenSlotIsEarliest`, `TipsBookable`,
  `ImplicitDateFirst`.
* `SignalledIsFetched` follows from `Shape` alone, but for every step, as each can
  take away one of the places where a signal may be. `NoFlipBack` needs that nothing the
  console holds or is about to get is newer than the server (`NothingAhead`), and
  `PaneInv`: a fetch that may still be believed (its epoch is current) was served
  after everything shown, and so was the answer to a click.
* `TranscriptFaithful` (`ThreadInv`): a thread holds what it has seen, and every customer's
  message up to its last id is in it or known to be late (`EntryInv`); an answer on
  its way passes over nothing after the id asked for but what is late (`Answer`). What an
  answer adds is sorted (`InOrderSorts`), so a message can come after a higher one only
  when that one was merged from another fetch - and then it was late. `TypeOK` takes its part
  about the threads from this, and that the poll never waits for a fetch that is gone from
  the fact that every fetch that ends clears `fetching`, its own or not; that a locked
  button has its request under way is `AwaitedInv`.
* `ConsoleCatchesUp` is what `Converges` needs beyond fairness. Between acts the server
  stands still, so a fetch it answers is up to date (`UpToDate`) and no step makes it fall
  behind; an up-to-date list is the screen's list when it lands. For the thread,
  `AwaitedInv` gives that no toggle is held back by a request that is gone, so the
  answer decides header and button, and `ThreadInv` that the messages after the
  id it was asked for are what the transcript lacks (`TranscriptMeans`, `AddedLast`).
* `PartsRun`: a step of `Services` is a step of one component and leaves the variables of
  the others, so it is a step or a stutter of each; the theorems of the components
  follow, and `ServicesTypes` is one use of it.

The inductive invariants, and the properties proved here that no run lists (`RowsAdvance`,
`CatchesUp` and those of the waiting turns), were checked on the instances of their
modules before they were proved.

### What stays with TLC

* Liveness - `EveryMessageSettles`, `EveryLeadDelivered`, `Converges` - because it
  rests on fairness, that is on `ENABLED`. What these need of the code is proved as
  safety where it could be: `EveryTurnRunsDown`, `TurnsNeverStuck` and `RestIsSettled`
  for the first, `ConsoleCatchesUp` for the last. Of `EveryLeadDelivered` the theorems
  have only that what is delivered is right; that `sync-pending` comes round is fairness.
* Of `TurnsNeverStuck` and `RestIsSettled`, deferred processing, where a message whose
  process died has nobody left to answer for it.
* `EntriesAnswerable` for a `faqs.json` of both layouts or with an id given twice, of which
  the run has none.

Induction over data and RECURSIVE operators are avoided throughout, as the provers
cannot use them; where numbers call for induction (the year of a day, the first of the
forms, the places of a payload) the proofs take the least counterexample.

## 5. What is not modelled

* Within the modules: what a message says, beyond what the intent tests and slot
  patterns make of it; the answers of the language model (an answer changes no
  state); the topic, profile and remembered date of a form (no guard reads the
  first two, the third is in `CallbackTime`); several contacts, except where
  they share something (the sweeper, `sync-pending`, the limiter, the console).
* The regular expressions of the time parser, the tokenizer and the stop words:
  a text is what they find. The scores of BM25 beyond the count of shared words.
* Of the console: the older page `inbox.html`, the search, drafts, media, the
  login and its tokens; a full fetch and a delta of one thread are told apart,
  several tabs are not (another agent's changes stand for them).
* `BotFlow` takes turns one at a time; `TurnTransaction` has the interleaving and
  abstracts a turn to "answers, captures, or books". A customer whose taps
  overlap meets both.
* External code, modelled from its use: PostgreSQL's row locks and unique
  indexes at READ COMMITTED, SQLAlchemy's identity map and dirty-column updates,
  Meta's redelivery until a 200, the Sheets API.
* Components without a module: settings parsing, logging, migrations,
  evaluations, scripts and the views (no protocol state).

## 6. Plan

| Order | Module | Composes / refines | Properties | Theorems |
|---|---|---|---|---|
| 1 | `TurnTransaction`, `MessageLedger` | refinement | done | all but liveness |
| 2 | `LeadSync` | | done | all but liveness |
| 3 | `InactivitySweep` | | done | all |
| 4 | `BotFlow` | | done | all |
| 5 | `Intake`, `RateLimiter` | limiter inside the webhook | done | all |
| 6 | `CallbackTime` | | done | all |
| 7 | `Knowledge`, `Answering` | knowledge inside answering | done | all |
| 8 | `AgentConsole` | console, endpoints, signals | done | all but liveness |

Small components share a run: `Services` picks one of them in its initial
state and lets only that one move. The modules to be proved about have no
RECURSIVE operators.

## 7. Seen while reading

Not stated as properties, or the exceptions of properties stated:

* The payment flag is part of the conversation, so a screenshot sent after a
  booking closed it is answered as an unreadable message; `offer.py:138` says
  it "is read as payment proof".
* Discovery offers a call to who has one booked: `offer_callback` lacks the check
  of `answer_with_optional_nudge` (`common.py:106-116`).
* "Only ever fires once per conversation" (`context.py:104`): a visit to the menu
  clears the flag (`machine.py:308`). `NoSecondPrompt` is stated between visits.
* "A free student is never offered a callback" (`enums.py:31-32`): three questions
  in discovery offer one.
* "Mid-form: a stray tap must not discard a half-captured booking"
  (`machine.py:229`): the offer's question button does leave the form, which is
  the exception in `FormKept`; the details given stay in the context.
* A stray tap at the name question fills the name with the button's title, for a
  tap carries its title as text (`parser.py:87-98`), not "the empty text"
  (`callback.py:136-137`).
* What a form is told while it is not listening is lost. `callback.py:226-240` returns
  for a time it refuses before `absorb_slots`, so of "tomorrow 9pm, meera@x.com" the
  address is asked for later; a time said at the name, email or course question, or
  beside a phone number, is not looked at (`absorb_slots` has no time); and a tap or a
  "yes" at the number question is not read any further (`capture.py:253-262`). The
  header of `capture.py` (3-11) promises that every turn absorbs everything.
* `start_callback_capture` with nothing left to ask asks for the time again
  (`common.py:163-166`), of who gave it before leaving the form.
* A reschedule left by the offer's question button stays pending: a support call
  asked for afterwards moves the earlier call instead of being booked.
* The retired `menu:general` button is "still handled" (`copy.py:20-22`), but no
  option list holds it, so it is answered like free text.
* A conversation can have an active sibling, although `conversation.py:3` says one
  is active; `find_upcoming_callback` returns the earliest call, not "the most
  recent".
* `send_message` moves `last_activity_at` (`console.py:652`), from which the
  sweeper derives the customer's silence (`inactivity.py:199-201`).
* Two appends of one lead leave two rows, of which the upsert keeps updating one
  (`google_sheets.py:194-197`).
* After "Different number" the form goes on to the time; a number typed on its
  own is rejected as a time and never looked at, and the call is booked on the
  WhatsApp number. `capture.py:259-260` expects "the next turn's absorb" to pick
  it up, but that state absorbs only from a message that holds a valid time.
* A turn publishes its signal inside the transaction
  (`conversation_service.py:185,223`): a console that reloads at once finds
  nothing, and waits for the next poll. `set_handover`, `set_pinned` and
  `rename_contact` publish nothing.
* `open` reads the epochs before its reset is rendered, so what the opening fetch
  says of the toggles is always discarded; the row of the list decides until the
  next poll. A list that lands overwrites rows changed by a click under way.
* `send_message` records what the guarded client did not send: for a number not
  listed it returns as if it had. The sweeper, too, counts a check-in that way.
* Times: "afternoon" contains "noon" and means 12:00; "asap" drops the seconds
  and can undercut the notice by up to a minute; "11.10 am" is also read as 11
  October; "4:30" without am or pm is not moved into office hours though "at 4"
  is; `force_next` has no effect; the date of a form given up stays for the next.
* Courses: a keyword decides where names do not match in full, so "i want power
  bi" is the course that lists it as a keyword, not the one its comment means
  (`loader.py:257-259`); terms match inside other words.
* `guardrails.py` takes every course name as evidence, but "AI For Everyone" has
  only words that are too short or generic, so a question that names it and a
  foreign topic is refused.
* Refusals of the model are retried though `openai.py:172-177` says the check
  avoids it; Gemini's `content: null` raises an error that is not retried; Groq's
  mark of a refusal is not looked for.
* A 4xx of Meta is retried like a 5xx although the comment in `client.py` says
  retrying will not help; a timed-out send can arrive twice.
* A redelivered message spends its sender's budget again, and later messages of
  the payload can be dropped for it with a 200.
