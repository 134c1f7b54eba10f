------------------------------ MODULE LeadSync ------------------------------
(***************************************************************************)
(* How a booked call reaches the counselors' spreadsheet.  A turn commits  *)
(* the lead (or moves its time) and then pushes it; an operator's          *)
(* POST /leads/sync-pending pushes whatever is not SYNCED.  A push reads   *)
(* the lead, looks for its row, writes the row and records the result, with *)
(* nothing locked in between, and any of it may fail or be cut short.      *)
(*                                                                         *)
(* The spreadsheet is the list of rows of each lead, in sheet order; a row *)
(* is the call time it shows.  Times are numbered in the order the         *)
(* customer asked for them.                                                *)
(***************************************************************************)
EXTENDS Naturals, Sequences

CONSTANTS
    Leads,      \* lead ids, numbers: retry_pending goes through them in order
    Workers,    \* pushes that can be in progress at once
    MaxTime,    \* bound: call times asked for, over all leads
    MaxFaults,  \* bound: failures of any kind
    Faults      \* which kinds happen: "find", "write", "db", "crash"

ASSUME LeadSyncAssumption ==
    /\ Leads \subseteq Nat
    /\ MaxTime \in Nat
    /\ MaxFaults \in Nat
    /\ Faults \subseteq {"find", "write", "db", "crash"}

None == 0   \* no call time, no row
Time == 0 .. MaxTime
SyncStatus == {"PENDING", "SYNCED", "FAILED", "SKIPPED"}

VARIABLES
    asked,    \* the last call time handed out
    time,     \* leads.preferred_time (None: the lead does not exist yet)
    status,   \* leads.sync_status
    due,      \* committed turns about to push the lead
    turnSaw,  \* the lead's status as an open rescheduling turn loaded it
    sheet,    \* the rows of each lead
    sinkOn,   \* whether this deployment has Google Sheets configured
    wpc,      \* where each push is: idle, load, find, write, mark
    todo,     \* leads the push has yet to deal with
    cur,      \* the lead it is pushing
    rec,      \* the call time of the record it built
    saw,      \* the status it loaded
    row,      \* the sheet row it found
    result,   \* what it is going to record
    faults,   \* failures so far
    happened, \* ghost: the kinds of failure there were
    raced     \* ghost: two pushes were once in progress at the same time

leadVars   == <<asked, time, status, due, turnSaw>>
workerVars == <<wpc, todo, cur, rec, saw, row, result>>
logVars    == <<faults, happened, raced>>
vars       == <<leadVars, sheet, sinkOn, workerVars, logVars>>

Exists(l) == time[l] # None

Fault(kind) ==
    /\ kind \in Faults
    /\ faults < MaxFaults
    /\ faults' = faults + 1
    /\ happened' = happened \union {kind}

\* What a push remembers of a lead, forgotten.
ForgetLead(w) ==
    /\ cur' = [cur EXCEPT ![w] = None]
    /\ rec' = [rec EXCEPT ![w] = None]
    /\ saw' = [saw EXCEPT ![w] = "PENDING"]
    /\ row' = [row EXCEPT ![w] = None]
    /\ result' = [result EXCEPT ![w] = "PENDING"]

Init ==
    /\ asked = 0
    /\ time = [l \in Leads |-> None]
    /\ status = [l \in Leads |-> "PENDING"]
    /\ due = [l \in Leads |-> 0]
    /\ turnSaw = [l \in Leads |-> "none"]
    /\ sheet = [l \in Leads |-> <<>>]
    /\ sinkOn \in BOOLEAN
    /\ wpc = [w \in Workers |-> "idle"]
    /\ todo = [w \in Workers |-> {}]
    /\ cur = [w \in Workers |-> None]
    /\ rec = [w \in Workers |-> None]
    /\ saw = [w \in Workers |-> "PENDING"]
    /\ row = [w \in Workers |-> None]
    /\ result = [w \in Workers |-> "PENDING"]
    /\ faults = 0
    /\ happened = {}
    /\ raced = FALSE

(***************************************************************************)
(* The turns.                                                              *)
(***************************************************************************)
\* _create_lead, committed.
CreateLead(l) ==
    /\ ~Exists(l)
    /\ asked < MaxTime
    /\ asked' = asked + 1
    /\ time' = [time EXCEPT ![l] = asked + 1]
    /\ status' = [status EXCEPT ![l] = "PENDING"]
    /\ due' = [due EXCEPT ![l] = @ + 1]
    /\ UNCHANGED <<turnSaw, sheet, sinkOn, workerVars, logVars>>

\* A turn that is going to move the call: User.leads comes with the user, so
\* its lead is in the session from the start.
LoadLead(l) ==
    /\ Exists(l)
    /\ turnSaw[l] = "none"
    /\ turnSaw' = [turnSaw EXCEPT ![l] = status[l]]
    /\ UNCHANGED <<asked, time, status, due, sheet, sinkOn, workerVars, logVars>>

\* Mutant: the turn that moved a call does not report the lead for a push.
RescheduleQuietly(l) ==
    /\ turnSaw[l] # "none"
    /\ asked < MaxTime
    /\ asked' = asked + 1
    /\ time' = [time EXCEPT ![l] = asked + 1]
    /\ turnSaw' = [turnSaw EXCEPT ![l] = "none"]
    /\ UNCHANGED <<status, due, sheet, sinkOn, workerVars, logVars>>

\* LeadRepository.reschedule, committed.  The UPDATE carries only the columns
\* whose value differs from the one loaded: sync_status is written back to
\* PENDING only if the turn had loaded something else.
Reschedule(l) ==
    /\ turnSaw[l] # "none"
    /\ asked < MaxTime
    /\ asked' = asked + 1
    /\ time' = [time EXCEPT ![l] = asked + 1]
    /\ status' = [status EXCEPT ![l] = IF turnSaw[l] = "PENDING" THEN @ ELSE "PENDING"]
    /\ turnSaw' = [turnSaw EXCEPT ![l] = "none"]
    /\ due' = [due EXCEPT ![l] = @ + 1]
    /\ UNCHANGED <<sheet, sinkOn, workerVars, logVars>>

(***************************************************************************)
(* Starting a push.                                                        *)
(***************************************************************************)
Start(w, leads) ==
    /\ wpc[w] = "idle"
    /\ leads # {}
    /\ raced' = (raced \/ \E v \in Workers : wpc[v] # "idle")
    /\ wpc' = [wpc EXCEPT ![w] = "load"]
    /\ todo' = [todo EXCEPT ![w] = leads]
    /\ UNCHANGED <<cur, rec, saw, row, result>>

\* process_inbound, after the replies: lead_sync.sync(result.lead_id).
SyncAfterTurn(w) ==
    \E l \in Leads :
        /\ due[l] > 0
        /\ Start(w, {l})
        /\ due' = [due EXCEPT ![l] = @ - 1]
        /\ UNCHANGED <<asked, time, status, turnSaw, sheet, sinkOn, faults, happened>>

\* Mutant: a lead that was skipped once is not pending.
ListSyncable == {l \in Leads : Exists(l) /\ status[l] \in {"PENDING", "FAILED"}}

\* list_pending_sync: everything that is not SYNCED.
ListPendingSync == {l \in Leads : Exists(l) /\ status[l] # "SYNCED"}

RetryPending(w) ==
    /\ Start(w, ListPendingSync)
    /\ UNCHANGED <<leadVars, sheet, sinkOn, faults, happened>>

(***************************************************************************)
(* One push: LeadSyncService.sync and GoogleSheetsLeadSink.push_lead.      *)
(***************************************************************************)
\* get_by_id and from_model, in a session of its own.
LoadRecord(w) ==
    /\ wpc[w] = "load"
    /\ \E l \in todo[w] :
         /\ \A k \in todo[w] : l <= k
         /\ cur' = [cur EXCEPT ![w] = l]
         /\ rec' = [rec EXCEPT ![w] = time[l]]
         /\ saw' = [saw EXCEPT ![w] = status[l]]
    /\ wpc' = [wpc EXCEPT ![w] = IF sinkOn THEN "find" ELSE "mark"]
    /\ result' = [result EXCEPT ![w] = "SKIPPED"]
    /\ UNCHANGED <<leadVars, sheet, sinkOn, todo, row, logVars>>

\* Mutant: the header row is counted twice.
FindBelow(w) ==
    /\ wpc[w] = "find"
    /\ wpc' = [wpc EXCEPT ![w] = "write"]
    /\ row' = [row EXCEPT ![w] = IF sheet[cur[w]] = <<>> THEN None ELSE 2]
    /\ UNCHANGED <<leadVars, sheet, sinkOn, todo, cur, rec, saw, result, logVars>>

\* _find_row: the lead's first row.  A scan that fails counts as "no row".
FindRow(w) ==
    /\ wpc[w] = "find"
    /\ wpc' = [wpc EXCEPT ![w] = "write"]
    /\ \/ /\ row' = [row EXCEPT ![w] = IF sheet[cur[w]] = <<>> THEN None ELSE 1]
          /\ UNCHANGED <<faults, happened>>
       \/ /\ Fault("find")
          /\ row' = [row EXCEPT ![w] = None]
    /\ UNCHANGED <<leadVars, sheet, sinkOn, todo, cur, rec, saw, result, raced>>

\* The sheet after the update or the append.
Upserted(w) ==
    [sheet EXCEPT ![cur[w]] = IF row[w] = None THEN Append(@, rec[w])
                                               ELSE [@ EXCEPT ![row[w]] = rec[w]]]

\* Mutants: always append; a failed write is recorded like a good one.
WriteAppend(w) ==
    /\ wpc[w] = "write"
    /\ wpc' = [wpc EXCEPT ![w] = "mark"]
    /\ sheet' = [sheet EXCEPT ![cur[w]] = Append(@, rec[w])]
    /\ result' = [result EXCEPT ![w] = "SYNCED"]
    /\ UNCHANGED <<leadVars, sinkOn, todo, cur, rec, saw, row, logVars>>

WriteBlind(w) ==
    /\ wpc[w] = "write"
    /\ wpc' = [wpc EXCEPT ![w] = "mark"]
    /\ result' = [result EXCEPT ![w] = "SYNCED"]
    /\ \/ sheet' = Upserted(w) /\ UNCHANGED <<faults, happened>>
       \/ Fault("write") /\ UNCHANGED sheet
    /\ UNCHANGED <<leadVars, sinkOn, todo, cur, rec, saw, row, raced>>

\* _append_row.  A failure may come before the sheet changed or after.
WriteRow(w) ==
    /\ wpc[w] = "write"
    /\ wpc' = [wpc EXCEPT ![w] = "mark"]
    /\ \/ /\ sheet' = Upserted(w)
          /\ result' = [result EXCEPT ![w] = "SYNCED"]
          /\ UNCHANGED <<faults, happened>>
       \/ /\ Fault("write")
          /\ sheet' \in {sheet, Upserted(w)}
          /\ result' = [result EXCEPT ![w] = "FAILED"]
    /\ UNCHANGED <<leadVars, sinkOn, todo, cur, rec, saw, row, raced>>

\* mark_synced, mark_sync_failed or mark_sync_skipped, and the commit, which
\* again writes sync_status only if it differs from the value loaded.
Mark(w) ==
    /\ wpc[w] = "mark"
    /\ status' = [status EXCEPT ![cur[w]] = IF saw[w] = result[w] THEN @ ELSE result[w]]
    /\ todo' = [todo EXCEPT ![w] = @ \ {cur[w]}]
    /\ wpc' = [wpc EXCEPT ![w] = IF todo[w] = {cur[w]} THEN "idle" ELSE "load"]
    /\ ForgetLead(w)
    /\ UNCHANGED <<asked, time, due, turnSaw, sheet, sinkOn, logVars>>

\* A database error is outside sync's try: it ends the push, and with it the
\* rest of a retry.
MarkFails(w) ==
    /\ wpc[w] \in {"load", "mark"}
    /\ Fault("db")
    /\ todo' = [todo EXCEPT ![w] = {}]
    /\ wpc' = [wpc EXCEPT ![w] = "idle"]
    /\ ForgetLead(w)
    /\ UNCHANGED <<leadVars, sheet, sinkOn, raced>>

(***************************************************************************)
(* The process.                                                            *)
(***************************************************************************)
\* Pushes under way and about to start, and open turns, are forgotten.
Restart ==
    /\ due' = [l \in Leads |-> 0]
    /\ turnSaw' = [l \in Leads |-> "none"]
    /\ wpc' = [w \in Workers |-> "idle"]
    /\ todo' = [w \in Workers |-> {}]
    /\ cur' = [w \in Workers |-> None]
    /\ rec' = [w \in Workers |-> None]
    /\ saw' = [w \in Workers |-> "PENDING"]
    /\ row' = [w \in Workers |-> None]
    /\ result' = [w \in Workers |-> "PENDING"]
    /\ UNCHANGED <<asked, time, status, sheet>>

Crash ==
    /\ Fault("crash")
    /\ Restart
    /\ UNCHANGED <<sinkOn, raced>>

\* A new deployment, with the sink configured.
EnableSink ==
    /\ ~sinkOn
    /\ sinkOn' = TRUE
    /\ Restart
    /\ UNCHANGED logVars

Push(w) == LoadRecord(w) \/ FindRow(w) \/ WriteRow(w) \/ Mark(w)

Next ==
    \/ \E l \in Leads : CreateLead(l) \/ LoadLead(l) \/ Reschedule(l)
    \/ \E w \in Workers : SyncAfterTurn(w) \/ RetryPending(w) \/ Push(w) \/ MarkFails(w)
    \/ Crash
    \/ EnableSink

Spec == Init /\ [][Next]_vars

\* The pushes are run, the sink is configured one day, and the operator
\* calls /leads/sync-pending again as long as something is pending.
Fairness ==
    /\ \A w \in Workers : WF_vars(Push(w))
    /\ WF_vars(EnableSink)
    /\ SF_vars(\E w \in Workers : RetryPending(w))

FairSpec == Spec /\ Fairness

-----------------------------------------------------------------------------
\* Every variable has its shape, and a push that is going to update a row
\* found a row there is.
TypeOK ==
    /\ asked \in Time
    /\ time \in [Leads -> Time]
    /\ status \in [Leads -> SyncStatus]
    /\ due \in [Leads -> Nat]
    /\ turnSaw \in [Leads -> SyncStatus \union {"none"}]
    /\ sheet \in [Leads -> Seq(Time)]
    /\ sinkOn \in BOOLEAN
    /\ wpc \in [Workers -> {"idle", "load", "find", "write", "mark"}]
    /\ todo \in [Workers -> SUBSET Leads]
    /\ cur \in [Workers -> Leads \union {None}]
    /\ rec \in [Workers -> Time]
    /\ saw \in [Workers -> SyncStatus]
    /\ row \in [Workers -> Nat]
    /\ result \in [Workers -> SyncStatus]
    /\ faults \in Nat
    /\ happened \subseteq Faults
    /\ raced \in BOOLEAN
    /\ \A w \in Workers : wpc[w] # "idle" => todo[w] # {}
    /\ \A w \in Workers : wpc[w] \in {"find", "write", "mark"} => cur[w] \in todo[w]
    /\ \A w \in Workers : wpc[w] = "write" => row[w] <= Len(sheet[cur[w]])

\* A lead that counts as delivered is on the sheet: whatever fails, dies or
\* races, SYNCED - the status no retry looks at again - is never recorded for
\* a lead without a row (lead_repository.py: "Only SYNCED is terminal").
SyncedHasRow ==
    \A l \in Leads : status[l] = "SYNCED" => sheet[l] # <<>>

\* "Matching on the Lead ID column keeps one row per lead" (google_sheets.py).
OneRowPerLead ==
    \A l \in Leads : Len(sheet[l]) <= 1

\* Whatever is retried, and also when a write fails after it took effect, a
\* push is cut short or the process dies: only two pushes at once, or a scan of
\* the sheet that failed, can give a lead a second row.
OneRowUnlessRaced ==
    ~raced /\ "find" \notin happened => OneRowPerLead

AtRest == (\A l \in Leads : due[l] = 0) /\ \A w \in Workers : wpc[w] = "idle"

\* Once no push is under way or about to start, a lead that counts as
\* delivered shows its current time: the counselor does not call at a time the
\* customer has moved (lead_repository.py: sync_status returns to PENDING "so
\* the sheet is brought back into line").
SyncedIsCurrent ==
    AtRest => \A l \in Leads : status[l] = "SYNCED" => \E i \in DOMAIN sheet[l] : sheet[l][i] = time[l]

\* ... and it does, however turns that move calls interleave with pushes and
\* retries and whatever the sheet's API does, as long as pushes come one at a
\* time and no push is lost to the database or to a crash.
CurrentUnlessRaced ==
    ~raced /\ happened \intersect {"db", "crash"} = {} => SyncedIsCurrent

\* Every booked call is delivered in the end, also one taken before the sink
\* was configured (list_pending_sync's "SKIPPED counts as pending").
EveryLeadDelivered ==
    \A l \in Leads : Exists(l) ~> status[l] = "SYNCED"
=============================================================================
