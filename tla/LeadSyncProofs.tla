--------------------------- MODULE LeadSyncProofs ---------------------------
(***************************************************************************)
(* Theorems about LeadSync, for every set of leads and of concurrent       *)
(* pushes, every number of call times and every number and kind of         *)
(* failures.                                                               *)
(***************************************************************************)
EXTENDS LeadSync, SequenceTheorems, TLAPS

(***************************************************************************)
(* The sheet.                                                              *)
(***************************************************************************)
\* A write appends the record or overwrites the row it found: the lead's rows
\* stay rows, become no fewer, are at least one, and one of them shows the
\* record; no other lead's rows change.
LEMMA UpsertedRows ==
  ASSUME TypeOK, NEW w \in Workers, wpc[w] = "write"
  PROVE  /\ Upserted(w) \in [Leads -> Seq(Time)]
         /\ \A l \in Leads \ {cur[w]} : Upserted(w)[l] = sheet[l]
         /\ Upserted(w)[cur[w]] # <<>>
         /\ Len(Upserted(w)[cur[w]]) = IF row[w] = None THEN Len(sheet[cur[w]]) + 1
                                                        ELSE Len(sheet[cur[w]])
         /\ \E i \in DOMAIN Upserted(w)[cur[w]] : Upserted(w)[cur[w]][i] = rec[w]
<1> DEFINE c == cur[w]
           old == sheet[c]
           new == IF row[w] = None THEN Append(old, rec[w]) ELSE [old EXCEPT ![row[w]] = rec[w]]
<1>1. c \in Leads /\ old \in Seq(Time) /\ rec[w] \in Time /\ row[w] \in Nat /\ row[w] <= Len(old)
  BY DEF TypeOK
<1>2. Upserted(w) = [sheet EXCEPT ![c] = new]
  BY DEF Upserted
<1>3. /\ new \in Seq(Time)
      /\ Len(new) = IF row[w] = None THEN Len(old) + 1 ELSE Len(old)
      /\ new # <<>>
      /\ \E i \in DOMAIN new : new[i] = rec[w]
  <2>1. CASE row[w] = None
    <3>1. new = Append(old, rec[w])
      BY <2>1
    <3>2. Len(new) = Len(old) + 1 /\ new \in Seq(Time) /\ new # <<>> /\ new[Len(old) + 1] = rec[w]
      BY <1>1, <3>1, AppendProperties
    <3>3. Len(old) + 1 \in DOMAIN new
      BY <1>1, <3>2, LenProperties
    <3> QED
      BY <2>1, <3>2, <3>3
  <2>2. CASE row[w] # None
    <3>1. row[w] \in 1 .. Len(old)
      BY <1>1, <2>2, LenProperties DEF None
    <3>2. new = [old EXCEPT ![row[w]] = rec[w]]
      BY <2>2
    <3>3. new \in Seq(Time) /\ Len(new) = Len(old) /\ new[row[w]] = rec[w]
      BY <1>1, <3>1, <3>2, ExceptSeq
    <3>4. row[w] \in DOMAIN new /\ new # <<>>
      BY <3>1, <3>3, LenProperties, EmptySeq
    <3> QED
      BY <2>2, <3>3, <3>4
  <2> QED
    BY <2>1, <2>2
<1>4. sheet \in [Leads -> Seq(Time)]
  BY DEF TypeOK
<1> HIDE DEF new
<1>5. Upserted(w)[c] = new
  BY <1>1, <1>2, <1>4
<1> QED
  BY <1>1, <1>2, <1>3, <1>4, <1>5

(***************************************************************************)
(* Type correctness.                                                       *)
(***************************************************************************)
\* The initial states are well typed.
LEMMA InitType == Init => TypeOK
<1> SUFFICES ASSUME Init PROVE TypeOK
  OBVIOUS
<1>1. sheet \in [Leads -> Seq(Time)]
  BY EmptySeq DEF Init
<1>2. 0 \in Time
  BY LeadSyncAssumption DEF Time
<1>3. \A w \in Workers : wpc[w] = "idle"
  BY DEF Init
<1>4. /\ asked \in Time /\ time \in [Leads -> Time] /\ status \in [Leads -> SyncStatus]
      /\ due \in [Leads -> Nat] /\ turnSaw \in [Leads -> SyncStatus \union {"none"}]
      /\ sinkOn \in BOOLEAN /\ faults \in Nat /\ happened \subseteq Faults /\ raced \in BOOLEAN
  BY <1>2 DEF Init, SyncStatus, None
<1>5. /\ wpc \in [Workers -> {"idle", "load", "find", "write", "mark"}]
      /\ todo \in [Workers -> SUBSET Leads] /\ cur \in [Workers -> Leads \union {None}]
      /\ rec \in [Workers -> Time] /\ saw \in [Workers -> SyncStatus]
      /\ row \in [Workers -> Nat] /\ result \in [Workers -> SyncStatus]
  BY <1>2 DEF Init, SyncStatus, None
<1> QED
  BY <1>1, <1>3, <1>4, <1>5 DEF TypeOK

\* A push that gives up, or a process that dies, leaves the workers well typed.
LEMMA ForgetLeadType ==
  ASSUME TypeOK, NEW w \in Workers, ForgetLead(w)
  PROVE  /\ cur' \in [Workers -> Leads \union {None}]
         /\ rec' \in [Workers -> Time]
         /\ saw' \in [Workers -> SyncStatus]
         /\ row' \in [Workers -> Nat]
         /\ result' \in [Workers -> SyncStatus]
         /\ \A v \in Workers \ {w} : cur'[v] = cur[v] /\ row'[v] = row[v]
  BY LeadSyncAssumption DEF TypeOK, ForgetLead, Time, SyncStatus, None

LEMMA RestartType ==
  ASSUME TypeOK, Restart, sinkOn' \in BOOLEAN, faults' \in Nat, happened' \subseteq Faults,
         raced' \in BOOLEAN
  PROVE  TypeOK'
  BY LeadSyncAssumption DEF TypeOK, Restart, Time, SyncStatus, None

\* Every step keeps every variable's type, and a push about to update a row
\* finds the row still there.
LEMMA NextType == TypeOK /\ [Next]_vars => TypeOK'
<1> SUFFICES ASSUME TypeOK, [Next]_vars PROVE TypeOK'
  OBVIOUS
<1> USE DEF leadVars, workerVars, logVars
<1>1. ASSUME NEW l \in Leads, CreateLead(l) PROVE TypeOK'
  BY <1>1, LeadSyncAssumption, SMTT(30) DEF CreateLead, TypeOK, Time, SyncStatus
<1>2. ASSUME NEW l \in Leads, LoadLead(l) PROVE TypeOK'
  BY <1>2 DEF LoadLead, TypeOK
<1>3. ASSUME NEW l \in Leads, Reschedule(l) PROVE TypeOK'
  BY <1>3, LeadSyncAssumption DEF Reschedule, TypeOK, Time, SyncStatus
<1>4. ASSUME NEW w \in Workers, SyncAfterTurn(w) PROVE TypeOK'
  <2>1. PICK l \in Leads : Start(w, {l}) /\ due[l] > 0 /\ due' = [due EXCEPT ![l] = @ - 1]
    BY <1>4 DEF SyncAfterTurn
  <2>2. due' \in [Leads -> Nat]
    BY <2>1 DEF TypeOK
  <2>3. /\ todo' \in [Workers -> SUBSET Leads]
        /\ wpc' \in [Workers -> {"idle", "load", "find", "write", "mark"}]
        /\ raced' \in BOOLEAN
        /\ \A v \in Workers : wpc'[v] # "idle" => todo'[v] # {}
    BY <2>1 DEF Start, TypeOK
  <2>4. /\ \A v \in Workers : wpc'[v] \in {"find", "write", "mark"} => cur'[v] \in todo'[v]
        /\ \A v \in Workers : wpc'[v] = "write" => row'[v] <= Len(sheet'[cur'[v]])
    BY <1>4, <2>1 DEF SyncAfterTurn, Start, TypeOK
  <2> QED
    BY <1>4, <2>1, <2>2, <2>3, <2>4 DEF SyncAfterTurn, Start, TypeOK
<1>5. ASSUME NEW w \in Workers, RetryPending(w) PROVE TypeOK'
  BY <1>5 DEF RetryPending, Start, ListPendingSync, TypeOK
<1>6. ASSUME NEW w \in Workers, LoadRecord(w) PROVE TypeOK'
  BY <1>6 DEF LoadRecord, TypeOK, SyncStatus
<1>7. ASSUME NEW w \in Workers, FindRow(w) PROVE TypeOK'
  <2>1. cur[w] \in Leads /\ sheet[cur[w]] \in Seq(Time)
    BY <1>7 DEF FindRow, TypeOK
  <2>2. row' = [row EXCEPT ![w] = row'[w]] /\ row'[w] \in Nat /\ row'[w] <= Len(sheet[cur[w]])
    BY <1>7, <2>1, EmptySeq, LenProperties DEF FindRow, TypeOK, None
  <2>3. faults' \in Nat /\ happened' \subseteq Faults
    BY <1>7 DEF FindRow, Fault, TypeOK
  <2> QED
    BY <1>7, <2>2, <2>3 DEF FindRow, TypeOK
<1>8. ASSUME NEW w \in Workers, WriteRow(w) PROVE TypeOK'
  <2>1. faults' \in Nat /\ happened' \subseteq Faults /\ result' \in [Workers -> SyncStatus]
    <3>1. CASE UNCHANGED <<faults, happened>> /\ result' = [result EXCEPT ![w] = "SYNCED"]
      BY <3>1 DEF TypeOK, SyncStatus
    <3>2. CASE Fault("write") /\ result' = [result EXCEPT ![w] = "FAILED"]
      BY <3>2 DEF Fault, TypeOK, SyncStatus
    <3> QED
      BY <1>8, <3>1, <3>2 DEF WriteRow
  <2>2. sheet' \in {sheet, Upserted(w)} /\ wpc[w] = "write"
    BY <1>8 DEF WriteRow
  <2>3. sheet' \in [Leads -> Seq(Time)]
    BY <2>2, UpsertedRows DEF TypeOK
  <2>4. ASSUME NEW v \in Workers, wpc'[v] = "write" PROVE row'[v] <= Len(sheet'[cur'[v]])
    <3>1. v # w /\ wpc[v] = "write" /\ row'[v] = row[v] /\ cur'[v] = cur[v]
      BY <1>8, <2>4 DEF WriteRow, TypeOK
    <3>2. cur[v] \in Leads /\ row[v] <= Len(sheet[cur[v]]) /\ row[v] \in Nat
      BY <3>1 DEF TypeOK
    <3>3. Len(sheet[cur[v]]) <= Len(sheet'[cur[v]])
      <4>1. Len(sheet[cur[v]]) \in Nat
        BY <3>2, LenProperties DEF TypeOK
      <4> QED
        BY <2>2, <3>2, <4>1, UpsertedRows
    <3>4. Len(sheet[cur[v]]) \in Nat /\ Len(sheet'[cur[v]]) \in Nat
      BY <2>3, <3>2, LenProperties DEF TypeOK
    <3> QED
      BY <3>1, <3>2, <3>3, <3>4
  <2> QED
    BY <1>8, <2>1, <2>3, <2>4 DEF WriteRow, TypeOK
<1>9. ASSUME NEW w \in Workers, Mark(w) PROVE TypeOK'
  BY <1>9, ForgetLeadType DEF Mark, TypeOK
<1>10. ASSUME NEW w \in Workers, MarkFails(w) PROVE TypeOK'
  BY <1>10, ForgetLeadType DEF MarkFails, Fault, TypeOK
<1>11. CASE Crash
  BY <1>11, RestartType DEF Crash, Fault, TypeOK
<1>12. CASE EnableSink
  BY <1>12, RestartType DEF EnableSink, TypeOK
<1>13. CASE UNCHANGED vars
  BY <1>13 DEF vars, TypeOK
<1> QED
  BY <1>1, <1>2, <1>3, <1>4, <1>5, <1>6, <1>7, <1>8, <1>9, <1>10, <1>11, <1>12, <1>13
  DEF Next, Push

\* Every variable keeps its shape, and no row a push has found disappears
\* under it: pushes that interleave only ever add to the sheet.
THEOREM TypeCorrect == Spec => []TypeOK
  BY InitType, NextType, PTL DEF Spec

(***************************************************************************)
(* The inductive invariants.                                               *)
(***************************************************************************)
Pushing(l) == \E w \in Workers : wpc[w] # "idle" /\ l \in todo[w]

\* A push records SYNCED only after it wrote a row.
SyncedInv ==
    /\ SyncedHasRow
    /\ \A w \in Workers : result[w] = "SYNCED" => wpc[w] = "mark" /\ sheet[cur[w]] # <<>>

\* There is one push at a time.
Alone == \A v, w \in Workers : wpc[v] # "idle" /\ wpc[w] # "idle" => v = w

\* A push that found no row, in a scan that worked, is about to write the first.
RowInv ==
    /\ OneRowPerLead
    /\ \A w \in Workers : wpc[w] = "write" /\ row[w] = None => sheet[cur[w]] = <<>>

OneRowInv ==
    ~raced => /\ Alone
              /\ "find" \notin happened => RowInv

\* Nothing is SYNCED, or about to be, while there is no sheet to write to.
SinkInv ==
    /\ \A l \in Leads : status[l] = "SYNCED" => sinkOn
    /\ \A w \in Workers : result[w] = "SYNCED" \/ wpc[w] \in {"find", "write"} => sinkOn

\* The sheet shows the call's current time.
Shown(l) == \E i \in DOMAIN sheet[l] : sheet[l][i] = time[l]

\* A delivered lead is current, unless a push of it is under way or to come;
\* a push carries the current time, unless another push of its lead is to
\* come; and it knows when its lead counts as delivered.
FreshInv ==
    /\ \A l \in Leads : status[l] = "SYNCED" /\ due[l] = 0 /\ ~Pushing(l) => Shown(l)
    /\ \A w \in Workers :
         /\ wpc[w] \in {"find", "write"} /\ due[cur[w]] = 0 => rec[w] = time[cur[w]]
         /\ wpc[w] = "mark" /\ result[w] = "SYNCED" /\ due[cur[w]] = 0 => Shown(cur[w])
         /\ wpc[w] \in {"find", "write", "mark"} /\ status[cur[w]] = "SYNCED" => saw[w] = "SYNCED"

CurrentInv ==
    ~raced /\ happened \intersect {"db", "crash"} = {} => Alone /\ FreshInv

(***************************************************************************)
(* A lead that counts as delivered has a row.                              *)
(***************************************************************************)
\* No step removes a lead's last row.
LEMMA RowsRemain ==
  ASSUME TypeOK, [Next]_vars, NEW l \in Leads, sheet[l] # <<>>
  PROVE  sheet'[l] # <<>>
<1>1. CASE sheet' = sheet
  BY <1>1
<1>2. ASSUME NEW w \in Workers, WriteRow(w) PROVE sheet'[l] # <<>>
  BY <1>2, UpsertedRows DEF WriteRow
<1> QED
  BY <1>1, <1>2 DEF Next, Push, CreateLead, LoadLead, Reschedule, SyncAfterTurn, RetryPending,
     LoadRecord, FindRow, Mark, MarkFails, Crash, EnableSink, Restart, vars

\* A lead's status is what it was, back to PENDING, or what a push recorded.
LEMMA StatusStep ==
  ASSUME TypeOK, [Next]_vars, NEW l \in Leads, status'[l] # status[l], status'[l] # "PENDING"
  PROVE  \E w \in Workers : Mark(w) /\ l = cur[w] /\ status'[l] = result[w]
<1> USE DEF leadVars, workerVars, logVars
<1>1. ASSUME NEW k \in Leads, CreateLead(k) \/ LoadLead(k) \/ Reschedule(k) PROVE FALSE
  <2>1. status' = status \/ (status' = [status EXCEPT ![k] = status'[k]] /\ status'[k] \in {status[k], "PENDING"})
    BY <1>1 DEF CreateLead, LoadLead, Reschedule, TypeOK
  <2> QED
    BY <2>1 DEF TypeOK
<1>2. ASSUME NEW w \in Workers, Mark(w) PROVE l = cur[w] /\ status'[l] = result[w]
  BY <1>2 DEF Mark, TypeOK
<1>3. ASSUME NEW w \in Workers,
             SyncAfterTurn(w) \/ RetryPending(w) \/ LoadRecord(w) \/ FindRow(w) \/ WriteRow(w) \/ MarkFails(w)
      PROVE  FALSE
  BY <1>3 DEF SyncAfterTurn, RetryPending, LoadRecord, FindRow, WriteRow, MarkFails
<1>4. CASE Crash \/ EnableSink \/ UNCHANGED vars
  BY <1>4 DEF Crash, EnableSink, Restart, vars
<1> QED
  BY <1>1, <1>2, <1>3, <1>4 DEF Next, Push

\* A step of one push leaves what the others remember of their leads alone.
LEMMA SyncedStep ==
  ASSUME TypeOK, SyncedInv, [Next]_vars, NEW w \in Workers, result'[w] = "SYNCED"
  PROVE  wpc'[w] = "mark" /\ sheet'[cur'[w]] # <<>>
<1> USE DEF leadVars, workerVars, logVars
<1>1. CASE wpc'[w] = wpc[w] /\ result'[w] = result[w] /\ cur'[w] = cur[w]
  <2>1. wpc[w] = "mark" /\ sheet[cur[w]] # <<>> /\ cur[w] \in Leads
    BY <1>1 DEF SyncedInv, TypeOK
  <2> QED
    BY <1>1, <2>1, RowsRemain
<1>3. ASSUME NEW v \in Workers, SyncAfterTurn(v) PROVE wpc'[w] = wpc[w] /\ result' = result /\ cur' = cur
  <2>1. PICK l \in Leads : Start(v, {l})
    BY <1>3 DEF SyncAfterTurn
  <2> QED
    BY <2>1 DEF Start, SyncedInv, TypeOK
<1>4. ASSUME NEW v \in Workers, RetryPending(v) PROVE wpc'[w] = wpc[w] /\ result' = result /\ cur' = cur
  BY <1>4 DEF RetryPending, Start, SyncedInv, TypeOK
<1>5. ASSUME NEW v \in Workers, LoadRecord(v) PROVE v # w /\ wpc'[w] = wpc[w] /\ result'[w] = result[w] /\ cur'[w] = cur[w]
  BY <1>5 DEF LoadRecord, TypeOK
<1>6. ASSUME NEW v \in Workers, FindRow(v) PROVE wpc'[w] = wpc[w] /\ result' = result /\ cur' = cur
  BY <1>6 DEF FindRow, SyncedInv, TypeOK
<1>7. ASSUME NEW v \in Workers, WriteRow(v), v # w PROVE wpc'[w] = wpc[w] /\ result'[w] = result[w] /\ cur'[w] = cur[w]
  BY <1>7 DEF WriteRow, TypeOK
<1>8. ASSUME WriteRow(w) PROVE wpc'[w] = "mark" /\ sheet'[cur'[w]] # <<>>
  <2>1. sheet' = Upserted(w) /\ wpc[w] = "write" /\ wpc'[w] = "mark" /\ cur' = cur
    BY <1>8 DEF WriteRow, TypeOK
  <2> QED
    BY <2>1, UpsertedRows
<1>9. ASSUME NEW v \in Workers, Mark(v) \/ MarkFails(v) PROVE v # w /\ wpc'[w] = wpc[w] /\ result'[w] = result[w] /\ cur'[w] = cur[w]
  BY <1>9 DEF Mark, MarkFails, ForgetLead, TypeOK
<1>10. ~Restart
  BY DEF Restart
<1> QED
  BY <1>1, <1>3, <1>4, <1>5, <1>6, <1>7, <1>8, <1>9, <1>10
  DEF Next, Push, CreateLead, LoadLead, Reschedule, Crash, EnableSink, vars

\* A step keeps a delivered lead's row, and makes a lead delivered only by
\* recording what a push did.
LEMMA NextSynced == TypeOK /\ SyncedInv /\ [Next]_vars => SyncedInv'
<1> SUFFICES ASSUME TypeOK, SyncedInv, [Next]_vars PROVE SyncedInv'
  OBVIOUS
<1> USE DEF leadVars, workerVars, logVars
<1>1. ASSUME NEW l \in Leads, status'[l] = "SYNCED" PROVE sheet'[l] # <<>>
  <2>1. CASE status[l] = "SYNCED"
    BY <2>1, RowsRemain DEF SyncedInv, SyncedHasRow
  <2>2. CASE status[l] # "SYNCED"
    <3>1. PICK w \in Workers : l = cur[w] /\ result[w] = "SYNCED"
      BY <1>1, <2>2, StatusStep
    <3> QED
      BY <3>1, RowsRemain DEF SyncedInv
  <2> QED
    BY <2>1, <2>2
<1> QED
  BY <1>1, SyncedStep DEF SyncedInv, SyncedHasRow

\* SYNCED, the status no retry looks at again, is never recorded for a lead
\* without a row, whatever fails, dies or races.
THEOREM SyncedLeadsHaveRows == Spec => []SyncedHasRow
<1>1. Init => SyncedInv
  BY DEF Init, SyncedInv, SyncedHasRow
<1>2. Spec => []SyncedInv
  BY <1>1, TypeCorrect, NextSynced, PTL DEF Spec
<1>3. SyncedInv => SyncedHasRow
  BY DEF SyncedInv
<1> QED
  BY <1>2, <1>3, PTL

(***************************************************************************)
(* One row per lead.                                                       *)
(***************************************************************************)
\* While no two pushes have raced, one push at a time is under way.
LEMMA NextAlone ==
  ASSUME TypeOK, ~raced => Alone, [Next]_vars, ~raced'
  PROVE  ~raced /\ Alone /\ Alone'
<1> USE DEF leadVars, workerVars, logVars
<1>1. ASSUME NEW w \in Workers, NEW S, Start(w, S) PROVE ~raced /\ Alone'
  BY <1>1 DEF Start, TypeOK, Alone
<1>2. ASSUME NEW w \in Workers, SyncAfterTurn(w) \/ RetryPending(w) PROVE ~raced /\ Alone'
  BY <1>1, <1>2 DEF SyncAfterTurn, RetryPending
<1>3. ASSUME NEW w \in Workers, LoadRecord(w) \/ FindRow(w) \/ WriteRow(w) \/ Mark(w) \/ MarkFails(w)
      PROVE  ~raced /\ Alone'
  <2>1. wpc[w] # "idle" /\ raced' = raced /\ \A v \in Workers \ {w} : wpc'[v] = wpc[v]
    BY <1>3 DEF LoadRecord, FindRow, WriteRow, Mark, MarkFails, TypeOK
  <2> QED
    BY <2>1 DEF Alone
<1>4. CASE Crash \/ EnableSink
  BY <1>4 DEF Crash, EnableSink, Restart, Alone
<1>5. ASSUME UNCHANGED vars \/ \E l \in Leads : CreateLead(l) \/ LoadLead(l) \/ Reschedule(l)
      PROVE  ~raced /\ Alone'
  BY <1>5 DEF CreateLead, LoadLead, Reschedule, Alone, vars
<1> QED
  BY <1>2, <1>3, <1>4, <1>5 DEF Next, Push

\* Failures are not forgotten.
LEMMA NextHappened == ASSUME [Next]_vars PROVE happened \subseteq happened'
  BY DEF Next, Push, vars, leadVars, workerVars, logVars, CreateLead, LoadLead, Reschedule, SyncAfterTurn,
     RetryPending, LoadRecord, FindRow, WriteRow, Mark, MarkFails, Crash, EnableSink, Fault

\* A push that is alone appends only to a sheet where its scan found no row.
LEMMA NextRow ==
  ASSUME TypeOK, Alone, RowInv, [Next]_vars, "find" \notin happened'
  PROVE  RowInv'
<1> USE DEF leadVars, workerVars, logVars
<1>1. ASSUME NEW w \in Workers, FindRow(w) PROVE RowInv'
  <2>1. row' = [row EXCEPT ![w] = IF sheet[cur[w]] = <<>> THEN None ELSE 1] /\ sheet' = sheet /\ cur' = cur
    BY <1>1 DEF FindRow, Fault
  <2>2. \A v \in Workers \ {w} : wpc'[v] = wpc[v] /\ row'[v] = row[v]
    BY <1>1, <2>1 DEF FindRow, TypeOK
  <2>3. row'[w] = None => sheet[cur[w]] = <<>>
    BY <2>1 DEF TypeOK, None
  <2> QED
    BY <2>1, <2>2, <2>3 DEF RowInv, OneRowPerLead
<1>2. ASSUME NEW w \in Workers, WriteRow(w) PROVE RowInv'
  <2>1. wpc[w] = "write" /\ sheet' \in {sheet, Upserted(w)} /\ cur[w] \in Leads
    BY <1>2 DEF WriteRow, TypeOK
  <2>2. Len(sheet[cur[w]]) \in Nat /\ (sheet[cur[w]] = <<>> => Len(sheet[cur[w]]) = 0)
    BY <2>1, LenProperties, EmptySeq DEF TypeOK
  <2>3. Len(Upserted(w)[cur[w]]) <= 1
    BY <2>1, <2>2, UpsertedRows DEF RowInv, OneRowPerLead
  <2>4. OneRowPerLead'
    BY <2>1, <2>3, UpsertedRows DEF RowInv, OneRowPerLead
  <2>5. \A v \in Workers : wpc'[v] # "write"
    BY <1>2, <2>1 DEF WriteRow, TypeOK, Alone
  <2> QED
    BY <2>4, <2>5 DEF RowInv
<1>3. ASSUME sheet' = sheet,
             \A v \in Workers : wpc'[v] = "write" => wpc[v] = "write" /\ row'[v] = row[v] /\ cur'[v] = cur[v]
      PROVE  RowInv'
  BY <1>3 DEF RowInv, OneRowPerLead
<1>4. ASSUME NEW w \in Workers, NEW S, Start(w, S), sheet' = sheet PROVE RowInv'
  BY <1>3, <1>4 DEF Start, TypeOK
<1>5. ASSUME NEW w \in Workers, SyncAfterTurn(w) \/ RetryPending(w) PROVE RowInv'
  BY <1>4, <1>5 DEF SyncAfterTurn, RetryPending
<1>6. ASSUME NEW w \in Workers, LoadRecord(w) PROVE RowInv'
  BY <1>3, <1>6 DEF LoadRecord, TypeOK
<1>7. ASSUME NEW w \in Workers, Mark(w) \/ MarkFails(w) PROVE RowInv'
  BY <1>3, <1>7 DEF Mark, MarkFails, ForgetLead, TypeOK
<1>8. CASE Crash \/ EnableSink
  BY <1>3, <1>8 DEF Crash, EnableSink, Restart
<1>9. ASSUME UNCHANGED vars \/ \E l \in Leads : CreateLead(l) \/ LoadLead(l) \/ Reschedule(l) PROVE RowInv'
  BY <1>3, <1>9 DEF CreateLead, LoadLead, Reschedule, vars
<1> QED
  BY <1>1, <1>2, <1>5, <1>6, <1>7, <1>8, <1>9 DEF Next, Push

\* Retries, writes that fail after they took effect, pushes that are cut short
\* and crashes give no lead a second row: that takes two pushes at once, or a
\* scan of the sheet that failed.
THEOREM OneRowPerLeadUnlessRaced == Spec => []OneRowUnlessRaced
<1>1. Init => OneRowInv
  BY EmptySeq DEF Init, OneRowInv, Alone, RowInv, OneRowPerLead
<1>2. TypeOK /\ OneRowInv /\ [Next]_vars => OneRowInv'
  <2> SUFFICES ASSUME TypeOK, OneRowInv, [Next]_vars, ~raced'
               PROVE  Alone' /\ ("find" \notin happened' => RowInv')
    BY DEF OneRowInv
  <2>1. ~raced /\ Alone /\ Alone'
    BY NextAlone DEF OneRowInv
  <2>2. "find" \notin happened' => RowInv'
    BY <2>1, NextHappened, NextRow DEF OneRowInv
  <2> QED
    BY <2>1, <2>2
<1>3. OneRowInv => OneRowUnlessRaced
  BY DEF OneRowInv, RowInv, OneRowUnlessRaced
<1> QED
  BY <1>1, <1>2, <1>3, TypeCorrect, PTL DEF Spec

(***************************************************************************)
(* A delivered lead is up to date.                                         *)
(***************************************************************************)
\* The sink is never taken away, and without it no push gets as far as a sheet.
LEMMA NextSink == TypeOK /\ SinkInv /\ [Next]_vars => SinkInv'
<1> SUFFICES ASSUME TypeOK, SinkInv, [Next]_vars PROVE SinkInv'
  OBVIOUS
<1> USE DEF leadVars, workerVars, logVars
<1>1. sinkOn => sinkOn'
  BY DEF Next, Push, vars, CreateLead, LoadLead, Reschedule, SyncAfterTurn, RetryPending, LoadRecord,
     FindRow, WriteRow, Mark, MarkFails, Crash, EnableSink
<1>2. ASSUME NEW l \in Leads, status'[l] = "SYNCED" PROVE sinkOn'
  <2>1. status[l] = "SYNCED" \/ \E w \in Workers : result[w] = "SYNCED"
    BY <1>2, StatusStep
  <2> QED
    BY <1>1, <2>1 DEF SinkInv
<1>3. ASSUME NEW w \in Workers, result'[w] = "SYNCED" \/ wpc'[w] \in {"find", "write"} PROVE sinkOn'
  <2>1. CASE result[w] = "SYNCED" \/ wpc[w] \in {"find", "write"}
    BY <1>1, <2>1 DEF SinkInv
  <2>2. CASE ~(result[w] = "SYNCED" \/ wpc[w] \in {"find", "write"})
    <3>1. ASSUME NEW v \in Workers, NEW S, Start(v, S) PROVE FALSE
      BY <1>3, <2>2, <3>1 DEF Start, TypeOK
    <3>2. ASSUME NEW v \in Workers, SyncAfterTurn(v) \/ RetryPending(v) PROVE FALSE
      BY <3>1, <3>2 DEF SyncAfterTurn, RetryPending
    <3>3. ASSUME NEW v \in Workers, LoadRecord(v) PROVE sinkOn'
      BY <1>3, <2>2, <3>3 DEF LoadRecord, TypeOK
    <3>4. ASSUME NEW v \in Workers, FindRow(v) \/ WriteRow(v) PROVE FALSE
      BY <1>3, <2>2, <3>4 DEF FindRow, WriteRow, TypeOK
    <3>5. ASSUME NEW v \in Workers, Mark(v) \/ MarkFails(v) PROVE FALSE
      BY <1>3, <2>2, <3>5 DEF Mark, MarkFails, ForgetLead, TypeOK
    <3>6. ~Restart
      BY <1>3 DEF Restart
    <3> QED
      BY <1>3, <2>2, <3>2, <3>3, <3>4, <3>5, <3>6
      DEF Next, Push, CreateLead, LoadLead, Reschedule, Crash, EnableSink, vars
  <2> QED
    BY <2>1, <2>2
<1> QED
  BY <1>2, <1>3 DEF SinkInv

\* A booking or a change of its time calls for a push of the lead.
LEMMA TurnFresh ==
  ASSUME TypeOK, FreshInv, NEW l \in Leads, CreateLead(l) \/ LoadLead(l) \/ Reschedule(l)
  PROVE  FreshInv'
<1> USE DEF leadVars, workerVars, logVars
<1>1. /\ UNCHANGED <<sheet, wpc, todo, cur, rec, saw, result>>
      /\ \A k \in Leads \ {l} : time'[k] = time[k] /\ status'[k] = status[k] /\ due'[k] = due[k]
      /\ status'[l] = "SYNCED" => status[l] = "SYNCED"
      /\ \/ due'[l] # 0
         \/ time'[l] = time[l] /\ status'[l] = status[l] /\ due'[l] = due[l]
  BY DEF CreateLead, LoadLead, Reschedule, TypeOK
<1>2. \A w \in Workers : wpc[w] \in {"find", "write", "mark"} => cur[w] \in Leads
  BY DEF TypeOK
<1>3. ASSUME NEW k \in Leads, Shown(k), due'[k] = 0 PROVE Shown(k)'
  BY <1>1, <1>3 DEF Shown
<1>4. ASSUME NEW k \in Leads, status'[k] = "SYNCED", due'[k] = 0, ~Pushing(k)' PROVE Shown(k)'
  BY <1>1, <1>3, <1>4 DEF FreshInv, Pushing
<1>5. ASSUME NEW w \in Workers, wpc'[w] \in {"find", "write"}, due'[cur'[w]] = 0 PROVE rec'[w] = time'[cur'[w]]
  BY <1>1, <1>2, <1>5 DEF FreshInv
<1>6. ASSUME NEW w \in Workers, wpc'[w] = "mark", result'[w] = "SYNCED", due'[cur'[w]] = 0 PROVE Shown(cur[w])'
  <2>1. cur[w] \in Leads /\ due'[cur[w]] = 0 /\ due[cur[w]] = 0
    BY <1>1, <1>2, <1>6
  <2>2. Shown(cur[w])
    BY <1>1, <1>6, <2>1 DEF FreshInv
  <2> QED
    BY <1>1, <2>1, <2>2 DEF Shown
<1>7. ASSUME NEW w \in Workers, wpc'[w] \in {"find", "write", "mark"}, status'[cur'[w]] = "SYNCED"
      PROVE  saw'[w] = "SYNCED"
  BY <1>1, <1>2, <1>7 DEF FreshInv
<1> QED
  BY <1>1, <1>4, <1>5, <1>6, <1>7 DEF FreshInv, Shown

\* A push that starts covers the leads whose notice it takes.
LEMMA StartFresh ==
  ASSUME TypeOK, FreshInv, NEW w \in Workers, SyncAfterTurn(w) \/ RetryPending(w), ~raced'
  PROVE  FreshInv'
<1> USE DEF leadVars, workerVars, logVars
<1>1. PICK S \in SUBSET Leads :
           /\ Start(w, S)
           /\ \A l \in Leads \ S : due'[l] = due[l]
           /\ UNCHANGED <<time, status, sheet>>
  <2>1. CASE SyncAfterTurn(w)
    BY <2>1, ZenonT(40) DEF SyncAfterTurn, TypeOK
  <2>2. CASE RetryPending(w)
    BY <2>2 DEF RetryPending, ListPendingSync
  <2> QED
    BY <2>1, <2>2
<1>2. /\ \A v \in Workers : wpc[v] = "idle"
      /\ wpc' = [wpc EXCEPT ![w] = "load"] /\ todo' = [todo EXCEPT ![w] = S]
  BY <1>1 DEF Start
<1>3. /\ \A v \in Workers : wpc'[v] \notin {"find", "write", "mark"}
      /\ wpc'[w] = "load" /\ todo'[w] = S
  BY <1>2 DEF TypeOK
<1>4. ASSUME NEW l \in Leads, status'[l] = "SYNCED", due'[l] = 0, ~Pushing(l)' PROVE Shown(l)'
  <2>1. l \notin S
    BY <1>3, <1>4 DEF Pushing
  <2>2. status[l] = "SYNCED" /\ due[l] = 0 /\ ~Pushing(l)
    BY <1>1, <1>2, <1>4, <2>1 DEF Pushing
  <2> QED
    BY <1>1, <2>2 DEF FreshInv, Shown
<1> QED
  BY <1>3, <1>4 DEF FreshInv

\* A push that has read its lead carries the time and the status it read.
LEMMA LoadFresh ==
  ASSUME TypeOK, FreshInv, Alone, NEW w \in Workers, LoadRecord(w)
  PROVE  FreshInv'
<1> USE DEF leadVars, workerVars, logVars
<1>1. PICK l \in todo[w] : /\ cur' = [cur EXCEPT ![w] = l]
                           /\ rec' = [rec EXCEPT ![w] = time[l]]
                           /\ saw' = [saw EXCEPT ![w] = status[l]]
  BY DEF LoadRecord
<1>2. /\ wpc[w] = "load" /\ wpc'[w] \in {"find", "mark"} /\ result'[w] = "SKIPPED"
      /\ \A v \in Workers \ {w} : wpc[v] = "idle" /\ wpc'[v] = "idle"
      /\ UNCHANGED <<time, status, due, sheet, todo>>
  BY DEF LoadRecord, Alone, TypeOK
<1>3. cur'[w] = l /\ rec'[w] = time[l] /\ saw'[w] = status[l]
  BY <1>1 DEF TypeOK
<1>4. \A k \in Leads : Pushing(k) => Pushing(k)'
  BY <1>2 DEF Pushing
<1> QED
  BY <1>2, <1>3, <1>4 DEF FreshInv, Shown

\* Scanning the sheet changes none of this.
LEMMA FindFresh ==
  ASSUME TypeOK, FreshInv, NEW w \in Workers, FindRow(w)
  PROVE  FreshInv'
<1> USE DEF leadVars, workerVars, logVars
<1>1. /\ wpc[w] = "find" /\ wpc'[w] = "write"
      /\ \A v \in Workers \ {w} : wpc'[v] = wpc[v]
      /\ UNCHANGED <<time, status, due, sheet, todo, cur, rec, saw, result>>
  BY DEF FindRow, TypeOK
<1>2. \A k \in Leads : Pushing(k) => Pushing(k)'
  BY <1>1 DEF Pushing
<1> QED
  BY <1>1, <1>2 DEF FreshInv, Shown

\* After a write that worked the sheet shows what the push carried.
LEMMA WriteFresh ==
  ASSUME TypeOK, FreshInv, Alone, NEW w \in Workers, WriteRow(w)
  PROVE  FreshInv'
<1> USE DEF leadVars, workerVars, logVars
<1>1. /\ wpc[w] = "write" /\ wpc'[w] = "mark" /\ cur[w] \in Leads /\ cur[w] \in todo[w]
      /\ \A v \in Workers \ {w} : wpc[v] = "idle" /\ wpc'[v] = "idle"
      /\ UNCHANGED <<time, status, due, todo, cur, rec, saw>>
      /\ sheet' \in {sheet, Upserted(w)}
      /\ result'[w] = "SYNCED" => sheet' = Upserted(w)
  BY DEF WriteRow, Alone, TypeOK
<1>2. ASSUME NEW l \in Leads, status'[l] = "SYNCED", due'[l] = 0, ~Pushing(l)' PROVE Shown(l)'
  <2>1. l # cur[w] /\ ~Pushing(l)
    BY <1>1, <1>2 DEF Pushing
  <2>2. Shown(l) /\ sheet'[l] = sheet[l]
    BY <1>1, <1>2, <2>1, UpsertedRows DEF FreshInv
  <2> QED
    BY <1>1, <2>2 DEF Shown
<1>3. ASSUME result'[w] = "SYNCED", due'[cur'[w]] = 0 PROVE Shown(cur[w])'
  BY <1>1, <1>3, UpsertedRows DEF FreshInv, Shown
<1>4. status'[cur'[w]] = "SYNCED" => saw'[w] = "SYNCED"
  BY <1>1 DEF FreshInv
<1> QED
  BY <1>1, <1>2, <1>3, <1>4 DEF FreshInv, Shown

\* A push records SYNCED for a time the sheet shows, and takes a SYNCED it
\* did not earn back.
LEMMA MarkFresh ==
  ASSUME TypeOK, FreshInv, Alone, NEW w \in Workers, Mark(w)
  PROVE  FreshInv'
<1> USE DEF leadVars, workerVars, logVars
<1>1. /\ wpc[w] = "mark" /\ cur[w] \in Leads
      /\ wpc'[w] = IF todo[w] = {cur[w]} THEN "idle" ELSE "load"
      /\ todo'[w] = todo[w] \ {cur[w]}
      /\ \A v \in Workers \ {w} : wpc[v] = "idle" /\ wpc'[v] = "idle"
      /\ UNCHANGED <<time, due, sheet>>
      /\ status'[cur[w]] = IF saw[w] = result[w] THEN status[cur[w]] ELSE result[w]
      /\ \A l \in Leads \ {cur[w]} : status'[l] = status[l]
  BY DEF Mark, Alone, TypeOK
<1>2. ASSUME NEW l \in Leads, status'[l] = "SYNCED", due'[l] = 0, ~Pushing(l)' PROVE Shown(l)
  <2>1. CASE l = cur[w]
    BY <1>1, <1>2, <2>1 DEF FreshInv
  <2>2. CASE l # cur[w]
    <3>1. l \in todo[w] => todo[w] # {cur[w]} /\ l \in todo'[w]
      BY <1>1, <2>2
    <3>2. l \notin todo[w]
      BY <1>1, <1>2, <3>1 DEF Pushing
    <3>3. ~Pushing(l)
      BY <1>1, <3>2 DEF Pushing
    <3> QED
      BY <1>1, <1>2, <2>2, <3>3 DEF FreshInv
  <2> QED
    BY <2>1, <2>2
<1>3. \A v \in Workers : wpc'[v] \notin {"find", "write", "mark"}
  BY <1>1
<1>4. \A l \in Leads : Shown(l) => Shown(l)'
  BY <1>1 DEF Shown
<1> QED
  BY <1>2, <1>3, <1>4 DEF FreshInv

\* Unless two pushes race, or one is lost to the database or to a crash.
LEMMA NextFresh ==
  ASSUME TypeOK, SinkInv, FreshInv, Alone, [Next]_vars, ~raced', happened' \intersect {"db", "crash"} = {}
  PROVE  FreshInv'
<1> USE DEF leadVars, workerVars, logVars
<1>1. ~Crash /\ \A w \in Workers : ~MarkFails(w)
  BY DEF Crash, MarkFails, Fault
<1>2. CASE EnableSink
  <2>1. \A l \in Leads : status'[l] # "SYNCED"
    BY <1>2 DEF EnableSink, Restart, SinkInv
  <2>2. \A w \in Workers : wpc'[w] = "idle"
    BY <1>2 DEF EnableSink, Restart
  <2> QED
    BY <2>1, <2>2 DEF FreshInv
<1>3. CASE UNCHANGED vars
  BY <1>3 DEF vars, FreshInv, Shown, Pushing
<1> QED
  BY <1>1, <1>2, <1>3, TurnFresh, StartFresh, LoadFresh, FindFresh, WriteFresh, MarkFresh DEF Next, Push

\* Once nothing is under way or to come, a delivered lead shows its current
\* time, however turns that move the call interleave with pushes and retries
\* and whatever the sheet's API does, as long as pushes come one at a time and
\* none is lost to the database or to a crash.
THEOREM DeliveredLeadsAreCurrent == Spec => []CurrentUnlessRaced
<1>1. Init => SinkInv /\ CurrentInv
  BY DEF Init, SinkInv, CurrentInv, Alone, FreshInv
<1>2. TypeOK /\ SinkInv /\ CurrentInv /\ [Next]_vars => CurrentInv'
  <2> SUFFICES ASSUME TypeOK, SinkInv, CurrentInv, [Next]_vars,
                      ~raced', happened' \intersect {"db", "crash"} = {}
               PROVE  Alone' /\ FreshInv'
    BY DEF CurrentInv
  <2>1. happened \intersect {"db", "crash"} = {}
    BY NextHappened
  <2>2. raced => raced'
    BY DEF Next, Push, vars, leadVars, workerVars, logVars, CreateLead, LoadLead, Reschedule, SyncAfterTurn,
       RetryPending, Start, LoadRecord, FindRow, WriteRow, Mark, MarkFails, Crash, EnableSink
  <2>3. Alone /\ FreshInv
    BY <2>1, <2>2 DEF CurrentInv
  <2> QED
    BY <2>3, NextAlone, NextFresh
<1>3. TypeOK /\ CurrentInv => CurrentUnlessRaced
  BY DEF CurrentInv, CurrentUnlessRaced, SyncedIsCurrent, AtRest, FreshInv, Pushing, Shown
<1> QED
  BY <1>1, <1>2, <1>3, TypeCorrect, NextSink, PTL DEF Spec

(***************************************************************************)
(* No row goes back to an older time.                                      *)
(***************************************************************************)
\* No row of the lead shows a time asked for after t.
NoneLater(l, t) == \A i \in DOMAIN sheet[l] : sheet[l][i] <= t

\* The sheet and the records on their way to it have times asked for, and a push that is alone
\* carries one no older than what the sheet shows.
TimesInv ==
    /\ \A l \in Leads : time[l] <= asked /\ NoneLater(l, time[l])
    /\ \A w \in Workers : wpc[w] \in {"find", "write"} =>
        /\ rec[w] <= time[cur[w]]
        /\ ~raced => NoneLater(cur[w], rec[w])

\* Rows stay where they are, and show what they did or a time no older.
RowsAdvance ==
    ~raced => \A l \in Leads : \A i \in DOMAIN sheet[l] : i \in DOMAIN sheet'[l] /\ sheet'[l][i] >= sheet[l][i]

LEMMA SheetNumbers ==
  ASSUME NEW s \in [Leads -> Seq(Time)]
  PROVE  \A l \in Leads : \A i \in DOMAIN s[l] : s[l][i] \in Nat
<1> SUFFICES ASSUME NEW l \in Leads, NEW i \in DOMAIN s[l] PROVE s[l][i] \in Nat
  OBVIOUS
<1>1. s[l] \in Seq(Time) /\ i \in 1..Len(s[l])
  BY LenProperties
<1>2. s[l][i] \in Time
  BY <1>1, ElementOfSeq
<1> QED
  BY <1>2 DEF Time

LEMMA UpsertedTimes ==
  ASSUME TypeOK, NEW w \in Workers, wpc[w] = "write"
  PROVE  /\ \A i \in DOMAIN sheet[cur[w]] :
                i \in DOMAIN Upserted(w)[cur[w]] /\ Upserted(w)[cur[w]][i] \in {sheet[cur[w]][i], rec[w]}
         /\ \A i \in DOMAIN Upserted(w)[cur[w]] :
                \/ Upserted(w)[cur[w]][i] = rec[w]
                \/ i \in DOMAIN sheet[cur[w]] /\ Upserted(w)[cur[w]][i] = sheet[cur[w]][i]
<1> DEFINE c == cur[w]
           old == sheet[c]
<1>1. /\ c \in Leads /\ old \in Seq(Time) /\ rec[w] \in Time /\ row[w] \in Nat /\ row[w] <= Len(old)
      /\ Len(old) \in Nat /\ DOMAIN old = 1..Len(old) /\ sheet \in [Leads -> Seq(Time)]
  BY LenProperties DEF TypeOK
<1>2. CASE row[w] = None
  <2>1. Upserted(w)[c] = Append(old, rec[w])
    BY <1>1, <1>2 DEF Upserted
  <2>2. /\ Append(old, rec[w]) \in Seq(Time) /\ Len(Append(old, rec[w])) = Len(old) + 1
        /\ \A i \in 1..Len(old) : Append(old, rec[w])[i] = old[i]
        /\ Append(old, rec[w])[Len(old) + 1] = rec[w]
    BY <1>1, AppendProperties
  <2>3. DOMAIN Append(old, rec[w]) = 1..(Len(old) + 1)
    BY <1>1, <2>2, LenProperties
  <2> QED
    BY <1>1, <2>1, <2>2, <2>3
<1>3. CASE row[w] # None
  <2>1. Upserted(w)[c] = [old EXCEPT ![row[w]] = rec[w]]
    BY <1>1, <1>3 DEF Upserted
  <2>2. DOMAIN [old EXCEPT ![row[w]] = rec[w]] = DOMAIN old
    OBVIOUS
  <2>3. \A i \in DOMAIN old : [old EXCEPT ![row[w]] = rec[w]][i] = IF i = row[w] THEN rec[w] ELSE old[i]
    OBVIOUS
  <2> QED
    BY <2>1, <2>2, <2>3
<1> QED
  BY <1>2, <1>3

\* Whatever is written is a time the customer asked for, and no later than the call's.
LEMMA WriteTimes ==
  ASSUME TypeOK, TimesInv, NEW w \in Workers, WriteRow(w)
  PROVE  /\ \A l \in Leads : NoneLater(l, time[l])'
         /\ ~raced => RowsAdvance
<1>1. wpc[w] = "write" /\ sheet' \in {sheet, Upserted(w)} /\ cur[w] \in Leads /\ time' = time
  BY DEF WriteRow, TypeOK, leadVars
<1>2. sheet \in [Leads -> Seq(Time)] /\ sheet' \in [Leads -> Seq(Time)]
  BY <1>1, UpsertedRows DEF TypeOK
<1>3. \A l \in Leads : /\ \A i \in DOMAIN sheet[l] : sheet[l][i] \in Nat
                       /\ \A i \in DOMAIN sheet'[l] : sheet'[l][i] \in Nat
  BY <1>2, SheetNumbers
<1>4. rec[w] \in Nat /\ \A l \in Leads : time[l] \in Nat
  BY DEF TypeOK, Time
<1>5. CASE sheet' = sheet
  BY <1>1, <1>3, <1>5 DEF TimesInv, NoneLater, RowsAdvance
<1>6. CASE sheet' = Upserted(w)
  <2>1. \A l \in Leads \ {cur[w]} : sheet'[l] = sheet[l]
    BY <1>1, <1>6, UpsertedRows
  <2>2. \A i \in DOMAIN sheet'[cur[w]] :
            \/ sheet'[cur[w]][i] = rec[w]
            \/ i \in DOMAIN sheet[cur[w]] /\ sheet'[cur[w]][i] = sheet[cur[w]][i]
    BY <1>1, <1>6, UpsertedTimes
  <2>3. \A i \in DOMAIN sheet[cur[w]] :
            i \in DOMAIN sheet'[cur[w]] /\ sheet'[cur[w]][i] \in {sheet[cur[w]][i], rec[w]}
    BY <1>1, <1>6, UpsertedTimes
  <2>4. \A i \in DOMAIN sheet'[cur[w]] : sheet'[cur[w]][i] <= time[cur[w]]
    BY <1>1, <2>2 DEF TimesInv, NoneLater
  <2>5. ASSUME ~raced, NEW i \in DOMAIN sheet[cur[w]] PROVE sheet'[cur[w]][i] >= sheet[cur[w]][i]
    BY <1>1, <1>3, <1>4, <2>3, <2>5 DEF TimesInv, NoneLater
  <2> QED
    BY <1>1, <1>3, <2>1, <2>3, <2>4, <2>5 DEF TimesInv, NoneLater, RowsAdvance
<1> QED
  BY <1>1, <1>5, <1>6

\* A time handed out is later than every one before.
LEMMA TurnTimes ==
  ASSUME TypeOK, TimesInv, NEW l \in Leads, CreateLead(l) \/ LoadLead(l) \/ Reschedule(l)
  PROVE  TimesInv'
<1> USE DEF leadVars, workerVars, logVars
<1>1. UNCHANGED <<sheet, wpc, cur, rec, raced>> /\ asked \in Nat /\ time \in [Leads -> Nat]
  BY DEF CreateLead, LoadLead, Reschedule, TypeOK, Time
<1>2. asked' \in Nat /\ time' \in [Leads -> Nat] /\ \A k \in Leads : time'[k] <= asked' /\ time[k] <= time'[k]
  BY <1>1 DEF CreateLead, LoadLead, Reschedule, TimesInv
<1>3. ASSUME NEW k \in Leads, NEW t \in Nat, NEW u \in Nat, t <= u, NoneLater(k, t) PROVE NoneLater(k, u)
  <2>1. \A i \in DOMAIN sheet[k] : sheet[k][i] \in Nat
    BY SheetNumbers DEF TypeOK
  <2> QED
    BY <1>3, <2>1 DEF NoneLater
<1>4. \A k \in Leads : NoneLater(k, time'[k])
  BY <1>1, <1>2, <1>3 DEF TimesInv
<1>5. \A w \in Workers : wpc[w] \in {"find", "write"} => cur[w] \in Leads /\ rec[w] \in Nat
  BY DEF TypeOK, Time
<1> QED
  BY <1>1, <1>2, <1>4, <1>5 DEF TimesInv, NoneLater

LEMMA NextTimes ==
  ASSUME TypeOK, TimesInv, ~raced => Alone, [Next]_vars
  PROVE  TimesInv' /\ RowsAdvance
<1> USE DEF leadVars, workerVars, logVars
<1>0. \A l \in Leads : \A i \in DOMAIN sheet[l] : sheet[l][i] \in Nat
  BY SheetNumbers DEF TypeOK
<1>1. ASSUME NEW l \in Leads, CreateLead(l) \/ LoadLead(l) \/ Reschedule(l) PROVE TimesInv' /\ sheet' = sheet
  <2>1. sheet' = sheet
    BY <1>1 DEF CreateLead, LoadLead, Reschedule
  <2> QED
    BY <1>1, <2>1, TurnTimes
<1>2. ASSUME UNCHANGED <<asked, time, sheet>>, raced => raced',
             \A w \in Workers : wpc'[w] \in {"find", "write"} =>
                 wpc[w] \in {"find", "write"} /\ rec'[w] = rec[w] /\ cur'[w] = cur[w]
      PROVE  TimesInv'
  BY <1>2 DEF TimesInv, NoneLater
<1>3. ASSUME NEW w \in Workers, SyncAfterTurn(w) \/ RetryPending(w) PROVE TimesInv' /\ sheet' = sheet
  <2>1. PICK S : Start(w, S)
    BY <1>3 DEF SyncAfterTurn, RetryPending
  <2>2. UNCHANGED <<asked, time, sheet>>
    BY <1>3 DEF SyncAfterTurn, RetryPending
  <2>3. \A v \in Workers : wpc'[v] \in {"find", "write"} => wpc[v] \in {"find", "write"} /\ rec'[v] = rec[v] /\ cur'[v] = cur[v]
    BY <2>1 DEF Start, TypeOK
  <2>4. raced => raced'
    BY <2>1 DEF Start
  <2> QED
    BY <1>2, <2>2, <2>3, <2>4
<1>4. ASSUME NEW w \in Workers, LoadRecord(w) PROVE TimesInv' /\ sheet' = sheet
  <2>1. PICK l \in todo[w] : cur' = [cur EXCEPT ![w] = l] /\ rec' = [rec EXCEPT ![w] = time[l]]
    BY <1>4 DEF LoadRecord
  <2>2. /\ UNCHANGED <<asked, time, sheet, raced>> /\ l \in Leads /\ time[l] \in Nat
        /\ \A v \in Workers \ {w} : wpc'[v] = wpc[v]
    BY <1>4 DEF LoadRecord, TypeOK, Time
  <2>3. /\ cur'[w] = l /\ rec'[w] = time[l]
        /\ \A v \in Workers \ {w} : cur'[v] = cur[v] /\ rec'[v] = rec[v]
    BY <2>1 DEF TypeOK
  <2> QED
    BY <2>2, <2>3 DEF TimesInv, NoneLater
<1>5. ASSUME NEW w \in Workers, FindRow(w) PROVE TimesInv' /\ sheet' = sheet
  <2>1. wpc[w] = "find" /\ \A v \in Workers \ {w} : wpc'[v] = wpc[v]
    BY <1>5 DEF FindRow, TypeOK
  <2>2. UNCHANGED <<asked, time, sheet, raced, cur, rec>>
    BY <1>5 DEF FindRow
  <2> QED
    BY <1>2, <2>1, <2>2
<1>6. ASSUME NEW w \in Workers, WriteRow(w) PROVE TimesInv' /\ RowsAdvance
  <2>1. /\ wpc[w] = "write" /\ wpc'[w] = "mark" /\ \A v \in Workers \ {w} : wpc'[v] = wpc[v]
        /\ UNCHANGED <<asked, time, raced, cur, rec>>
    BY <1>6 DEF WriteRow, TypeOK
  <2>2. /\ \A l \in Leads : NoneLater(l, time[l])'
        /\ RowsAdvance
    BY <1>6, WriteTimes DEF RowsAdvance
  <2>3. ~raced => \A v \in Workers : wpc'[v] \notin {"find", "write"}
    BY <2>1 DEF Alone
  <2> QED
    BY <2>1, <2>2, <2>3 DEF TimesInv
<1>7. ASSUME NEW w \in Workers, Mark(w) \/ MarkFails(w) PROVE TimesInv' /\ sheet' = sheet
  <2>1. wpc'[w] \notin {"find", "write"} /\ UNCHANGED <<asked, time, sheet, raced>>
    BY <1>7 DEF Mark, MarkFails, TypeOK
  <2>2. \A v \in Workers \ {w} : wpc'[v] = wpc[v] /\ cur'[v] = cur[v] /\ rec'[v] = rec[v]
    BY <1>7 DEF Mark, MarkFails, ForgetLead, TypeOK
  <2> QED
    BY <1>2, <2>1, <2>2
<1>8. ASSUME Crash \/ EnableSink PROVE TimesInv' /\ sheet' = sheet
  <2>1. UNCHANGED <<asked, time, sheet, raced>> /\ \A w \in Workers : wpc'[w] = "idle"
    BY <1>8 DEF Crash, EnableSink, Restart
  <2>2. TimesInv'
    BY <1>2, <2>1
  <2> QED
    BY <2>1, <2>2
<1>9. ASSUME UNCHANGED vars PROVE TimesInv' /\ sheet' = sheet
  BY <1>2, <1>9 DEF vars
<1>10. ASSUME sheet' = sheet PROVE RowsAdvance
  BY <1>0, <1>10 DEF RowsAdvance
<1> QED
  BY <1>1, <1>3, <1>4, <1>5, <1>6, <1>7, <1>8, <1>9, <1>10 DEF Next, Push

\* While pushes come one at a time no row of the sheet goes back to a time the customer has since
\* moved, or disappears: not over retries, scans and writes that fail, writes that took effect and
\* count as failed, and crashes between any two steps.
THEOREM RowsNeverGoBack == Spec => [][RowsAdvance]_vars
<1>1. Init => TimesInv /\ (~raced => Alone)
  <2> SUFFICES ASSUME Init PROVE TimesInv /\ Alone
    OBVIOUS
  <2>1. \A w \in Workers : wpc[w] = "idle"
    BY DEF Init
  <2>2. asked = 0 /\ \A l \in Leads : time[l] = 0 /\ sheet[l] = <<>>
    BY DEF Init, None
  <2>3. DOMAIN <<>> = {}
    OBVIOUS
  <2> QED
    BY <2>1, <2>2, <2>3 DEF TimesInv, NoneLater, Alone
<1>2. TypeOK /\ TimesInv /\ (~raced => Alone) /\ [Next]_vars => TimesInv' /\ (~raced' => Alone') /\ RowsAdvance
  BY NextTimes, NextAlone
<1> QED
  BY <1>1, <1>2, TypeCorrect, PTL DEF Spec
=============================================================================
