------------------------- MODULE AgentConsoleProofs -------------------------
(***************************************************************************)
(* Theorems about AgentConsole, for every set of contacts, every size of   *)
(* the signals' buffer, and any number of fetches in flight, of acts of    *)
(* agents and customers, and of failures.                                  *)
(***************************************************************************)
EXTENDS AgentConsole, SequenceTheorems, FiniteSetTheorems, WellFoundedInduction, TLAPS

(***************************************************************************)
(* The shape of the state, as far as the theorems need it.                 *)
(***************************************************************************)
Stamped == [value : BOOLEAN, at : Nat]
Contacts == [Phones -> [Fields -> Stamped]]
ToggleState == [pending : BOOLEAN, shown : Stamped, was : Stamped, epoch : Nat]
Stages == {"sent", "inserted", "committed", "answered", "refused"}
Messages == [phone : Phones, by : {"agent", "turn"}, stage : {"inserted", "published", "committed", "gone"}]

IsList(r) ==
    /\ r.kind = "list" /\ {"kind", "data"} \subseteq DOMAIN r
    /\ r.data.served = TRUE /\ r.data.contacts \in Contacts
IsThread(r) ==
    /\ r.kind = "thread" /\ {"kind", "phone", "epochs", "data"} \subseteq DOMAIN r
    /\ r.phone \in Phones
    /\ r.epochs \in [Toggles -> Nat]
    /\ r.data.served \in BOOLEAN
    /\ r.data.served => r.data.contact \in [Fields -> Stamped]

HasResult(q) == "result" \in DOMAIN q
IsPost(q) ==
    /\ {"n", "field", "phone", "want", "opening", "stage"} \subseteq DOMAIN q
    /\ q.field \in Fields \cup {"message"}
    /\ q.phone \in Phones
    /\ q.want \in BOOLEAN
    /\ q.opening \in Nat
    /\ q.stage \in Stages
    /\ q.stage = "sent" => ~HasResult(q)
    /\ q.stage \in {"inserted", "committed", "answered"} => HasResult(q)
    /\ q.stage = "inserted" => q.field = "message"
    /\ HasResult(q) /\ q.field \in Fields => q.result \in Stamped

Shape ==
    /\ contact \in Contacts
    /\ log \in Seq(Messages)
    /\ queue \in Seq(Phones)
    /\ current \in Phones \cup {NoOne}
    /\ toggle \in [Toggles -> ToggleState]
    /\ rows \in Contacts
    /\ \A r \in reads : IsList(r) \/ IsThread(r)
    /\ \A q \in posts : IsPost(q)
    /\ opens \in Nat
    /\ tangled \in BOOLEAN

(***************************************************************************)
(* The inductive invariants.                                               *)
(***************************************************************************)
\* What the tab holds of a contact, what is on its way to it and what an
\* endpoint has answered is no newer than the contact.
RowsInv == \A p \in Phones, f \in Toggles : rows[p][f].at <= contact[p][f].at
ListsInv == \A r \in reads, p \in Phones, f \in Toggles :
    r.kind = "list" => r.data.contacts[p][f].at <= contact[p][f].at
ThreadsInv == \A r \in reads, f \in Toggles :
    r.kind = "thread" /\ r.data.served => r.data.contact[f].at <= contact[r.phone][f].at
ResultsInv == \A q \in posts :
    q.field \in Toggles /\ HasResult(q) => q.result.at <= contact[q.phone][q.field].at

NothingAhead == RowsInv /\ ListsInv /\ ThreadsInv /\ ResultsInv

\* Clicks and openings are numbered upwards; a click that fails goes back to
\* what was shown.
Numbered ==
    /\ \A f \in Toggles : toggle[f].was.at = toggle[f].shown.at
    /\ \A r \in reads : r.kind = "thread" => \A f \in Toggles : r.epochs[f] <= toggle[f].epoch
    /\ \A q \in posts : q.opening <= opens

\* The fetches whose answer the button f would take.
Fresh(r, f) == r \in reads /\ r.kind = "thread" /\ r.epochs[f] = toggle[f].epoch
\* The clicks of the button f since the thread was opened.
Clicked(q, f) == q \in posts /\ q.field = f /\ q.opening = opens

ShownInv(f) == current # NoOne => toggle[f].shown.at <= contact[current][f].at
FetchInv(f) ==
    /\ \A r \in reads : Fresh(r, f) /\ r.data.served /\ r.phone = current => toggle[f].shown.at <= r.data.contact[f].at
    /\ \A r1, r2 \in reads : Fresh(r1, f) /\ Fresh(r2, f) => r1 = r2
ClickInv(f) ==
    /\ \A q \in posts : Clicked(q, f) =>
           /\ toggle[f].pending
           /\ current \in {q.phone, NoOne}
           /\ toggle[f].shown.at <= IF HasResult(q) THEN q.result.at ELSE contact[q.phone][f].at
    /\ \A q1, q2 \in posts : Clicked(q1, f) /\ Clicked(q2, f) => q1 = q2

\* Unless fetches of the thread overlapped or a click was answered late, at
\* most one fetch and one click can move a button, and both are to bring
\* something no older than it shows.
PaneInv == ~tangled => \A f \in Toggles : ShownInv(f) /\ FetchInv(f) /\ ClickInv(f)

ConsoleInv == Shape /\ NothingAhead /\ Numbered /\ PaneInv

(***************************************************************************)
(* The operators.                                                          *)
(***************************************************************************)
LEMMA SignalledKept ==
  ASSUME NEW q \in Seq(Phones), NEW p \in Phones
  PROVE  Signalled(q, p) \in Seq(Phones) /\ Signalled(q, p) # <<>>
<1>1. CASE Len(q) = QueueSize
  <2>1. q # <<>>
    BY <1>1, ConsoleAssumption, EmptySeq
  <2>2. Tail(q) \in Seq(Phones)
    BY <2>1, HeadTailProperties
  <2> QED
    BY <1>1, <2>2, AppendProperties DEF Signalled
<1>2. CASE Len(q) # QueueSize
  BY <1>2, AppendProperties DEF Signalled
<1> QED
  BY <1>1, <1>2

LEMMA StageMoved ==
  ASSUME NEW q, NEW s \in Stages, IsPost(q), s # "sent", s = "inserted" => q.field = "message",
         s \in {"inserted", "committed", "answered"} => HasResult(q)
  PROVE  /\ IsPost(To(q, s))
         /\ To(q, s).stage = s
         /\ To(q, s).field = q.field /\ To(q, s).phone = q.phone /\ To(q, s).want = q.want
         /\ To(q, s).opening = q.opening
         /\ HasResult(To(q, s)) <=> HasResult(q)
         /\ HasResult(q) => To(q, s).result = q.result
  BY DEF To, IsPost, HasResult

LEMMA ResultGiven ==
  ASSUME NEW q, NEW s \in Stages, NEW v, IsPost(q), ~HasResult(q), s # "sent",
         s = "inserted" => q.field = "message", q.field \in Fields => v \in Stamped
  PROVE  LET t == WithResult(To(q, s), v)
         IN  /\ IsPost(t)
             /\ t.stage = s /\ t.field = q.field /\ t.phone = q.phone /\ t.want = q.want
             /\ t.opening = q.opening
             /\ HasResult(t) /\ t.result = v
<1> DEFINE u == To(q, s)
           t == WithResult(u, v)
<1>1. /\ {"n", "field", "phone", "want", "opening", "stage"} \subseteq DOMAIN u
      /\ u.stage = s /\ u.field = q.field /\ u.phone = q.phone /\ u.want = q.want
      /\ u.opening = q.opening
  BY DEF To, IsPost
<1> HIDE DEF u
<1>2. DOMAIN t = DOMAIN u \cup {"result"} /\ t.result = v
  BY DEF WithResult
<1>3. t.n = u.n /\ t.stage = u.stage /\ t.field = u.field /\ t.phone = u.phone /\ t.want = u.want
      /\ t.opening = u.opening /\ HasResult(t)
  BY <1>1, <1>2 DEF WithResult, HasResult
<1> HIDE DEF t
<1>4. IsPost(t)
  BY <1>1, <1>2, <1>3 DEF IsPost
<1> QED
  BY <1>1, <1>2, <1>3, <1>4 DEF t, u

LEMMA ToggleMoved ==
  ASSUME NEW t \in ToggleState, NEW v \in Stamped, NEW e
  PROVE  /\ Click(t) \in ToggleState /\ Click(t).shown.at = t.shown.at
         /\ Confirmed(t, v) \in ToggleState /\ Confirmed(t, v).shown = v
         /\ Failed(t) \in ToggleState /\ Failed(t).shown = t.was
         /\ Observed(t, v, e) \in ToggleState
         /\ Observed(t, v, e).shown \in {v, t.shown}
         /\ Click(t).pending
         /\ Click(t).was.at = Click(t).shown.at
         /\ Confirmed(t, v).was = v /\ Failed(t).was = Failed(t).shown
         /\ Click(t).epoch = t.epoch + 1 /\ Confirmed(t, v).epoch = t.epoch + 1 /\ Failed(t).epoch = t.epoch + 1
         /\ Observed(t, v, e).epoch = t.epoch
         /\ t.pending => Observed(t, v, e) = t
<1>1. /\ t.shown \in Stamped /\ t.was \in Stamped /\ t.epoch \in Nat /\ t.pending \in BOOLEAN
  BY DEF ToggleState
<1>2. \A c \in Stamped, n \in Nat :
         /\ Settled(c, n) \in ToggleState
         /\ Settled(c, n).shown = c /\ Settled(c, n).was = c /\ Settled(c, n).epoch = n
  BY DEF Settled, ToggleState
<1>3. [t.shown EXCEPT !.value = ~@] \in Stamped /\ [t.shown EXCEPT !.value = ~@].at = t.shown.at
  BY <1>1 DEF Stamped
<1>4. Click(t) \in ToggleState /\ Click(t).shown = [t.shown EXCEPT !.value = ~@] /\ Click(t).pending
      /\ Click(t).was = t.shown /\ Click(t).epoch = t.epoch + 1
  BY <1>1, <1>3 DEF Click, ToggleState
<1>5. t.epoch + 1 \in Nat
  BY <1>1
<1>6. /\ Observed(t, v, e) \in ToggleState
      /\ Observed(t, v, e).shown \in {v, t.shown}
      /\ Observed(t, v, e).epoch = t.epoch
      /\ t.pending => Observed(t, v, e) = t
  BY <1>1, <1>2 DEF Observed
<1> QED
  BY <1>1, <1>2, <1>3, <1>4, <1>5, <1>6 DEF Confirmed, Failed

LEMMA AgentMoves ==
  ASSUME NEW t \in ToggleState
  PROVE  /\ Click(t).shown.at = t.shown.at /\ Click(t).pending /\ Click(t).epoch = t.epoch + 1
         /\ Failed(t).shown = t.was /\ Failed(t).epoch = t.epoch + 1
         /\ \A v \in Stamped : Confirmed(t, v).shown = v /\ Confirmed(t, v).epoch = t.epoch + 1
<1>1. t.shown \in Stamped
  BY DEF ToggleState
<1>2. Click(t).shown.at = t.shown.at /\ Click(t).pending /\ Click(t).epoch = t.epoch + 1
  BY <1>1 DEF Click, Stamped
<1>3. Failed(t).shown = t.was /\ Failed(t).epoch = t.epoch + 1
  BY DEF Failed, Settled
<1>4. \A v \in Stamped : Confirmed(t, v).shown = v /\ Confirmed(t, v).epoch = t.epoch + 1
  BY DEF Confirmed, Settled
<1> QED
  BY <1>2, <1>3, <1>4

LEMMA EpochsType == Shape => Epochs \in [Toggles -> Nat]
  BY DEF Shape, Epochs, ToggleState

LEMMA ReadsMade ==
  ASSUME Shape, NEW p \in Phones, NEW full \in BOOLEAN
  PROVE  /\ IsList(ListRead) /\ ListRead.data.contacts = contact
         /\ LET r == ThreadRead(p, full, Epochs)
            IN  IsThread(r) /\ r.phone = p /\ r.epochs = Epochs /\ ~r.data.served
<1>1. IsList(ListRead) /\ ListRead.data.contacts = contact
  BY DEF Shape, ListRead, IsList
<1>2. /\ ThreadRead(p, full, Epochs).kind = "thread" /\ ThreadRead(p, full, Epochs).phone = p
      /\ ThreadRead(p, full, Epochs).epochs = Epochs /\ ThreadRead(p, full, Epochs).data = Unserved
      /\ {"kind", "phone", "epochs", "data"} \subseteq DOMAIN ThreadRead(p, full, Epochs)
  BY DEF ThreadRead
<1>3. ~Unserved.served /\ Unserved.served \in BOOLEAN
  BY DEF Unserved
<1> QED
  BY <1>1, <1>2, <1>3, EpochsType DEF IsThread

LEMMA ThreadServed ==
  ASSUME NEW r, IsThread(r), NEW c \in [Fields -> Stamped], NEW ids
  PROVE  LET t == [r EXCEPT !.data = [served |-> TRUE, contact |-> c, ids |-> ids]]
         IN  IsThread(t) /\ t.phone = r.phone /\ t.epochs = r.epochs /\ t.data.served /\ t.data.contact = c
<1> DEFINE d == [served |-> TRUE, contact |-> c, ids |-> ids]
           t == [r EXCEPT !.data = d]
<1>1. d.served = TRUE /\ d.contact = c
  OBVIOUS
<1> HIDE DEF d
<1>2. DOMAIN t = DOMAIN r /\ t.kind = r.kind /\ t.phone = r.phone /\ t.epochs = r.epochs /\ t.data = d
  BY DEF IsThread
<1> HIDE DEF t
<1>3. IsThread(t)
  BY <1>1, <1>2 DEF IsThread
<1> QED
  BY <1>1, <1>2, <1>3 DEF t, d

\* Writing a value where the list shows it leaves the stamps.
LEMMA RowShown ==
  ASSUME rows \in Contacts, NEW p \in Phones, NEW f \in Fields, NEW v \in BOOLEAN, RowShows(p, f, v)
  PROVE  /\ rows' \in Contacts
         /\ \A o \in Phones, g \in Fields : rows'[o][g].at = rows[o][g].at
<1>1. rows[p] \in [Fields -> Stamped] /\ rows[p][f] \in Stamped
  BY DEF Contacts
<1>2. [rows[p][f] EXCEPT !.value = v] \in Stamped /\ [rows[p][f] EXCEPT !.value = v].at = rows[p][f].at
  BY <1>1 DEF Stamped
<1>3. rows' = [rows EXCEPT ![p] = [rows[p] EXCEPT ![f] = [rows[p][f] EXCEPT !.value = v]]]
  BY DEF RowShows
<1>4. rows'[p] = [rows[p] EXCEPT ![f] = [rows[p][f] EXCEPT !.value = v]]
  BY <1>3 DEF Contacts
<1>5. \A o \in Phones \ {p} : rows'[o] = rows[o]
  BY <1>3 DEF Contacts
<1>6. rows'[p] \in [Fields -> Stamped]
  BY <1>1, <1>2, <1>4
<1>7. rows' \in Contacts
  BY <1>3, <1>1, <1>2 DEF Contacts
<1>8. \A g \in Fields : rows'[p][g].at = rows[p][g].at
  BY <1>1, <1>2, <1>4
<1> QED
  BY <1>5, <1>7, <1>8

\* A change of a contact counts, and touches no other field.
LEMMA ContactChanged ==
  ASSUME contact \in Contacts, NEW p \in Phones, NEW f \in Fields, NEW v \in BOOLEAN, Changes(p, f, v)
  PROVE  /\ contact' \in Contacts
         /\ contact'[p][f].at = contact[p][f].at + 1
         /\ \A o \in Phones, g \in Fields : contact'[o][g].at >= contact[o][g].at
<1>1. contact[p] \in [Fields -> Stamped] /\ contact[p][f] \in Stamped
  BY DEF Contacts
<1> DEFINE c == Value(v, contact[p][f].at + 1)
<1>2. c \in Stamped /\ c.at = contact[p][f].at + 1
  BY <1>1 DEF Stamped, Value
<1>3. contact' = [contact EXCEPT ![p] = [contact[p] EXCEPT ![f] = c]]
  BY DEF Changes
<1> HIDE DEF c
<1>4. contact'[p] = [contact[p] EXCEPT ![f] = c]
  BY <1>3 DEF Contacts
<1>5. \A o \in Phones \ {p} : contact'[o] = contact[o]
  BY <1>3 DEF Contacts
<1>6. contact' \in Contacts
  BY <1>1, <1>2, <1>3 DEF Contacts
<1>7. contact'[p][f] = c /\ \A g \in Fields \ {f} : contact'[p][g] = contact[p][g]
  BY <1>1, <1>4
<1>8. \A o \in Phones, g \in Fields : contact[o][g].at \in Nat
  BY DEF Contacts, Stamped
<1>9. contact'[p][f].at = contact[p][f].at + 1
  BY <1>2, <1>7
<1>10. ASSUME NEW o \in Phones, NEW g \in Fields
       PROVE  contact'[o][g].at >= contact[o][g].at
  <2>1. CASE o # p
    BY <2>1, <1>5, <1>8
  <2>2. CASE o = p /\ g # f
    BY <2>2, <1>7, <1>8
  <2>3. CASE o = p /\ g = f
    BY <2>3, <1>9, <1>8
  <2> QED
    BY <2>1, <2>2, <2>3
<1> QED
  BY <1>6, <1>9, <1>10

LEMMA PostMade ==
  ASSUME Shape, NEW field \in Fields \cup {"message"}, NEW p \in Phones, NEW want \in BOOLEAN,
         Post(field, p, want)
  PROVE  \E q : /\ posts' = posts \cup {q} /\ IsPost(q)
                /\ q.field = field /\ q.phone = p /\ q.want = want /\ q.opening = opens
                /\ q.stage = "sent" /\ ~HasResult(q)
<1> DEFINE q == [n |-> events', field |-> field, phone |-> p, want |-> want, opening |-> opens, stage |-> "sent"]
<1>1. /\ q.field = field /\ q.phone = p /\ q.want = want /\ q.opening = opens /\ q.stage = "sent"
      /\ DOMAIN q = {"n", "field", "phone", "want", "opening", "stage"}
  OBVIOUS
<1>2. posts' = posts \cup {q}
  BY DEF Post
<1> HIDE DEF q
<1>3. ~HasResult(q)
  BY <1>1 DEF HasResult
<1>4. IsPost(q)
  BY <1>1, <1>3 DEF IsPost, Stages, Shape
<1> QED
  BY <1>1, <1>2, <1>3, <1>4

(***************************************************************************)
(* The shape is kept.                                                      *)
(***************************************************************************)
LEMMA ShapeInit == Init => Shape
<1> SUFFICES ASSUME Init PROVE Shape
  OBVIOUS
<1> DEFINE first(p, f) == Value(f = "payment_pending" \/ (f = "bot_paused" /\ p = Opened), 0)
<1>1. \A p, f : first(p, f) \in Stamped
  BY DEF Value, Stamped
<1>2. contact = [p \in Phones |-> [f \in Fields |-> first(p, f)]] /\ rows = contact
  BY DEF Init
<1> HIDE DEF first
<1>3. contact \in Contacts
  BY <1>1, <1>2 DEF Contacts
<1>4. \A f \in Toggles : contact[Opened][f] \in Stamped
  BY <1>3, ConsoleAssumption DEF Contacts, Fields
<1>5. toggle \in [Toggles -> ToggleState]
  <2>1. \A c \in Stamped : Settled(c, 0) \in ToggleState
    BY DEF Settled, ToggleState
  <2> QED
    BY <1>4, <2>1 DEF Init
<1>6. queue \in Seq(Phones) /\ log \in Seq(Messages)
  BY EmptySeq DEF Init
<1> QED
  BY <1>2, <1>3, <1>5, <1>6, ConsoleAssumption DEF Init, Shape

\* A step of the server's, or one that only takes a post from one stage to another.
LEMMA PostsShape ==
  ASSUME Shape, NEW q \in posts, NEW then, IsPost(then), Now(q, then), UNCHANGED <<paneVars, rows, reads, opens, tangled>>,
         contact' \in Contacts, log' \in Seq(Messages), queue' \in Seq(Phones)
  PROVE  Shape'
  BY DEF Shape, Now, paneVars, IsPost, HasResult, IsList, IsThread

LEMMA QueueShape ==
  ASSUME Shape, NEW p \in Phones, Publish(p)
  PROVE  queue' \in Seq(Phones) /\ queue' # <<>>
  BY SignalledKept DEF Shape, Publish

LEMMA LogGrown ==
  ASSUME Shape, NEW p \in Phones, NEW by \in {"agent", "turn"},
         log' = Append(log, [phone |-> p, by |-> by, stage |-> "inserted"])
  PROVE  log' \in Seq(Messages)
<1>1. [phone |-> p, by |-> by, stage |-> "inserted"] \in Messages
  BY DEF Messages
<1> QED
  BY <1>1, AppendProperties DEF Shape

LEMMA LogMoved ==
  ASSUME Shape, NEW i, NEW s \in {"published", "committed", "gone"}, log' = [log EXCEPT ![i].stage = s]
  PROVE  log' \in Seq(Messages)
<1>1. CASE i \in 1..Len(log)
  <2>1. log[i] \in Messages
    BY <1>1, ElementOfSeq DEF Shape
  <2>2. [log[i] EXCEPT !.stage = s] \in Messages
    BY <2>1 DEF Messages
  <2>3. log' = [log EXCEPT ![i] = [log[i] EXCEPT !.stage = s]]
    OBVIOUS
  <2> QED
    BY <1>1, <2>2, <2>3, ExceptSeq DEF Shape
<1>2. CASE i \notin 1..Len(log)
  <2>1. DOMAIN log = 1..Len(log)
    BY LenProperties DEF Shape
  <2>2. log' = log
    BY <1>2, <2>1 DEF Shape
  <2> QED
    BY <2>2 DEF Shape
<1> QED
  BY <1>1, <1>2

LEMMA ReadsShape ==
  ASSUME Shape, \A r \in reads' \ reads : IsList(r) \/ IsThread(r), tangled' \in BOOLEAN,
         UNCHANGED <<contact, log, queue, paneVars, rows, posts, opens>>
  PROVE  Shape'
  BY DEF Shape, paneVars, IsPost, HasResult

LEMMA ActShape ==
  ASSUME Shape, Acts, NEW q, IsPost(q), posts' = posts \cup {q},
         toggle' \in [Toggles -> ToggleState], rows' \in Contacts, UNCHANGED serverVars
  PROVE  Shape'
  BY DEF Shape, Acts, serverVars, historyVars, IsList, IsThread

\* What an act puts in flight, and what the list then shows.
LEMMA ActsShape ==
  ASSUME Shape, Acts, NEW field \in Fields \cup {"message"}, NEW p \in Phones, NEW want \in BOOLEAN,
         Post(field, p, want), toggle' \in [Toggles -> ToggleState], rows' \in Contacts
  PROVE  Shape'
<1>1. PICK q : posts' = posts \cup {q} /\ IsPost(q)
  BY PostMade
<1> QED
  BY <1>1, ActShape DEF Acts

LEMMA NextShape == Shape /\ [Next]_consoleVars => Shape'
<1> SUFFICES ASSUME Shape, [Next]_consoleVars PROVE Shape'
  OBVIOUS
<1> USE DEF serverVars, boundVars, historyVars
<1>1. ASSUME Poll PROVE Shape'
  <2>1. current \in Phones /\ reads' = reads \cup {ThreadRead(current, FALSE, Epochs)}
    BY <1>1 DEF Poll, Refreshes, Shape
  <2>2. tangled' \in BOOLEAN /\ UNCHANGED <<contact, log, queue, paneVars, rows, posts, opens>>
    BY <1>1 DEF Poll, Refresh, Shape
  <2> QED
    BY <2>1, <2>2, ReadsMade, ReadsShape
<1>2. ASSUME LoadConversations PROVE Shape'
  <2>1. reads' = reads \cup {ListRead} /\ tangled' \in BOOLEAN
        /\ UNCHANGED <<contact, log, queue, paneVars, rows, posts, opens>>
    BY <1>2 DEF LoadConversations, Shape
  <2> QED
    BY <2>1, ReadsMade, ReadsShape, ConsoleAssumption
<1>3. ASSUME Activity PROVE Shape'
  <2>1. queue' \in Seq(Phones)
    BY <1>3, HeadTailProperties DEF Activity, Shape
  <2>2. \A r \in reads' \ reads : IsList(r) \/ IsThread(r)
    <3>1. reads' \ reads \subseteq {ListRead, ThreadRead(current, FALSE, Epochs)}
      BY <1>3 DEF Activity
    <3>2. CASE current \in Phones
      BY <3>1, <3>2, ReadsMade
    <3>3. CASE current \notin Phones
      <4>1. reads' \ reads \subseteq {ListRead}
        BY <1>3, <3>3 DEF Activity, Refreshes, Shape
      <4> QED
        BY <4>1, ReadsMade, ConsoleAssumption
    <3> QED
      BY <3>2, <3>3
  <2>3. tangled' \in BOOLEAN /\ UNCHANGED <<contact, log, paneVars, rows, posts, opens>>
    BY <1>3 DEF Activity, Refresh, Shape
  <2> QED
    BY <2>1, <2>2, <2>3 DEF Shape, paneVars, IsPost, HasResult
<1>4. ASSUME Reconnect PROVE Shape'
  <2>1. UNCHANGED <<contact, log, paneVars, rows, reads, posts, opens, tangled>> /\ queue' \in Seq(Phones)
    BY <1>4, EmptySeq DEF Reconnect
  <2> QED
    BY <2>1 DEF Shape, paneVars
<1>5. ASSUME Close PROVE Shape'
  <2>1. UNCHANGED <<contact, log, queue, toggle, rows, reads, posts, opens, tangled>> /\ current' = NoOne
    BY <1>5 DEF Close
  <2> QED
    BY <2>1 DEF Shape
<1>6. ASSUME ClearPayment PROVE Shape'
  <2>1. current \in Phones /\ "payment_pending" \in Fields
    BY <1>6 DEF ClearPayment, Shape, Fields
  <2>2. rows' \in Contacts
    BY <1>6, <2>1, RowShown DEF ClearPayment, Shape
  <2> QED
    BY <1>6, <2>1, <2>2, ActsShape DEF ClearPayment, Acts, Shape
<1>7. ASSUME Send PROVE Shape'
  <2>1. current \in Phones
    BY <1>7 DEF Send, Shape
  <2> QED
    BY <1>7, <2>1, ActsShape DEF Send, Acts, Shape
<1>8. ASSUME NEW f \in Toggles, PressToggle(f) PROVE Shape'
  <2>1. current \in Phones /\ f \in Fields
    BY <1>8 DEF PressToggle, Shape, Fields
  <2>2. rows' \in Contacts
    BY <1>8, <2>1, RowShown DEF PressToggle, Shape
  <2>3. toggle' \in [Toggles -> ToggleState]
    <3>1. toggle[f] \in ToggleState /\ toggle[f].shown \in Stamped
      BY DEF Shape, ToggleState
    <3>2. Click(toggle[f]) \in ToggleState
      BY <3>1, ToggleMoved
    <3> QED
      BY <1>8, <3>2 DEF PressToggle, Shape
  <2> QED
    BY <1>8, <2>1, <2>2, <2>3, ActsShape DEF PressToggle, Acts
<1>9. ASSUME NEW p \in Phones, Open(p) PROVE Shape'
  <2>1. reads' = reads \cup {ThreadRead(p, TRUE, Epochs)} /\ UNCHANGED <<contact, log, queue, rows, posts, tangled>>
        /\ opens' \in Nat /\ current' = p
    BY <1>9 DEF Open, Shape
  <2>2. \A f \in Toggles : rows[p][f] \in Stamped
    BY DEF Shape, Contacts, Fields
  <2>3. toggle' \in [Toggles -> ToggleState]
    <3>1. \A f \in Toggles : Confirmed(toggle[f], rows[p][f]) \in ToggleState
      BY <2>2, ToggleMoved DEF Shape
    <3> QED
      BY <1>9, <3>1 DEF Open
  <2>4. \A r \in reads' : IsList(r) \/ IsThread(r)
    BY <2>1, ReadsMade DEF Shape
  <2> QED
    BY <2>1, <2>3, <2>4 DEF Shape, IsPost, HasResult
<1>10. ASSUME NEW p \in Phones, TogglePin(p) PROVE Shape'
  <2>1. rows' \in Contacts
    BY <1>10, RowShown DEF TogglePin, Shape, Fields
  <2> QED
    BY <1>10, <2>1, ActsShape DEF TogglePin, Acts, Shape, Fields
<1>11. ASSUME NEW p \in Phones, SaveRename(p) PROVE Shape'
  BY <1>11, ActsShape DEF SaveRename, Acts, Shape, Fields
<1>12. ASSUME NEW p \in Phones, TurnInserts(p) PROVE Shape'
  <2>1. log' \in Seq(Messages)
    BY <1>12, LogGrown DEF TurnInserts
  <2> QED
    BY <1>12, <2>1 DEF TurnInserts, ServerStep, Shape, paneVars
<1>13. ASSUME NEW p \in Phones, NEW f \in Elsewhere, OtherAgent(p, f) PROVE Shape'
  <2>1. f \in Fields
    BY ConsoleAssumption
  <2>2. contact' \in Contacts
    BY <1>13, <2>1, ContactChanged DEF OtherAgent, Shape
  <2>3. queue' \in Seq(Phones)
    BY <1>13, QueueShape DEF OtherAgent, Shape
  <2> QED
    BY <1>13, <2>2, <2>3 DEF OtherAgent, ServerStep, Shape, paneVars
<1>14. ASSUME NEW r \in reads, Serve(r) PROVE Shape'
  <2>1. IsThread(r)
    BY <1>14 DEF Serve, Shape, IsList
  <2>2. contact[r.phone] \in [Fields -> Stamped]
    BY <2>1 DEF Shape, Contacts, IsThread
  <2>3. PICK ids : reads' = (reads \ {r}) \cup {[r EXCEPT !.data = [served |-> TRUE, contact |-> contact[r.phone], ids |-> ids]]}
    BY <1>14 DEF Serve
  <2> DEFINE t == [r EXCEPT !.data = [served |-> TRUE, contact |-> contact[r.phone], ids |-> ids]]
  <2>t. IsThread(t)
    BY <2>1, <2>2, ThreadServed
  <2> HIDE DEF t
  <2>4. \A o \in reads' \ reads : IsList(o) \/ IsThread(o)
    BY <2>3, <2>t DEF t
  <2> QED
    BY <1>14, <2>4, ReadsShape DEF Serve, Shape
<1>15. ASSUME NEW r \in reads, LandThread(r) PROVE Shape'
  <2>1. UNCHANGED <<contact, log, queue, current, rows, posts, opens, tangled>> /\ reads' \subseteq reads
    BY <1>15 DEF LandThread
  <2>2. IsThread(r) /\ r.data.served
    BY <1>15 DEF LandThread, Shape, IsList
  <2>3. toggle' \in [Toggles -> ToggleState]
    <3>1. \A f \in Toggles : r.data.contact[f] \in Stamped
      BY <2>2 DEF IsThread, Fields
    <3>2. \A f \in Toggles : Observed(toggle[f], r.data.contact[f], r.epochs[f]) \in ToggleState
      BY <3>1, ToggleMoved DEF Shape
    <3> QED
      BY <1>15, <3>2 DEF LandThread, Shape
  <2> QED
    BY <2>1, <2>3 DEF Shape, IsPost, HasResult
<1>16. ASSUME NEW r \in reads, LandList(r) PROVE Shape'
  <2>1. UNCHANGED <<contact, log, queue, paneVars, posts, opens, tangled>> /\ reads' \subseteq reads
        /\ rows' = r.data.contacts /\ r.kind = "list"
    BY <1>16 DEF LandList
  <2>2. IsList(r)
    BY <2>1 DEF Shape, IsThread
  <2> QED
    BY <2>1, <2>2 DEF Shape, paneVars, IsPost, HasResult, IsList
<1>17. ASSUME NEW r \in reads, ReadFails(r) PROVE Shape'
  BY <1>17, ReadsShape DEF ReadFails, Shape
<1>18. ASSUME NEW q \in posts, Refuse(q) \/ Lose(q) PROVE Shape'
  <2>1. IsPost(To(q, "refused"))
    BY StageMoved DEF Shape, Stages
  <2> QED
    BY <1>18, <2>1, PostsShape DEF Refuse, Lose, ServerStep, Shape
<1>19. ASSUME NEW q \in posts, Commit(q) PROVE Shape'
  <2>1. IsPost(q) /\ ~HasResult(q) /\ q.field \in Fields
    BY <1>19 DEF Shape, Commit, IsPost
  <2>2. contact' \in Contacts
    BY <1>19, <2>1, ContactChanged DEF Commit, Shape, IsPost
  <2>3. contact'[q.phone][q.field] \in Stamped
    BY <2>1, <2>2 DEF Contacts, IsPost
  <2>4. PICK s \in {"committed", "answered"} : Now(q, WithResult(To(q, s), contact'[q.phone][q.field]))
    BY <1>19 DEF Commit
  <2>5. IsPost(WithResult(To(q, s), contact'[q.phone][q.field]))
    BY <2>1, <2>3, ResultGiven DEF Stages
  <2> QED
    BY <1>19, <2>2, <2>4, <2>5, PostsShape DEF Commit, ServerStep, Shape
<1>20. ASSUME NEW q \in posts, InsertMessage(q) PROVE Shape'
  <2>1. IsPost(q) /\ ~HasResult(q) /\ q.field = "message"
    BY <1>20 DEF Shape, InsertMessage, IsPost
  <2>2. "message" \notin Fields
    BY DEF Fields, Toggles
  <2>3. IsPost(WithResult(To(q, "inserted"), Len(log')))
    BY <2>1, <2>2, ResultGiven DEF Stages
  <2>4. log' \in Seq(Messages)
    BY <1>20, <2>1, LogGrown DEF InsertMessage, IsPost
  <2> QED
    BY <1>20, <2>3, <2>4, PostsShape DEF InsertMessage, ServerStep, Shape
<1>21. ASSUME NEW q \in posts, CommitMessage(q) PROVE Shape'
  <2>1. IsPost(q) /\ HasResult(q)
    BY <1>21 DEF Shape, CommitMessage, IsPost
  <2>2. IsPost(To(q, "committed"))
    BY <2>1, StageMoved DEF Stages
  <2>3. log' \in Seq(Messages)
    BY <1>21, LogMoved DEF CommitMessage
  <2> QED
    BY <1>21, <2>2, <2>3, PostsShape DEF CommitMessage, ServerStep, Shape
<1>22. ASSUME NEW q \in posts, Respond(q) PROVE Shape'
  <2>1. IsPost(q) /\ q.phone \in Phones
    BY DEF Shape, IsPost
  <2>2. HasResult(q)
    BY <1>22, <2>1 DEF Respond, IsPost
  <2>3. IsPost(To(q, "answered"))
    BY <2>1, <2>2, StageMoved DEF Stages
  <2>4. queue' \in Seq(Phones)
    BY <1>22, <2>1, QueueShape DEF Respond
  <2> QED
    BY <1>22, <2>3, <2>4, PostsShape DEF Respond, ServerStep, Shape
<1>23. ASSUME NEW q \in posts, Answered(q) PROVE Shape'
  <2>1. IsPost(q) /\ HasResult(q) /\ q.phone \in Phones
    BY <1>23 DEF Answered, Shape, IsPost
  <2>2. q.field \in Fields => q.result \in Stamped
    BY <2>1 DEF IsPost
  <2>3. /\ UNCHANGED <<contact, log, queue, current, opens>> /\ posts' \subseteq posts /\ tangled' \in BOOLEAN
        /\ reads' \subseteq reads \cup {ListRead}
    BY <1>23 DEF Answered, Handled, Reloads, Shape
  <2>4. \A r \in reads' : IsList(r) \/ IsThread(r)
    BY <2>1, <2>3, ReadsMade DEF Shape
  <2>5. toggle' \in [Toggles -> ToggleState]
    <3>1. CASE q.field \in Toggles
      <4>1. toggle' = [toggle EXCEPT ![q.field] = Confirmed(@, q.result)] /\ q.result \in Stamped
        BY <1>23, <2>2, <3>1 DEF Answered, Fields
      <4>2. Confirmed(toggle[q.field], q.result) \in ToggleState
        BY <3>1, <4>1, ToggleMoved DEF Shape
      <4> QED
        BY <4>1, <4>2 DEF Shape
    <3>2. CASE q.field \notin Toggles
      BY <1>23, <3>2 DEF Answered, Shape
    <3> QED
      BY <3>1, <3>2
  <2>6. rows' \in Contacts
    <3>1. CASE q.field \in Toggles \cup {"alias"}
      <4>1. rows' = [rows EXCEPT ![q.phone][q.field] = q.result] /\ q.result \in Stamped /\ q.field \in Fields
        BY <1>23, <2>2, <3>1 DEF Answered, Fields
      <4> QED
        BY <4>1, <2>1 DEF Shape, Contacts
    <3>2. CASE q.field \notin Toggles \cup {"alias"}
      BY <1>23, <3>2 DEF Answered, Shape
    <3> QED
      BY <3>1, <3>2
  <2> QED
    BY <2>3, <2>4, <2>5, <2>6 DEF Shape
<1>24. ASSUME NEW q \in posts, Rejected(q) PROVE Shape'
  <2>1. IsPost(q) /\ q.phone \in Phones
    BY <1>24 DEF Shape, IsPost
  <2>2. UNCHANGED <<contact, log, queue, current, reads, opens>> /\ posts' \subseteq posts /\ tangled' \in BOOLEAN
    BY <1>24 DEF Rejected, Handled, Shape
  <2>3. toggle' \in [Toggles -> ToggleState]
    <3>1. CASE q.field \in Toggles
      <4>1. toggle' = [toggle EXCEPT ![q.field] = Failed(@)]
        BY <1>24, <3>1 DEF Rejected
      <4>2. toggle[q.field] \in ToggleState /\ toggle[q.field].shown \in Stamped
        BY <3>1 DEF Shape, ToggleState
      <4>3. Failed(toggle[q.field]) \in ToggleState
        BY <4>2, ToggleMoved
      <4> QED
        BY <4>1, <4>3 DEF Shape
    <3>2. CASE q.field \notin Toggles
      BY <1>24, <3>2 DEF Rejected, Shape
    <3> QED
      BY <3>1, <3>2
  <2>4. rows' \in Contacts
    <3>1. CASE q.field \in Toggles \cup {"pinned", "payment_pending"}
      BY <1>24, <2>1, <3>1, RowShown DEF Rejected, RowShows, Shape, Fields
    <3>2. CASE q.field \notin Toggles \cup {"pinned", "payment_pending"}
      BY <1>24, <3>2 DEF Rejected, Shape
    <3> QED
      BY <3>1, <3>2
  <2> QED
    BY <2>2, <2>3, <2>4 DEF Shape
<1>25. ASSUME NEW i \in 1..Len(log), TurnPublishes(i) PROVE Shape'
  <2>1. log[i].phone \in Phones
    <3>1. log[i] \in Messages
      BY ElementOfSeq DEF Shape
    <3> QED
      BY <3>1 DEF Messages
  <2>2. queue' \in Seq(Phones)
    BY <1>25, <2>1, QueueShape DEF TurnPublishes
  <2>3. log' \in Seq(Messages)
    BY <1>25, LogMoved DEF TurnPublishes
  <2> QED
    BY <1>25, <2>2, <2>3 DEF TurnPublishes, ServerStep, Shape, paneVars
<1>26. ASSUME NEW i \in 1..Len(log), TurnEnds(i) PROVE Shape'
  <2>1. log' \in Seq(Messages)
    BY <1>26, LogMoved DEF TurnEnds
  <2> QED
    BY <1>26, <2>1 DEF TurnEnds, ServerStep, Shape, paneVars
<1>27. ASSUME UNCHANGED consoleVars PROVE Shape'
  BY <1>27 DEF consoleVars, Shape, paneVars
<1> QED
  BY <1>1, <1>2, <1>3, <1>4, <1>5, <1>6, <1>7, <1>8, <1>9, <1>10, <1>11, <1>12, <1>13, <1>14, <1>15, <1>16,
     <1>17, <1>18, <1>19, <1>20, <1>21, <1>22, <1>23, <1>24, <1>25, <1>26, <1>27 DEF Next

(***************************************************************************)
(* Nothing signalled is missed.                                            *)
(***************************************************************************)
LEMMA InitSignal == Init => SignalledIsFetched
  BY DEF Init, SignalledIsFetched

\* A post that is not about to signal may come and go.
LEMMA StillToCome ==
  ASSUME Shape, SignalledIsFetched, unfetched' => unfetched, queue' = queue, NEW q \in posts,
         q.stage # "committed", posts \ {q} \subseteq posts'
  PROVE  SignalledIsFetched'
  BY DEF SignalledIsFetched

LEMMA NextSignal == Shape /\ SignalledIsFetched /\ [Next]_consoleVars => SignalledIsFetched'
<1> SUFFICES ASSUME Shape, SignalledIsFetched, [Next]_consoleVars PROVE SignalledIsFetched'
  OBVIOUS
<1> USE DEF serverVars, boundVars, historyVars
<1>1. ASSUME Poll \/ Close \/ \E p \in Phones : Open(p) PROVE SignalledIsFetched'
  BY <1>1 DEF Poll, Close, Open, SignalledIsFetched
<1>2. ASSUME LoadConversations \/ Activity \/ Reconnect PROVE SignalledIsFetched'
  BY <1>2 DEF LoadConversations, Activity, Reconnect, SignalledIsFetched
<1>3. ASSUME Acts, NEW field, NEW p, NEW want, Post(field, p, want) PROVE SignalledIsFetched'
  BY <1>3 DEF Acts, Post, SignalledIsFetched
<1>4. ASSUME ClearPayment \/ Send PROVE SignalledIsFetched'
  BY <1>3, <1>4 DEF ClearPayment, Send
<1>5. ASSUME NEW f \in Toggles, PressToggle(f) PROVE SignalledIsFetched'
  BY <1>3, <1>5 DEF PressToggle
<1>6. ASSUME NEW p \in Phones, TogglePin(p) \/ SaveRename(p) PROVE SignalledIsFetched'
  BY <1>3, <1>6 DEF TogglePin, SaveRename
<1>7. ASSUME NEW p \in Phones, TurnInserts(p) PROVE SignalledIsFetched'
  BY <1>7 DEF TurnInserts, SignalledIsFetched
<1>8. ASSUME NEW p \in Phones, NEW f \in Elsewhere, OtherAgent(p, f) PROVE SignalledIsFetched'
  BY <1>8, QueueShape DEF OtherAgent, SignalledIsFetched
<1>9. ASSUME NEW r \in reads, Serve(r) \/ LandThread(r) \/ LandList(r) \/ ReadFails(r) PROVE SignalledIsFetched'
  BY <1>9 DEF Serve, LandThread, LandList, ReadFails, SignalledIsFetched
<1>10. ASSUME NEW q \in posts, Refuse(q) \/ Lose(q) PROVE SignalledIsFetched'
  BY <1>10, StillToCome DEF Refuse, Lose, Now
<1>11. ASSUME NEW q \in posts, Commit(q) PROVE SignalledIsFetched'
  <2>1. CASE q.field \in Published
    <3> DEFINE t == WithResult(To(q, "committed"), contact'[q.phone][q.field])
    <3>1. t \in posts'
      BY <1>11, <2>1 DEF Commit, Now
    <3>2. IsPost(q) /\ q.stage = "sent"
      BY <1>11 DEF Commit, Shape
    <3>3. t.stage = "committed"
      BY <3>2 DEF IsPost, HasResult, To, WithResult
    <3> HIDE DEF t
    <3> QED
      BY <3>1, <3>3 DEF SignalledIsFetched
  <2>2. CASE q.field \notin Published
    BY <1>11, <2>2, StillToCome DEF Commit, Now
  <2> QED
    BY <2>1, <2>2
<1>12. ASSUME NEW q \in posts, InsertMessage(q) PROVE SignalledIsFetched'
  BY <1>12, StillToCome DEF InsertMessage, Now
<1>13. ASSUME NEW q \in posts, CommitMessage(q) PROVE SignalledIsFetched'
  <2>1. To(q, "committed") \in posts' /\ To(q, "committed").stage = "committed"
    BY <1>13 DEF CommitMessage, Now, To, Shape, IsPost
  <2> QED
    BY <2>1 DEF SignalledIsFetched
<1>14. ASSUME NEW q \in posts, Respond(q) PROVE SignalledIsFetched'
  <2>1. q.phone \in Phones
    BY DEF Shape, IsPost
  <2> QED
    BY <1>14, <2>1, QueueShape DEF Respond, SignalledIsFetched
<1>15. ASSUME NEW q \in posts, Answered(q) \/ Rejected(q) PROVE SignalledIsFetched'
  BY <1>15, StillToCome DEF Answered, Rejected, Handled, Reloads
<1>16. ASSUME NEW i \in 1..Len(log), TurnPublishes(i) PROVE SignalledIsFetched'
  <2>1. log[i] \in Messages
    BY ElementOfSeq DEF Shape
  <2>2. log[i].phone \in Phones
    BY <2>1 DEF Messages
  <2> QED
    BY <1>16, <2>2, QueueShape DEF TurnPublishes, SignalledIsFetched
<1>17. ASSUME NEW i \in 1..Len(log), TurnEnds(i) PROVE SignalledIsFetched'
  BY <1>17 DEF TurnEnds, SignalledIsFetched, ServerStep
<1>18. ASSUME UNCHANGED consoleVars PROVE SignalledIsFetched'
  BY <1>18 DEF consoleVars, SignalledIsFetched
<1> QED
  BY <1>1, <1>2, <1>4, <1>5, <1>6, <1>7, <1>8, <1>9, <1>10, <1>11, <1>12, <1>13, <1>14, <1>15,
     <1>16, <1>17, <1>18 DEF Next

\* A block, a cleared payment or a message sent on a console has every listening
\* console load a list that shows it, however many signals its buffer drops: until
\* a list has been read, a signal waits or is still to come.
THEOREM SignalsAreFetched == Spec => []SignalledIsFetched
  BY ShapeInit, NextShape, InitSignal, NextSignal, PTL DEF Spec

(***************************************************************************)
(* Nothing on a console is ahead of the server.                            *)
(***************************************************************************)
LEMMA Numbers ==
  ASSUME Shape, NEW f \in Toggles
  PROVE  /\ f \in Fields
         /\ toggle[f] \in ToggleState /\ toggle[f].shown \in Stamped /\ toggle[f].was \in Stamped
         /\ toggle[f].shown.at \in Nat /\ toggle[f].was.at \in Nat /\ toggle[f].epoch \in Nat
         /\ \A p \in Phones : contact[p][f].at \in Nat /\ rows[p][f].at \in Nat
         /\ \A p \in Phones : contact[p][f] \in Stamped /\ rows[p][f] \in Stamped
         /\ \A r \in reads : r.kind = "thread" => r.epochs[f] \in Nat /\ r.phone \in Phones
         /\ \A r \in reads : r.kind = "thread" /\ r.data.served =>
                r.data.contact[f] \in Stamped /\ r.data.contact[f].at \in Nat
         /\ \A r \in reads : r.kind = "list" => \A p \in Phones : r.data.contacts[p][f].at \in Nat
         /\ \A q \in posts : q.field = f => q.phone \in Phones
         /\ \A q \in posts : q.field = f /\ HasResult(q) => q.result \in Stamped /\ q.result.at \in Nat
<1>1. f \in Fields
  BY DEF Fields
<1>2. \A c \in Contacts, p \in Phones : c[p][f] \in Stamped
  BY <1>1 DEF Contacts
<1>3. \A c \in Stamped : c.at \in Nat
  BY DEF Stamped
<1>4. toggle[f] \in ToggleState
  BY DEF Shape
<1>5. toggle[f].shown \in Stamped /\ toggle[f].was \in Stamped /\ toggle[f].epoch \in Nat
  BY <1>4 DEF ToggleState
<1>6. \A r \in reads : r.kind = "thread" => IsThread(r)
  BY DEF Shape, IsList
<1>7. \A r \in reads : r.kind = "list" => IsList(r)
  BY DEF Shape, IsThread
<1>8. \A r \in reads : r.kind = "thread" => r.epochs[f] \in Nat /\ r.phone \in Phones
  BY <1>6 DEF IsThread
<1>9. \A r \in reads : r.kind = "thread" /\ r.data.served => r.data.contact[f] \in Stamped
  BY <1>1, <1>6 DEF IsThread
<1>10. \A r \in reads : r.kind = "list" => r.data.contacts \in Contacts
  BY <1>7 DEF IsList
<1>11. \A q \in posts : q.field = f => q.phone \in Phones /\ (HasResult(q) => q.result \in Stamped)
  BY <1>1 DEF Shape, IsPost
<1>12. contact \in Contacts /\ rows \in Contacts
  BY DEF Shape
<1> QED
  BY <1>1, <1>2, <1>3, <1>4, <1>5, <1>8, <1>9, <1>10, <1>11, <1>12

\* The server's stamps only grow.
ContactGrows == \A p \in Phones, f \in Toggles : contact'[p][f].at >= contact[p][f].at

LEMMA ContactSame == ASSUME Shape, contact' = contact PROVE ContactGrows
  BY Numbers DEF ContactGrows

LEMMA StampOf == ASSUME NEW c \in Contacts, NEW p \in Phones, NEW f \in Toggles PROVE c[p][f] \in Stamped /\ c[p][f].at \in Nat
  BY DEF Contacts, Stamped, Fields

LEMMA AheadKept ==
  ASSUME Shape, NothingAhead, contact' \in Contacts, ContactGrows,
         \A p \in Phones, f \in Toggles :
             rows'[p][f].at = rows[p][f].at \/ rows'[p][f].at <= contact'[p][f].at,
         \A r \in reads' : r.kind = "list" => r \in reads \/ r.data.contacts = contact',
         \A r \in reads' : r.kind = "thread" /\ r.data.served =>
             r \in reads \/ (r.phone \in Phones /\ r.data.contact = contact'[r.phone]),
         \A q \in posts' : q.field \in Toggles /\ HasResult(q) =>
             \/ q.phone \in Phones /\ q.result = contact'[q.phone][q.field]
             \/ \E o \in posts : o.field = q.field /\ o.phone = q.phone /\ HasResult(o) /\ q.result = o.result
  PROVE  NothingAhead'
<1>1. \A p \in Phones, f \in Toggles : contact'[p][f].at \in Nat /\ contact[p][f].at \in Nat
  BY Numbers, StampOf
<1>2. RowsInv'
  BY <1>1, Numbers DEF NothingAhead, RowsInv, ContactGrows
<1>3. ListsInv'
  <2> SUFFICES ASSUME NEW r \in reads', NEW p \in Phones, NEW f \in Toggles, r.kind = "list"
               PROVE  r.data.contacts[p][f].at <= contact'[p][f].at
    BY DEF ListsInv
  <2>1. CASE r \in reads
    BY <1>1, <2>1, Numbers DEF NothingAhead, ListsInv, ContactGrows
  <2>2. CASE r.data.contacts = contact'
    BY <1>1, <2>2
  <2> QED
    BY <2>1, <2>2
<1>4. ThreadsInv'
  <2> SUFFICES ASSUME NEW r \in reads', NEW f \in Toggles, r.kind = "thread", r.data.served
               PROVE  r.data.contact[f].at <= contact'[r.phone][f].at
    BY DEF ThreadsInv
  <2>1. CASE r \in reads
    BY <1>1, <2>1, Numbers DEF NothingAhead, ThreadsInv, ContactGrows
  <2>2. CASE r.phone \in Phones /\ r.data.contact = contact'[r.phone]
    BY <1>1, <2>2
  <2> QED
    BY <2>1, <2>2
<1>5. ResultsInv'
  <2> SUFFICES ASSUME NEW q \in posts', q.field \in Toggles, HasResult(q)
               PROVE  q.result.at <= contact'[q.phone][q.field].at
    BY DEF ResultsInv, HasResult
  <2>1. CASE q.phone \in Phones /\ q.result = contact'[q.phone][q.field]
    BY <1>1, <2>1
  <2>2. ASSUME NEW o \in posts, o.field = q.field, o.phone = q.phone, HasResult(o), q.result = o.result
        PROVE  q.result.at <= contact'[q.phone][q.field].at
    <3>1. o.phone \in Phones /\ o.result.at \in Nat
      BY <2>2, Numbers
    <3>2. o.result.at <= contact[o.phone][o.field].at
      BY <2>2 DEF NothingAhead, ResultsInv
    <3> QED
      BY <1>1, <2>2, <3>1, <3>2 DEF ContactGrows
  <2> QED
    BY <2>1, <2>2
<1> QED
  BY <1>2, <1>3, <1>4, <1>5 DEF NothingAhead

\* The tab's own steps: the server's stamps stay.
LEMMA TabAhead ==
  ASSUME Shape, NothingAhead, contact' = contact,
         \A p \in Phones, f \in Toggles :
             rows'[p][f].at = rows[p][f].at \/ rows'[p][f].at <= contact[p][f].at,
         \A r \in reads' : r \in reads \/ r = ListRead \/ (r.kind = "thread" /\ ~r.data.served),
         \A q \in posts' : q \in posts \/ ~HasResult(q)
  PROVE  NothingAhead'
<1>1. contact' \in Contacts /\ ContactGrows
  BY ContactSame DEF Shape
<1>2. ListRead.kind = "list" /\ ListRead.data.contacts = contact
  BY DEF ListRead
<1> QED
  BY <1>1, <1>2, AheadKept

\* A post goes from one stage to another and keeps its result.
LEMMA PostAhead ==
  ASSUME Shape, NothingAhead, UNCHANGED <<contact, rows, reads>>, NEW q \in posts, NEW then, Now(q, then),
         then.field = q.field, then.phone = q.phone, then.field \in Toggles /\ HasResult(then) => HasResult(q) /\ then.result = q.result
  PROVE  NothingAhead'
<1>1. contact' \in Contacts /\ ContactGrows
  BY ContactSame DEF Shape
<1>2. \A o \in posts' : o \in posts \/ o = then
  BY DEF Now
<1> QED
  BY <1>1, <1>2, AheadKept

LEMMA InitAhead == Init => NothingAhead
<1> SUFFICES ASSUME Init PROVE NothingAhead
  OBVIOUS
<1>1. rows = contact /\ reads = {} /\ posts = {}
  BY DEF Init
<1>2. \A p \in Phones, f \in Toggles : contact[p][f].at \in Nat
  BY ShapeInit, StampOf DEF Shape
<1> QED
  BY <1>1, <1>2 DEF NothingAhead, RowsInv, ListsInv, ThreadsInv, ResultsInv

LEMMA NextAhead == Shape /\ NothingAhead /\ [Next]_consoleVars => NothingAhead'
<1> SUFFICES ASSUME Shape, NothingAhead, [Next]_consoleVars PROVE NothingAhead'
  OBVIOUS
<1> USE DEF serverVars, boundVars, historyVars, paneVars
<1>1. ASSUME Poll \/ LoadConversations \/ Activity \/ Reconnect \/ Close PROVE NothingAhead'
  <2>1. ~ThreadRead(current, FALSE, Epochs).data.served /\ ThreadRead(current, FALSE, Epochs).kind = "thread"
    BY DEF ThreadRead, Unserved
  <2>2. reads' \subseteq reads \cup {ListRead, ThreadRead(current, FALSE, Epochs)} /\ UNCHANGED <<contact, rows, posts>>
    BY <1>1 DEF Poll, LoadConversations, Activity, Reconnect, Close
  <2> QED
    BY <2>1, <2>2, TabAhead
<1>2. ASSUME NEW p \in Phones, Open(p) PROVE NothingAhead'
  <2>1. ~ThreadRead(p, TRUE, Epochs).data.served /\ ThreadRead(p, TRUE, Epochs).kind = "thread"
    BY DEF ThreadRead, Unserved
  <2>2. reads' \subseteq reads \cup {ThreadRead(p, TRUE, Epochs)} /\ UNCHANGED <<contact, rows, posts>>
    BY <1>2 DEF Open
  <2> QED
    BY <2>1, <2>2, TabAhead
<1>3. ASSUME Acts, NEW field \in Fields \cup {"message"}, NEW p \in Phones, NEW want \in BOOLEAN, Post(field, p, want),
             \A o \in Phones, g \in Fields : rows'[o][g].at = rows[o][g].at
      PROVE  NothingAhead'
  <2>1. \A q \in posts' : q \in posts \/ ~HasResult(q)
    BY <1>3, PostMade
  <2>2. UNCHANGED <<contact, reads>>
    BY <1>3 DEF Acts
  <2> QED
    BY <1>3, <2>1, <2>2, TabAhead DEF Fields
<1>4. ASSUME ClearPayment PROVE NothingAhead'
  <2>1. current \in Phones /\ "payment_pending" \in Fields
    BY <1>4 DEF ClearPayment, Shape, Fields
  <2>2. \A o \in Phones, g \in Fields : rows'[o][g].at = rows[o][g].at
    BY <1>4, <2>1, RowShown DEF ClearPayment, Shape
  <2> QED
    BY <1>4, <2>1, <2>2, <1>3 DEF ClearPayment
<1>5. ASSUME Send PROVE NothingAhead'
  BY <1>5, <1>3 DEF Send, Shape
<1>6. ASSUME NEW f \in Toggles, PressToggle(f) PROVE NothingAhead'
  <2>1. current \in Phones /\ f \in Fields
    BY <1>6 DEF PressToggle, Shape, Fields
  <2>2. \A o \in Phones, g \in Fields : rows'[o][g].at = rows[o][g].at
    BY <1>6, <2>1, RowShown DEF PressToggle, Shape
  <2> QED
    BY <1>6, <2>1, <2>2, <1>3 DEF PressToggle
<1>7. ASSUME NEW p \in Phones, TogglePin(p) PROVE NothingAhead'
  <2>1. "pinned" \in Fields
    BY DEF Fields
  <2>2. \A o \in Phones, g \in Fields : rows'[o][g].at = rows[o][g].at
    BY <1>7, <2>1, RowShown DEF TogglePin, Shape
  <2> QED
    BY <1>7, <2>1, <2>2, <1>3 DEF TogglePin
<1>8. ASSUME NEW p \in Phones, SaveRename(p) PROVE NothingAhead'
  BY <1>8, <1>3 DEF SaveRename, Fields
<1>9. ASSUME NEW p \in Phones, TurnInserts(p) PROVE NothingAhead'
  BY <1>9, TabAhead DEF TurnInserts, ServerStep
<1>10. ASSUME NEW p \in Phones, NEW f \in Elsewhere, OtherAgent(p, f) PROVE NothingAhead'
  <2>1. f \in Fields /\ contact \in Contacts
    BY ConsoleAssumption DEF Shape
  <2>2. contact' \in Contacts /\ \A o \in Phones, g \in Fields : contact'[o][g].at >= contact[o][g].at
    BY <1>10, <2>1, ContactChanged DEF OtherAgent
  <2>3. ContactGrows
    BY <2>2 DEF ContactGrows, Fields
  <2>4. UNCHANGED <<rows, reads, posts>>
    BY <1>10 DEF OtherAgent, ServerStep
  <2> QED
    BY <2>2, <2>3, <2>4, AheadKept
<1>11. ASSUME NEW r \in reads, Serve(r) PROVE NothingAhead'
  <2>1. IsThread(r) /\ r.phone \in Phones
    BY <1>11 DEF Serve, Shape, IsList, IsThread
  <2>2. contact[r.phone] \in [Fields -> Stamped]
    BY <2>1 DEF Shape, Contacts
  <2>3. PICK ids : reads' = (reads \ {r}) \cup {[r EXCEPT !.data = [served |-> TRUE, contact |-> contact[r.phone], ids |-> ids]]}
    BY <1>11 DEF Serve
  <2> DEFINE t == [r EXCEPT !.data = [served |-> TRUE, contact |-> contact[r.phone], ids |-> ids]]
  <2>4. IsThread(t) /\ t.phone = r.phone /\ t.data.contact = contact[r.phone]
    BY <2>1, <2>2, ThreadServed
  <2>5. \A o \in reads' : o \in reads \/ o = t
    BY <2>3
  <2>6. t.kind = "thread"
    BY <2>4 DEF IsThread
  <2> HIDE DEF t
  <2>7. contact' \in Contacts /\ ContactGrows /\ UNCHANGED <<contact, rows, posts>>
    BY <1>11, ContactSame DEF Serve, Shape
  <2> QED
    BY <2>1, <2>4, <2>5, <2>6, <2>7, AheadKept
<1>12. ASSUME NEW r \in reads, LandThread(r) \/ ReadFails(r) PROVE NothingAhead'
  BY <1>12, TabAhead DEF LandThread, ReadFails
<1>13. ASSUME NEW r \in reads, LandList(r) PROVE NothingAhead'
  <2>1. \A p \in Phones, f \in Toggles : rows'[p][f].at <= contact[p][f].at
    BY <1>13 DEF LandList, NothingAhead, ListsInv
  <2> QED
    BY <1>13, <2>1, TabAhead DEF LandList
<1>14. ASSUME NEW q \in posts, Refuse(q) \/ Lose(q) PROVE NothingAhead'
  <2>1. LET t == To(q, "refused") IN t.field = q.field /\ t.phone = q.phone /\ (HasResult(t) => HasResult(q) /\ t.result = q.result)
    BY StageMoved DEF Shape, Stages
  <2> QED
    BY <1>14, <2>1, PostAhead DEF Refuse, Lose, ServerStep
<1>15. ASSUME NEW q \in posts, Commit(q) PROVE NothingAhead'
  <2>1. IsPost(q) /\ ~HasResult(q) /\ q.field \in Fields /\ q.phone \in Phones /\ q.want \in BOOLEAN
    BY <1>15 DEF Shape, Commit, IsPost
  <2>2. contact' \in Contacts /\ \A o \in Phones, g \in Fields : contact'[o][g].at >= contact[o][g].at
    BY <1>15, <2>1, ContactChanged DEF Commit, Shape
  <2>3. ContactGrows
    BY <2>2 DEF ContactGrows, Fields
  <2>4. contact'[q.phone][q.field] \in Stamped
    BY <2>1, <2>2 DEF Contacts
  <2>5. PICK s \in {"committed", "answered"} : Now(q, WithResult(To(q, s), contact'[q.phone][q.field]))
    BY <1>15 DEF Commit
  <2> DEFINE t == WithResult(To(q, s), contact'[q.phone][q.field])
  <2>6. t.phone = q.phone /\ t.field = q.field /\ t.result = contact'[q.phone][q.field]
    BY <2>1, <2>4, ResultGiven DEF Stages
  <2>7. \A o \in posts' : o \in posts \/ o = t
    BY <2>5 DEF Now
  <2> HIDE DEF t
  <2>8. UNCHANGED <<rows, reads>>
    BY <1>15 DEF Commit, ServerStep
  <2> QED
    BY <2>1, <2>2, <2>3, <2>6, <2>7, <2>8, AheadKept
<1>16. ASSUME NEW q \in posts, InsertMessage(q) PROVE NothingAhead'
  <2>1. IsPost(q) /\ ~HasResult(q) /\ q.field = "message"
    BY <1>16 DEF Shape, InsertMessage, IsPost
  <2>2. "message" \notin Fields /\ "message" \notin Toggles
    BY DEF Fields, Toggles
  <2>3. LET t == WithResult(To(q, "inserted"), Len(log')) IN t.field = q.field /\ t.phone = q.phone
    BY <2>1, <2>2, ResultGiven DEF Stages
  <2> QED
    BY <1>16, <2>1, <2>2, <2>3, PostAhead DEF InsertMessage, ServerStep
<1>17. ASSUME NEW q \in posts, CommitMessage(q) PROVE NothingAhead'
  <2>1. IsPost(q) /\ HasResult(q)
    BY <1>17 DEF Shape, CommitMessage, IsPost
  <2>2. LET t == To(q, "committed") IN t.field = q.field /\ t.phone = q.phone /\ t.result = q.result
    BY <2>1, StageMoved DEF Stages
  <2> QED
    BY <1>17, <2>1, <2>2, PostAhead DEF CommitMessage, ServerStep
<1>18. ASSUME NEW q \in posts, Respond(q) PROVE NothingAhead'
  <2>1. IsPost(q) /\ HasResult(q)
    BY <1>18 DEF Shape, Respond, IsPost
  <2>2. LET t == To(q, "answered") IN t.field = q.field /\ t.phone = q.phone /\ t.result = q.result
    BY <2>1, StageMoved DEF Stages
  <2> QED
    BY <1>18, <2>1, <2>2, PostAhead DEF Respond, ServerStep
<1>19. ASSUME NEW q \in posts, Answered(q) PROVE NothingAhead'
  <2>1. IsPost(q) /\ HasResult(q) /\ q.phone \in Phones
    BY <1>19 DEF Answered, Shape, IsPost
  <2>2. reads' \subseteq reads \cup {ListRead} /\ posts' \subseteq posts /\ contact' = contact
    BY <1>19 DEF Answered, Handled, Reloads
  <2>3. \A p \in Phones, f \in Toggles :
             rows'[p][f].at = rows[p][f].at \/ rows'[p][f].at <= contact[p][f].at
    <3>1. CASE q.field \in Toggles \cup {"alias"}
      <4>1. rows' = [rows EXCEPT ![q.phone][q.field] = q.result]
        BY <1>19, <3>1 DEF Answered
      <4>2. q.field \in Toggles => q.result.at <= contact[q.phone][q.field].at
        BY <2>1 DEF NothingAhead, ResultsInv
      <4> QED
        BY <4>1, <4>2, <2>1 DEF Shape, Contacts, Fields
    <3>2. CASE q.field \notin Toggles \cup {"alias"}
      BY <1>19, <3>2 DEF Answered
    <3> QED
      BY <3>1, <3>2
  <2> QED
    BY <2>2, <2>3, TabAhead
<1>20. ASSUME NEW q \in posts, Rejected(q) PROVE NothingAhead'
  <2>1. IsPost(q) /\ q.phone \in Phones
    BY <1>20 DEF Shape, IsPost
  <2>2. UNCHANGED <<contact, reads>> /\ posts' \subseteq posts
    BY <1>20 DEF Rejected, Handled
  <2>3. \A p \in Phones, f \in Fields : rows'[p][f].at = rows[p][f].at
    <3>1. CASE q.field \in Toggles \cup {"pinned", "payment_pending"}
      BY <1>20, <2>1, <3>1, RowShown DEF Rejected, RowShows, Shape, Fields
    <3>2. CASE q.field \notin Toggles \cup {"pinned", "payment_pending"}
      BY <1>20, <3>2 DEF Rejected
    <3> QED
      BY <3>1, <3>2
  <2> QED
    BY <2>2, <2>3, TabAhead DEF Fields
<1>21. ASSUME NEW i \in 1..Len(log), TurnPublishes(i) \/ TurnEnds(i) PROVE NothingAhead'
  BY <1>21, TabAhead DEF TurnPublishes, TurnEnds, ServerStep
<1>22. ASSUME UNCHANGED consoleVars PROVE NothingAhead'
  BY <1>22, TabAhead DEF consoleVars
<1> QED
  BY <1>1, <1>2, <1>4, <1>5, <1>6, <1>7, <1>8, <1>9, <1>10, <1>11, <1>12, <1>13, <1>14, <1>15, <1>16,
     <1>17, <1>18, <1>19, <1>20, <1>21, <1>22 DEF Next

(***************************************************************************)
(* Clicks and openings are numbered.                                       *)
(***************************************************************************)
\* A button only moves by its reducer.
Reduced(t, u) ==
    \/ u \in {t, Click(t), Failed(t)}
    \/ \E v \in Stamped : u = Confirmed(t, v) \/ \E e : u = Observed(t, v, e)

LEMMA ReducedNumbers ==
  ASSUME NEW t \in ToggleState, NEW u, Reduced(t, u), t.was.at = t.shown.at
  PROVE  u.was.at = u.shown.at /\ u.epoch \in {t.epoch, t.epoch + 1}
<1>1. t.shown \in Stamped
  BY DEF ToggleState
<1>2. CASE u \in {t, Click(t), Failed(t)}
  BY <1>1, <1>2, ToggleMoved
<1>3. ASSUME NEW v \in Stamped, u = Confirmed(t, v)
      PROVE  u.was.at = u.shown.at /\ u.epoch \in {t.epoch, t.epoch + 1}
  BY <1>3, ToggleMoved
<1>4. ASSUME NEW v \in Stamped, NEW e, u = Observed(t, v, e)
      PROVE  u.was.at = u.shown.at /\ u.epoch \in {t.epoch, t.epoch + 1}
  <2>1. u = t \/ u = Settled(v, t.epoch)
    BY <1>4 DEF Observed
  <2> QED
    BY <2>1 DEF Settled
<1> QED
  BY <1>2, <1>3, <1>4 DEF Reduced

LEMMA NumberedKept ==
  ASSUME Shape, Numbered, opens' \in {opens, opens + 1},
         \A f \in Toggles : Reduced(toggle[f], toggle'[f]),
         \A r \in reads' : r.kind = "thread" =>
             r.epochs = Epochs \/ \E o \in reads : o.kind = "thread" /\ o.epochs = r.epochs,
         \A q \in posts' : q.opening = opens \/ \E o \in posts : o.opening = q.opening
  PROVE  Numbered'
<1>1. \A f \in Toggles : toggle[f] \in ToggleState /\ toggle[f].epoch \in Nat
  BY Numbers
<1>2. \A f \in Toggles : toggle[f].was.at = toggle[f].shown.at
  BY DEF Numbered
<1>3. \A f \in Toggles : toggle'[f].was.at = toggle'[f].shown.at /\ toggle'[f].epoch \in {toggle[f].epoch, toggle[f].epoch + 1}
  BY <1>1, <1>2, ReducedNumbers
<1>4. ASSUME NEW r \in reads', r.kind = "thread", NEW f \in Toggles
      PROVE  r.epochs[f] <= toggle'[f].epoch
  <2>1. CASE r.epochs = Epochs
    BY <1>1, <1>3, <2>1 DEF Epochs
  <2>2. ASSUME NEW o \in reads, o.kind = "thread", o.epochs = r.epochs PROVE r.epochs[f] <= toggle'[f].epoch
    <3>1. o.epochs[f] \in Nat /\ o.epochs[f] <= toggle[f].epoch
      BY <2>2, Numbers DEF Numbered
    <3> QED
      BY <1>1, <1>3, <2>2, <3>1
  <2> QED
    BY <1>4, <2>1, <2>2
<1>5. ASSUME NEW q \in posts' PROVE q.opening <= opens'
  <2>1. opens \in Nat /\ \A o \in posts : o.opening \in Nat /\ o.opening <= opens
    BY DEF Shape, IsPost, Numbered
  <2> QED
    BY <2>1
<1> QED
  BY <1>3, <1>4, <1>5 DEF Numbered

LEMMA InitNumbered == Init => Numbered
<1> SUFFICES ASSUME Init PROVE Numbered
  OBVIOUS
<1>1. \A f \in Toggles : toggle[f] = Settled(contact[Opened][f], 0)
  BY DEF Init
<1> QED
  BY <1>1 DEF Init, Numbered, Settled

LEMMA Unmoved == ASSUME toggle' = toggle PROVE \A f \in Toggles : Reduced(toggle[f], toggle'[f])
  BY DEF Reduced

\* A post that only moves on keeps its opening.
LEMMA PostNumbered ==
  ASSUME Shape, Numbered, UNCHANGED <<toggle, reads, opens>>, NEW q \in posts, NEW then, Now(q, then),
         then.opening = q.opening
  PROVE  Numbered'
  BY Unmoved, NumberedKept DEF Now

LEMMA NextNumbered == Shape /\ Numbered /\ [Next]_consoleVars => Numbered'
<1> SUFFICES ASSUME Shape, Numbered, [Next]_consoleVars PROVE Numbered'
  OBVIOUS
<1> USE DEF serverVars, boundVars, historyVars, paneVars
<1>1. \A p, full : ThreadRead(p, full, Epochs).epochs = Epochs
  BY DEF ThreadRead
<1>2. ListRead.kind = "list"
  BY DEF ListRead
<1>3. ASSUME Poll \/ LoadConversations \/ Activity \/ Reconnect \/ Close PROVE Numbered'
  <2>1. reads' \subseteq reads \cup {ListRead, ThreadRead(current, FALSE, Epochs)} /\ UNCHANGED <<toggle, posts, opens>>
    BY <1>3 DEF Poll, LoadConversations, Activity, Reconnect, Close
  <2> QED
    BY <1>1, <1>2, <2>1, Unmoved, NumberedKept
<1>4. ASSUME NEW p \in Phones, Open(p) PROVE Numbered'
  <2>1. reads' \subseteq reads \cup {ThreadRead(p, TRUE, Epochs)} /\ posts' = posts /\ opens' = opens + 1
    BY <1>4 DEF Open
  <2>2. \A f \in Toggles : toggle'[f] = Confirmed(toggle[f], rows[p][f]) /\ rows[p][f] \in Stamped
    BY <1>4, Numbers DEF Open
  <2>3. \A f \in Toggles : Reduced(toggle[f], toggle'[f])
    BY <2>2 DEF Reduced
  <2> QED
    BY <1>1, <2>1, <2>3, NumberedKept
<1>5. ASSUME Acts, NEW field \in Fields \cup {"message"}, NEW p \in Phones, NEW want \in BOOLEAN, Post(field, p, want),
             \A f \in Toggles : Reduced(toggle[f], toggle'[f])
      PROVE  Numbered'
  <2>1. \A q \in posts' : q.opening = opens \/ q \in posts
    BY <1>5, PostMade
  <2>2. UNCHANGED <<opens, reads>>
    BY <1>5 DEF Acts
  <2> QED
    BY <1>5, <2>1, <2>2, NumberedKept
<1>6. ASSUME ClearPayment \/ Send PROVE Numbered'
  BY <1>5, <1>6, Unmoved DEF ClearPayment, Send, Shape, Fields
<1>7. ASSUME NEW f \in Toggles, PressToggle(f) PROVE Numbered'
  <2>1. current \in Phones /\ f \in Fields
    BY <1>7 DEF PressToggle, Shape, Fields
  <2>2. \A g \in Toggles : toggle'[g] \in {toggle[g], Click(toggle[g])}
    BY <1>7 DEF PressToggle, Shape
  <2>3. \A g \in Toggles : Reduced(toggle[g], toggle'[g])
    BY <2>2 DEF Reduced
  <2> QED
    BY <1>5, <1>7, <2>1, <2>3 DEF PressToggle
<1>8. ASSUME NEW p \in Phones, TogglePin(p) \/ SaveRename(p) PROVE Numbered'
  BY <1>5, <1>8, Unmoved DEF TogglePin, SaveRename, Fields
<1>9. ASSUME toggle' = toggle, opens' = opens, reads' \subseteq reads, posts' \subseteq posts PROVE Numbered'
  BY <1>9, Unmoved, NumberedKept
<1>10. ASSUME NEW p \in Phones, TurnInserts(p) PROVE Numbered'
  BY <1>9, <1>10 DEF TurnInserts, ServerStep
<1>11. ASSUME NEW p \in Phones, NEW f \in Elsewhere, OtherAgent(p, f) PROVE Numbered'
  BY <1>9, <1>11 DEF OtherAgent, ServerStep
<1>12. ASSUME NEW r \in reads, Serve(r) PROVE Numbered'
  <2>1. r.kind = "thread" /\ "epochs" \in DOMAIN r
    BY <1>12 DEF Serve, Shape, IsList, IsThread
  <2>2. PICK d : reads' = (reads \ {r}) \cup {[r EXCEPT !.data = d]} /\ UNCHANGED <<toggle, posts, opens>>
    BY <1>12 DEF Serve
  <2>3. [r EXCEPT !.data = d].epochs = r.epochs
    BY <2>1
  <2> QED
    BY <2>1, <2>2, <2>3, Unmoved, NumberedKept
<1>13. ASSUME NEW r \in reads, LandThread(r) PROVE Numbered'
  <2>1. \A f \in Toggles : r.data.contact[f] \in Stamped
    BY <1>13, Numbers DEF LandThread
  <2>2. \A f \in Toggles : toggle'[f] \in {toggle[f], Observed(toggle[f], r.data.contact[f], r.epochs[f])}
    BY <1>13 DEF LandThread
  <2>3. \A f \in Toggles : Reduced(toggle[f], toggle'[f])
    BY <2>1, <2>2 DEF Reduced
  <2> QED
    BY <1>13, <2>3, NumberedKept DEF LandThread
<1>14. ASSUME NEW r \in reads, LandList(r) \/ ReadFails(r) PROVE Numbered'
  BY <1>9, <1>14 DEF LandList, ReadFails
<1>15. ASSUME NEW q \in posts, Refuse(q) \/ Lose(q) PROVE Numbered'
  <2>1. To(q, "refused").opening = q.opening
    BY DEF Shape, IsPost, To
  <2> QED
    BY <1>15, <2>1, PostNumbered DEF Refuse, Lose, ServerStep
<1>16. ASSUME NEW q \in posts, Commit(q) PROVE Numbered'
  <2>1. PICK s, v : Now(q, WithResult(To(q, s), v))
    BY <1>16 DEF Commit
  <2>2. WithResult(To(q, s), v).opening = q.opening
    BY DEF Shape, IsPost, To, WithResult
  <2> QED
    BY <1>16, <2>1, <2>2, PostNumbered DEF Commit, ServerStep
<1>17. ASSUME NEW q \in posts, InsertMessage(q) PROVE Numbered'
  <2>1. WithResult(To(q, "inserted"), Len(log')).opening = q.opening
    BY DEF Shape, IsPost, To, WithResult
  <2> QED
    BY <1>17, <2>1, PostNumbered DEF InsertMessage, ServerStep
<1>18. ASSUME NEW q \in posts, CommitMessage(q) \/ Respond(q) PROVE Numbered'
  <2>1. To(q, "committed").opening = q.opening /\ To(q, "answered").opening = q.opening
    BY DEF Shape, IsPost, To
  <2> QED
    BY <1>18, <2>1, PostNumbered DEF CommitMessage, Respond, ServerStep
<1>19. ASSUME NEW q \in posts, Answered(q) PROVE Numbered'
  <2>1. reads' \subseteq reads \cup {ListRead} /\ posts' \subseteq posts /\ opens' = opens
    BY <1>19 DEF Answered, Handled, Reloads
  <2>2. \A f \in Toggles : toggle'[f] = toggle[f] \/ (f = q.field /\ toggle'[f] = Confirmed(toggle[f], q.result))
    BY <1>19 DEF Answered, Shape
  <2>3. q.field \in Toggles => q.result \in Stamped
    BY <1>19 DEF Answered, Shape, IsPost, Fields
  <2>4. \A f \in Toggles : Reduced(toggle[f], toggle'[f])
    BY <2>2, <2>3 DEF Reduced
  <2> QED
    BY <1>2, <2>1, <2>4, NumberedKept
<1>20. ASSUME NEW q \in posts, Rejected(q) PROVE Numbered'
  <2>1. reads' = reads /\ posts' \subseteq posts /\ opens' = opens
    BY <1>20 DEF Rejected, Handled
  <2>2. \A f \in Toggles : toggle'[f] \in {toggle[f], Failed(toggle[f])}
    BY <1>20 DEF Rejected, Shape
  <2>3. \A f \in Toggles : Reduced(toggle[f], toggle'[f])
    BY <2>2 DEF Reduced
  <2> QED
    BY <2>1, <2>3, NumberedKept
<1>21. ASSUME NEW i \in 1..Len(log), TurnPublishes(i) \/ TurnEnds(i) PROVE Numbered'
  BY <1>9, <1>21 DEF TurnPublishes, TurnEnds, ServerStep
<1>22. ASSUME UNCHANGED consoleVars PROVE Numbered'
  BY <1>9, <1>22 DEF consoleVars
<1> QED
  BY <1>3, <1>4, <1>6, <1>7, <1>8, <1>10, <1>11, <1>12, <1>13, <1>14, <1>15, <1>16,
     <1>17, <1>18, <1>19, <1>20, <1>21, <1>22 DEF Next

(***************************************************************************)
(* The open thread's buttons.                                              *)
(***************************************************************************)
LEMMA ShownKept ==
  ASSUME Shape, NEW f \in Toggles, ShownInv(f), contact' \in Contacts, ContactGrows, current' \in {current, NoOne},
         toggle'[f].shown.at = toggle[f].shown.at
  PROVE  ShownInv(f)'
<1>1. toggle[f].shown.at \in Nat /\ \A p \in Phones : contact[p][f].at \in Nat /\ contact'[p][f].at \in Nat
  BY Numbers, StampOf
<1>2. current' # NoOne => current' = current /\ current \in Phones
  BY DEF Shape
<1> QED
  BY <1>1, <1>2 DEF ShownInv, ContactGrows

LEMMA FetchKept ==
  ASSUME Shape, NEW f \in Toggles, FetchInv(f), current' \in {current, NoOne},
         toggle'[f].shown.at = toggle[f].shown.at, toggle'[f].epoch = toggle[f].epoch,
         \A r \in reads' : r.kind = "thread" => r \in reads
  PROVE  FetchInv(f)'
<1>1. \A r \in reads' : Fresh(r, f)' => Fresh(r, f)
  BY DEF Fresh
<1>2. \A r \in reads' : r.kind = "thread" => r.phone \in Phones
  BY Numbers
<1>3. \A r \in reads' : Fresh(r, f)' /\ r.phone = current' => r.phone = current
  BY <1>2, ConsoleAssumption DEF Fresh
<1> QED
  BY <1>1, <1>3 DEF FetchInv, Fresh

\* A click or an opening that counts makes every fetch under way too old.
LEMMA FetchStale ==
  ASSUME Shape, Numbered, NEW f \in Toggles, toggle'[f].epoch = toggle[f].epoch + 1,
         \A r \in reads' : r.kind = "thread" => r \in reads \/ r.epochs = Epochs
  PROVE  FetchInv(f)'
<1>1. toggle[f].epoch \in Nat /\ Epochs[f] = toggle[f].epoch
  BY Numbers DEF Epochs
<1>2. \A r \in reads : r.kind = "thread" => r.epochs[f] \in Nat /\ r.epochs[f] <= toggle[f].epoch
  BY Numbers DEF Numbered
<1>3. \A r \in reads' : r.kind = "thread" => r.epochs[f] # toggle'[f].epoch
  BY <1>1, <1>2
<1> QED
  BY <1>3 DEF FetchInv, Fresh

\* The posts of one step after it: some are gone, q has moved on to then.
LEMMA ClickKept ==
  ASSUME Shape, NEW f \in Toggles, ClickInv(f), contact' \in Contacts, ContactGrows, current' \in {current, NoOne},
         opens' = opens, toggle'[f].shown.at = toggle[f].shown.at, toggle[f].pending => toggle'[f].pending,
         NEW q \in posts, NEW then,
         \A o \in posts' : o.field = f => (o \in posts /\ o # q) \/ o = then,
         \/ then = q
         \/ /\ then.field = q.field /\ then.phone = q.phone /\ then.opening = q.opening
            /\ then.field = f => ~HasResult(q) /\ HasResult(then) /\ then.result = contact'[q.phone][f]
         \/ /\ then.field = q.field /\ then.phone = q.phone /\ then.opening = q.opening
            /\ then.field = f => (HasResult(then) <=> HasResult(q)) /\ (HasResult(q) => then.result = q.result)
  PROVE  ClickInv(f)'
<1>1. /\ toggle[f].shown.at \in Nat
      /\ \A p \in Phones : contact[p][f].at \in Nat /\ contact'[p][f].at \in Nat
      /\ \A o \in posts : o.field = f => o.phone \in Phones /\ (HasResult(o) => o.result.at \in Nat)
  BY Numbers, StampOf
<1>2. \A p \in Phones : contact'[p][f].at >= contact[p][f].at
  BY DEF ContactGrows
<1> DEFINE old(o) == IF o = then THEN q ELSE o
<1>3. ASSUME NEW o \in posts', Clicked(o, f)' PROVE old(o) \in posts /\ Clicked(old(o), f) /\ old(o).phone = o.phone
  BY <1>3 DEF Clicked
<1>4. ASSUME NEW o \in posts', Clicked(o, f)'
      PROVE  /\ toggle'[f].pending
             /\ current' \in {o.phone, NoOne}
             /\ toggle'[f].shown.at <= IF HasResult(o) THEN o.result.at ELSE contact'[o.phone][f].at
  <2>1. /\ toggle[f].pending
        /\ current \in {o.phone, NoOne}
        /\ toggle[f].shown.at <= IF HasResult(old(o)) THEN old(o).result.at ELSE contact[o.phone][f].at
    BY <1>3, <1>4 DEF ClickInv
  <2>2. o.phone \in Phones /\ (HasResult(old(o)) => old(o).result.at \in Nat)
    BY <1>1, <1>3, <1>4 DEF Clicked
  <2>3. \/ HasResult(o) /\ HasResult(old(o)) /\ o.result = old(o).result
        \/ ~HasResult(o) /\ ~HasResult(old(o))
        \/ HasResult(o) /\ ~HasResult(old(o)) /\ o.result = contact'[o.phone][f]
    BY <1>4 DEF Clicked
  <2> QED
    BY <1>1, <1>2, <2>1, <2>2, <2>3
<1>5. ASSUME NEW o1 \in posts', NEW o2 \in posts', Clicked(o1, f)', Clicked(o2, f)' PROVE o1 = o2
  <2>1. old(o1) = old(o2)
    BY <1>3, <1>5 DEF ClickInv
  <2> QED
    BY <1>5, <2>1 DEF Clicked
<1> QED
  BY <1>4, <1>5 DEF ClickInv, HasResult

\* Steps that touch neither the buttons nor what could move them.
LEMMA PaneQuiet ==
  ASSUME ConsoleInv, ContactGrows, contact' \in Contacts, UNCHANGED <<toggle, opens>>, ~tangled' => ~tangled,
         current' \in {current, NoOne},
         \A r \in reads' : r.kind = "thread" => r \in reads,
         \A q \in posts' : q.field \in Toggles => q \in posts
  PROVE  PaneInv'
<1> SUFFICES ASSUME ~tangled', NEW f \in Toggles PROVE ShownInv(f)' /\ FetchInv(f)' /\ ClickInv(f)'
  BY DEF PaneInv
<1>1. Shape /\ ShownInv(f) /\ FetchInv(f) /\ ClickInv(f)
  BY DEF ConsoleInv, PaneInv
<1>2. ShownInv(f)' /\ FetchInv(f)'
  BY <1>1, ShownKept, FetchKept
<1>3. ClickInv(f)'
  <2>1. CASE posts = {}
    BY <2>1 DEF ClickInv, Clicked
  <2>2. CASE posts # {}
    <3>1. PICK q \in posts : TRUE
      BY <2>2
    <3>2. \A o \in posts' : o.field = f => (o \in posts /\ o # q) \/ o = q
      BY <3>1
    <3> QED
      BY <1>1, <3>2, ClickKept
  <2> QED
    BY <2>1, <2>2
<1> QED
  BY <1>2, <1>3

\* A post moves on.
LEMMA PanePost ==
  ASSUME ConsoleInv, ContactGrows, contact' \in Contacts, UNCHANGED <<toggle, opens, current, reads>>, tangled' = tangled,
         NEW q \in posts, NEW then, Now(q, then),
         then.field = q.field, then.phone = q.phone, then.opening = q.opening,
         then.field \in Toggles =>
             \/ ~HasResult(q) /\ HasResult(then) /\ then.result = contact'[q.phone][q.field]
             \/ (HasResult(then) <=> HasResult(q)) /\ (HasResult(q) => then.result = q.result)
  PROVE  PaneInv'
<1> SUFFICES ASSUME ~tangled', NEW f \in Toggles PROVE ShownInv(f)' /\ FetchInv(f)' /\ ClickInv(f)'
  BY DEF PaneInv
<1>1. Shape /\ ShownInv(f) /\ FetchInv(f) /\ ClickInv(f)
  BY DEF ConsoleInv, PaneInv
<1>2. ShownInv(f)' /\ FetchInv(f)'
  BY <1>1, ShownKept, FetchKept
<1>3. \A o \in posts' : (o \in posts /\ o # q) \/ o = then
  BY DEF Now
<1>4. ClickInv(f)'
  BY <1>1, <1>3, ClickKept
<1> QED
  BY <1>2, <1>4

\* A fetch of the open thread that is the only one.
LEMMA PaneFetch ==
  ASSUME ConsoleInv, UNCHANGED <<contact, toggle, opens, current, posts>>, ~tangled' => ~tangled /\ OfKind("thread") = {},
         NEW t, t.kind = "thread", ~t.data.served,
         \A r \in reads' : r.kind = "thread" => r \in reads \/ r = t
  PROVE  PaneInv'
<1> SUFFICES ASSUME ~tangled', NEW f \in Toggles PROVE ShownInv(f)' /\ FetchInv(f)' /\ ClickInv(f)'
  BY DEF PaneInv
<1>1. Shape /\ ShownInv(f) /\ ClickInv(f)
  BY DEF ConsoleInv, PaneInv
<1>2. contact' \in Contacts /\ ContactGrows
  BY <1>1, ContactSame DEF Shape
<1>3. ShownInv(f)'
  BY <1>1, <1>2, ShownKept
<1>4. \A r \in reads' : r.kind = "thread" => r = t
  BY DEF OfKind
<1>5. FetchInv(f)'
  BY <1>4 DEF FetchInv, Fresh
<1>6. ClickInv(f)'
  BY <1>1 DEF ClickInv, Clicked
<1> QED
  BY <1>3, <1>5, <1>6

LEMMA ServePane ==
  ASSUME ConsoleInv, NEW r \in reads, Serve(r)
  PROVE  PaneInv'
<1> SUFFICES ASSUME ~tangled', NEW f \in Toggles PROVE ShownInv(f)' /\ FetchInv(f)' /\ ClickInv(f)'
  BY DEF PaneInv
<1> USE DEF serverVars, boundVars, historyVars, paneVars
<1>0. UNCHANGED <<contact, toggle, opens, current, posts, tangled>>
  BY DEF Serve
<1>1. Shape /\ ShownInv(f) /\ FetchInv(f) /\ ClickInv(f)
  BY <1>0 DEF ConsoleInv, PaneInv
<1>2. contact' \in Contacts /\ ContactGrows
  BY <1>0, <1>1, ContactSame DEF Shape
<1>3. ShownInv(f)'
  BY <1>0, <1>1, <1>2, ShownKept
<1>4. ClickInv(f)'
  BY <1>0, <1>1 DEF ClickInv, Clicked
<1>5. FetchInv(f)'
  <2>1. IsThread(r) /\ r.phone \in Phones
    BY <1>1 DEF Serve, Shape, IsList, IsThread
  <2>2. contact[r.phone] \in [Fields -> Stamped]
    BY <1>1, <2>1 DEF Shape, Contacts
  <2>3. PICK ids : reads' = (reads \ {r}) \cup {[r EXCEPT !.data = [served |-> TRUE, contact |-> contact[r.phone], ids |-> ids]]}
    BY DEF Serve
  <2> DEFINE t == [r EXCEPT !.data = [served |-> TRUE, contact |-> contact[r.phone], ids |-> ids]]
  <2>4. IsThread(t) /\ t.phone = r.phone /\ t.epochs = r.epochs /\ t.data.contact = contact[r.phone]
    BY <2>1, <2>2, ThreadServed
  <2>5. reads' = (reads \ {r}) \cup {t}
    BY <2>3
  <2> HIDE DEF t
  <2> DEFINE old(o) == IF o = t THEN r ELSE o
  <2>6. ASSUME NEW o \in reads', Fresh(o, f)' PROVE old(o) \in reads /\ Fresh(old(o), f)
    BY <1>0, <2>1, <2>4, <2>5, <2>6 DEF Fresh, IsThread
  <2>7. ASSUME NEW o \in reads', Fresh(o, f)', o.data.served, o.phone = current'
        PROVE  toggle'[f].shown.at <= o.data.contact[f].at
    <3>1. CASE o = t
      BY <1>0, <1>1, <2>1, <2>4, <2>7, <3>1, ConsoleAssumption DEF ShownInv
    <3>2. CASE o # t
      BY <1>0, <1>1, <2>6, <2>7, <3>2 DEF FetchInv
    <3> QED
      BY <3>1, <3>2
  <2>8. ASSUME NEW o1 \in reads', NEW o2 \in reads', Fresh(o1, f)', Fresh(o2, f)' PROVE o1 = o2
    <3>1. old(o1) = old(o2)
      BY <1>1, <2>6, <2>8 DEF FetchInv
    <3> QED
      BY <2>5, <2>8, <3>1
  <2> QED
    BY <2>7, <2>8 DEF FetchInv, Fresh
<1> QED
  BY <1>3, <1>4, <1>5

\* What a fetch brings to a button is no older than the button.
LEMMA LandThreadPane ==
  ASSUME ConsoleInv, NEW r \in reads, LandThread(r), ~tangled', NEW f \in Toggles
  PROVE  /\ ShownInv(f)' /\ FetchInv(f)' /\ ClickInv(f)'
         /\ toggle'[f].shown.at >= toggle[f].shown.at
<1> USE DEF serverVars, boundVars, historyVars, paneVars
<1>0. /\ UNCHANGED <<contact, opens, current, posts, tangled>>
      /\ reads' = reads \ {r} /\ r.kind = "thread" /\ r.data.served
  BY DEF LandThread
<1>1. Shape /\ Numbered /\ ThreadsInv /\ ShownInv(f) /\ FetchInv(f) /\ ClickInv(f)
  BY <1>0 DEF ConsoleInv, NothingAhead, PaneInv
<1>2. contact' \in Contacts /\ ContactGrows
  BY <1>0, <1>1, ContactSame DEF Shape
<1>3. /\ toggle[f] \in ToggleState /\ toggle[f].shown \in Stamped /\ toggle[f].shown.at \in Nat
      /\ r.data.contact[f] \in Stamped /\ r.data.contact[f].at \in Nat
      /\ toggle[f].epoch \in Nat /\ r.epochs[f] \in Nat
  BY <1>0, <1>1, Numbers
<1>4. CASE toggle'[f] = toggle[f]
  <2>1. ShownInv(f)' /\ FetchInv(f)'
    BY <1>0, <1>1, <1>2, <1>4, ShownKept, FetchKept
  <2>2. ClickInv(f)'
    BY <1>0, <1>1, <1>4 DEF ClickInv, Clicked
  <2> QED
    BY <1>3, <1>4, <2>1, <2>2
<1>5. CASE toggle'[f] # toggle[f]
  <2>1. r.phone = current /\ toggle'[f] = Observed(toggle[f], r.data.contact[f], r.epochs[f])
    BY <1>5, <1>1 DEF LandThread
  <2>2. ~toggle[f].pending /\ ~(r.epochs[f] < toggle[f].epoch) /\ toggle'[f] = Settled(r.data.contact[f], toggle[f].epoch)
    BY <1>5, <2>1 DEF Observed
  <2>3. toggle'[f].shown = r.data.contact[f] /\ toggle'[f].epoch = toggle[f].epoch
    BY <2>2 DEF Settled
  <2>4. Fresh(r, f)
    BY <1>0, <1>1, <1>3, <2>2 DEF Fresh, Numbered
  <2>5. toggle[f].shown.at <= r.data.contact[f].at
    BY <1>0, <1>1, <2>1, <2>4 DEF FetchInv
  <2>6. ShownInv(f)'
    BY <1>0, <1>1, <2>1, <2>3 DEF ShownInv, ThreadsInv
  <2>7. \A o \in reads' : ~Fresh(o, f)'
    BY <1>0, <1>1, <2>3, <2>4 DEF FetchInv, Fresh
  <2>8. FetchInv(f)'
    BY <2>7 DEF FetchInv, Fresh
  <2>9. \A q \in posts' : ~Clicked(q, f)'
    BY <1>0, <1>1, <2>2 DEF ClickInv, Clicked
  <2>10. ClickInv(f)'
    BY <2>9 DEF ClickInv, Clicked
  <2> QED
    BY <1>3, <2>3, <2>5, <2>6, <2>8, <2>10
<1> QED
  BY <1>4, <1>5

LEMMA PressTogglePane ==
  ASSUME ConsoleInv, NEW g \in Toggles, PressToggle(g), ~tangled', NEW f \in Toggles
  PROVE  /\ ShownInv(f)' /\ FetchInv(f)' /\ ClickInv(f)'
         /\ toggle'[f].shown.at = toggle[f].shown.at
<1> USE DEF serverVars, boundVars, historyVars, paneVars
<1>0. UNCHANGED <<contact, opens, current, reads, tangled>>
  BY DEF PressToggle, Acts
<1>1. Shape /\ Numbered /\ ShownInv(f) /\ FetchInv(f) /\ ClickInv(f)
  BY <1>0 DEF ConsoleInv, PaneInv
<1>2. contact' \in Contacts /\ ContactGrows
  BY <1>0, <1>1, ContactSame DEF Shape
<1>3. current \in Phones /\ g \in Fields
  BY <1>1 DEF PressToggle, Shape, Fields
<1>4. PICK q : /\ posts' = posts \cup {q} /\ q.field = g /\ q.phone = current /\ ~HasResult(q) /\ q.opening = opens
  <2> DEFINE want == ~toggle[g].shown.value
  <2>1. Post(g, current, want) /\ want \in BOOLEAN
    BY DEF PressToggle
  <2> HIDE DEF want
  <2> QED
    BY <1>1, <1>3, <2>1, PostMade
<1>5. toggle[f] \in ToggleState /\ toggle[f].shown \in Stamped /\ toggle[f].shown.at \in Nat
  BY <1>1, Numbers
<1>6. CASE f # g
  <2>1. toggle'[f] = toggle[f]
    BY <1>6 DEF PressToggle
  <2>2. ShownInv(f)' /\ FetchInv(f)'
    BY <1>0, <1>1, <1>2, <2>1, ShownKept, FetchKept
  <2>3. ClickInv(f)'
    BY <1>0, <1>1, <1>4, <1>6, <2>1 DEF ClickInv, Clicked
  <2> QED
    BY <2>1, <2>2, <2>3
<1>7. CASE f = g
  <2>1. toggle'[f] = Click(toggle[f]) /\ ~toggle[f].pending
    BY <1>1, <1>7 DEF PressToggle, Shape
  <2>2. toggle'[f].shown.at = toggle[f].shown.at /\ toggle'[f].pending /\ toggle'[f].epoch = toggle[f].epoch + 1
    BY <1>5, <2>1, AgentMoves
  <2>3. ShownInv(f)' /\ FetchInv(f)'
    BY <1>0, <1>1, <1>2, <2>2, ShownKept, FetchStale
  <2>4. \A o \in posts : ~Clicked(o, f)
    BY <1>1, <2>1 DEF ClickInv
  <2>5. \A o \in posts' : Clicked(o, f)' => o = q
    BY <1>0, <1>4, <2>4 DEF Clicked
  <2>6. toggle'[f].shown.at <= contact'[q.phone][f].at
    BY <1>0, <1>1, <1>3, <1>4, <2>2, ConsoleAssumption DEF ShownInv
  <2>7. ClickInv(f)'
    BY <1>0, <1>4, <2>2, <2>5, <2>6 DEF ClickInv, HasResult
  <2> QED
    BY <2>2, <2>3, <2>7
<1> QED
  BY <1>6, <1>7

LEMMA OpenPane ==
  ASSUME ConsoleInv, NEW p \in Phones, Open(p), NEW f \in Toggles
  PROVE  ShownInv(f)' /\ FetchInv(f)' /\ ClickInv(f)'
<1> USE DEF serverVars, boundVars, historyVars, paneVars
<1>0. /\ UNCHANGED <<contact, rows, posts>> /\ current' = p /\ opens' = opens + 1
      /\ reads' = reads \cup {ThreadRead(p, TRUE, Epochs)} /\ toggle'[f] = Confirmed(toggle[f], rows[p][f])
  BY DEF Open
<1>1. Shape /\ Numbered /\ RowsInv
  BY DEF ConsoleInv, NothingAhead
<1>2. toggle[f] \in ToggleState /\ rows[p][f] \in Stamped
  BY <1>1, Numbers
<1>3. toggle'[f].shown = rows[p][f] /\ toggle'[f].epoch = toggle[f].epoch + 1
  BY <1>0, <1>2, AgentMoves
<1>4. ShownInv(f)'
  BY <1>0, <1>1, <1>3 DEF RowsInv, ShownInv
<1>5. ThreadRead(p, TRUE, Epochs).epochs = Epochs
  BY DEF ThreadRead
<1>6. FetchInv(f)'
  BY <1>0, <1>1, <1>3, <1>5, FetchStale
<1>7. \A q \in posts' : ~Clicked(q, f)'
  BY <1>0, <1>1 DEF Clicked, Numbered, Shape, IsPost
<1>8. ClickInv(f)'
  BY <1>7 DEF ClickInv, Clicked
<1> QED
  BY <1>4, <1>6, <1>8

\* The answer to a click, or its failure: what the button then shows is no older.
LEMMA AnswerPane ==
  ASSUME ConsoleInv, NEW q \in posts, Answered(q) \/ Rejected(q), ~tangled', NEW f \in Toggles
  PROVE  /\ ShownInv(f)' /\ FetchInv(f)' /\ ClickInv(f)'
         /\ toggle'[f].shown.at >= toggle[f].shown.at
<1> USE DEF serverVars, boundVars, historyVars, paneVars
<1>0. /\ UNCHANGED <<contact, opens, current>> /\ posts' = posts \ {q} /\ ~tangled
      /\ reads' \subseteq reads \cup {ListRead}
      /\ q.field \in Toggles => q.opening = opens
  BY DEF Answered, Rejected, Handled, Reloads
<1>1. Shape /\ Numbered /\ ResultsInv /\ ShownInv(f) /\ FetchInv(f) /\ ClickInv(f)
  BY <1>0 DEF ConsoleInv, NothingAhead, PaneInv
<1>2. contact' \in Contacts /\ ContactGrows
  BY <1>0, <1>1, ContactSame DEF Shape
<1>3. \A r \in reads' : r.kind = "thread" => r \in reads
  <2>1. ListRead.kind = "list"
    BY DEF ListRead
  <2> QED
    BY <1>0, <2>1
<1>4. toggle[f] \in ToggleState /\ toggle[f].shown \in Stamped /\ toggle[f].was \in Stamped /\ toggle[f].shown.at \in Nat
      /\ toggle[f].was.at = toggle[f].shown.at
  BY <1>1, Numbers DEF Numbered
<1>5. CASE f # q.field
  <2>1. toggle'[f] = toggle[f]
    BY <1>1, <1>5 DEF Answered, Rejected, Shape
  <2>2. ShownInv(f)' /\ FetchInv(f)'
    BY <1>0, <1>1, <1>2, <1>3, <2>1, ShownKept, FetchKept
  <2>3. ClickInv(f)'
    BY <1>0, <1>1, <2>1 DEF ClickInv, Clicked
  <2> QED
    BY <1>4, <2>1, <2>2, <2>3
<1>6. CASE f = q.field
  <2>1. Clicked(q, f)
    BY <1>0, <1>6 DEF Clicked
  <2>2. toggle'[f].epoch = toggle[f].epoch + 1 /\ toggle'[f].shown.at >= toggle[f].shown.at
        /\ ShownInv(f)'
    <3>1. CASE Answered(q)
      <4>1. HasResult(q) /\ q.result \in Stamped /\ q.result.at \in Nat /\ q.phone \in Phones
        BY <1>1, <1>6, <3>1, Numbers DEF Answered, Shape, IsPost
      <4>2. toggle'[f] = Confirmed(toggle[f], q.result)
        BY <1>1, <1>6, <3>1 DEF Answered, Shape
      <4>3. toggle'[f].shown = q.result /\ toggle'[f].epoch = toggle[f].epoch + 1
        BY <1>4, <4>1, <4>2, AgentMoves
      <4>4. toggle[f].shown.at <= q.result.at /\ current \in {q.phone, NoOne}
        BY <1>1, <2>1, <4>1 DEF ClickInv
      <4>5. q.result.at <= contact[q.phone][f].at
        BY <1>1, <1>6, <4>1 DEF ResultsInv
      <4>6. ShownInv(f)'
        BY <1>0, <4>3, <4>4, <4>5 DEF ShownInv
      <4> QED
        BY <1>4, <4>1, <4>3, <4>4, <4>6
    <3>2. CASE Rejected(q)
      <4>1. toggle'[f] = Failed(toggle[f])
        BY <1>1, <1>6, <3>2 DEF Rejected, Shape
      <4>2. toggle'[f].shown.at = toggle[f].shown.at /\ toggle'[f].epoch = toggle[f].epoch + 1
        BY <1>4, <4>1, AgentMoves
      <4>3. ShownInv(f)'
        BY <1>0, <1>1, <1>2, <4>2, ShownKept
      <4> QED
        BY <1>4, <4>2, <4>3
    <3> QED
      BY <3>1, <3>2
  <2>3. FetchInv(f)'
    BY <1>1, <1>3, <2>2, FetchStale
  <2>4. \A o \in posts' : ~Clicked(o, f)'
    BY <1>0, <1>1, <2>1 DEF ClickInv, Clicked
  <2>5. ClickInv(f)'
    BY <2>4 DEF ClickInv, Clicked
  <2> QED
    BY <2>2, <2>3, <2>5
<1> QED
  BY <1>5, <1>6

LEMMA InitPane == Init => PaneInv
<1> SUFFICES ASSUME Init, NEW f \in Toggles PROVE ShownInv(f) /\ FetchInv(f) /\ ClickInv(f)
  BY DEF PaneInv
<1>1. reads = {} /\ posts = {} /\ current = Opened /\ toggle[f] = Settled(contact[Opened][f], 0)
  BY DEF Init
<1>2. contact[Opened][f].at \in Nat
  BY ShapeInit, StampOf, ConsoleAssumption DEF Shape
<1>3. ShownInv(f)
  BY <1>1, <1>2 DEF ShownInv, Settled
<1> QED
  BY <1>1, <1>3 DEF FetchInv, ClickInv

LEMMA NextPane == ConsoleInv /\ [Next]_consoleVars => PaneInv'
<1> SUFFICES ASSUME ConsoleInv, [Next]_consoleVars PROVE PaneInv'
  OBVIOUS
<1> USE DEF serverVars, boundVars, historyVars, paneVars
<1>0. Shape /\ contact \in Contacts
  BY DEF ConsoleInv, Shape
<1>1. ListRead.kind = "list"
  BY DEF ListRead
\* The server's stamps stay, nothing comes in that moves a button, and no post is made that could.
<1>2. ASSUME UNCHANGED <<contact, toggle, opens>>, ~tangled' => ~tangled, current' \in {current, NoOne},
             \A r \in reads' : r.kind = "thread" => r \in reads,
             \A q \in posts' : q.field \in Toggles => q \in posts
      PROVE  PaneInv'
  BY <1>0, <1>2, ContactSame, PaneQuiet
<1>3. ASSUME LoadConversations \/ Reconnect \/ Close PROVE PaneInv'
  <2>1. UNCHANGED <<contact, toggle, opens, posts, tangled>> /\ reads' \subseteq reads \cup {ListRead}
        /\ current' \in {current, NoOne}
    BY <1>3 DEF LoadConversations, Reconnect, Close
  <2> QED
    BY <1>1, <1>2, <2>1
<1>4. ASSUME Poll PROVE PaneInv'
  <2> DEFINE t == ThreadRead(current, FALSE, Epochs)
  <2>1. t.kind = "thread" /\ ~t.data.served
    BY DEF ThreadRead, Unserved
  <2>2. reads' = reads \cup {t} /\ UNCHANGED <<contact, toggle, opens, current, posts>>
        /\ tangled' = (tangled \/ OfKind("thread") # {})
    BY <1>4 DEF Poll, Refresh
  <2> HIDE DEF t
  <2> QED
    BY <2>1, <2>2, PaneFetch
<1>5. ASSUME Activity PROVE PaneInv'
  <2>1. UNCHANGED <<contact, toggle, opens, current, posts>>
    BY <1>5 DEF Activity
  <2>2. CASE Head(queue) = current /\ Refreshes
    <3> DEFINE t == ThreadRead(current, FALSE, Epochs)
    <3>1. t.kind = "thread" /\ ~t.data.served
      BY DEF ThreadRead, Unserved
    <3>2. reads' = reads \cup {ListRead} \cup {t} /\ tangled' = (tangled \/ OfKind("thread") # {})
      BY <1>5, <2>2 DEF Activity, Refresh
    <3> HIDE DEF t
    <3> QED
      BY <1>1, <2>1, <3>1, <3>2, PaneFetch
  <2>3. CASE ~(Head(queue) = current /\ Refreshes)
    <3>1. reads' = reads \cup {ListRead} /\ tangled' = tangled
      BY <1>5, <2>3 DEF Activity
    <3> QED
      BY <1>1, <1>2, <2>1, <3>1
  <2> QED
    BY <2>2, <2>3
\* An act other than pressing a button posts nothing that moves one.
<1>6. ASSUME Acts, UNCHANGED <<contact, toggle>>, NEW field \in (Fields \cup {"message"}) \ Toggles, NEW p \in Phones,
             NEW want \in BOOLEAN, Post(field, p, want)
      PROVE  PaneInv'
  <2>1. PICK q : posts' = posts \cup {q} /\ q.field = field
    BY <1>0, <1>6, PostMade
  <2>2. UNCHANGED <<opens, tangled, current, reads>>
    BY <1>6 DEF Acts
  <2> QED
    BY <1>2, <1>6, <2>1, <2>2
<1>7. ASSUME ClearPayment \/ Send PROVE PaneInv'
  BY <1>0, <1>6, <1>7 DEF ClearPayment, Send, Shape, Acts, Fields, Toggles
<1>8. ASSUME NEW p \in Phones, TogglePin(p) \/ SaveRename(p) PROVE PaneInv'
  BY <1>6, <1>8 DEF TogglePin, SaveRename, Acts, Fields, Toggles
<1>9. ASSUME NEW f \in Toggles, PressToggle(f) PROVE PaneInv'
  BY <1>9, PressTogglePane DEF PaneInv
<1>10. ASSUME NEW p \in Phones, Open(p) PROVE PaneInv'
  BY <1>10, OpenPane DEF PaneInv
<1>11. ASSUME NEW p \in Phones, TurnInserts(p) PROVE PaneInv'
  BY <1>2, <1>11 DEF TurnInserts, ServerStep
<1>12. ASSUME NEW p \in Phones, NEW f \in Elsewhere, OtherAgent(p, f) PROVE PaneInv'
  <2>1. contact' \in Contacts /\ \A o \in Phones, g \in Fields : contact'[o][g].at >= contact[o][g].at
    BY <1>0, <1>12, ContactChanged, ConsoleAssumption DEF OtherAgent
  <2>2. ContactGrows
    BY <2>1 DEF ContactGrows, Fields
  <2>3. UNCHANGED <<toggle, opens, current, reads, posts, tangled>>
    BY <1>12 DEF OtherAgent, ServerStep
  <2> QED
    BY <2>1, <2>2, <2>3, PaneQuiet
<1>13. ASSUME NEW r \in reads, Serve(r) PROVE PaneInv'
  BY <1>13, ServePane
<1>14. ASSUME NEW r \in reads, LandThread(r) PROVE PaneInv'
  BY <1>14, LandThreadPane DEF PaneInv
<1>15. ASSUME NEW r \in reads, LandList(r) \/ ReadFails(r) PROVE PaneInv'
  BY <1>2, <1>15 DEF LandList, ReadFails
<1>16. ASSUME NEW q \in posts, NEW then, Now(q, then), UNCHANGED <<contact, toggle, opens, current, reads, tangled>>,
              then.field = q.field, then.phone = q.phone, then.opening = q.opening,
              then.field \in Toggles => (HasResult(then) <=> HasResult(q)) /\ (HasResult(q) => then.result = q.result)
       PROVE  PaneInv'
  BY <1>0, <1>16, ContactSame, PanePost
<1>17. ASSUME NEW q \in posts, Refuse(q) \/ Lose(q) PROVE PaneInv'
  <2> DEFINE t == To(q, "refused")
  <2>1. t.field = q.field /\ t.phone = q.phone /\ t.opening = q.opening /\ (HasResult(t) <=> HasResult(q))
        /\ (HasResult(q) => t.result = q.result)
    BY <1>0, StageMoved DEF Shape, Stages
  <2>2. Now(q, t) /\ UNCHANGED <<contact, toggle, opens, current, reads, tangled>>
    BY <1>17 DEF Refuse, Lose, ServerStep
  <2> HIDE DEF t
  <2> QED
    BY <1>16, <2>1, <2>2
<1>18. ASSUME NEW q \in posts, Commit(q) PROVE PaneInv'
  <2>1. IsPost(q) /\ ~HasResult(q) /\ q.field \in Fields /\ q.phone \in Phones /\ q.want \in BOOLEAN
    BY <1>0, <1>18 DEF Shape, Commit, IsPost
  <2>2. contact' \in Contacts /\ \A o \in Phones, g \in Fields : contact'[o][g].at >= contact[o][g].at
    BY <1>0, <1>18, <2>1, ContactChanged DEF Commit
  <2>3. ContactGrows
    BY <2>2 DEF ContactGrows, Fields
  <2>4. contact'[q.phone][q.field] \in Stamped
    BY <2>1, <2>2 DEF Contacts
  <2>5. PICK s \in {"committed", "answered"} : Now(q, WithResult(To(q, s), contact'[q.phone][q.field]))
    BY <1>18 DEF Commit
  <2> DEFINE t == WithResult(To(q, s), contact'[q.phone][q.field])
  <2>6. t.phone = q.phone /\ t.field = q.field /\ t.opening = q.opening /\ HasResult(t) /\ t.result = contact'[q.phone][q.field]
    BY <2>1, <2>4, ResultGiven DEF Stages
  <2>7. Now(q, t)
    BY <2>5
  <2> HIDE DEF t
  <2>8. UNCHANGED <<toggle, opens, current, reads, tangled>>
    BY <1>18 DEF Commit, ServerStep
  <2> QED
    BY <2>1, <2>2, <2>3, <2>6, <2>7, <2>8, PanePost
<1>19. ASSUME NEW q \in posts, InsertMessage(q) PROVE PaneInv'
  <2>1. IsPost(q) /\ ~HasResult(q) /\ q.field = "message"
    BY <1>0, <1>19 DEF Shape, InsertMessage, IsPost
  <2>2. "message" \notin Fields /\ "message" \notin Toggles
    BY DEF Fields, Toggles
  <2> DEFINE t == WithResult(To(q, "inserted"), Len(log'))
  <2>3. t.field = q.field /\ t.phone = q.phone /\ t.opening = q.opening
    BY <2>1, <2>2, ResultGiven DEF Stages
  <2>4. Now(q, t) /\ UNCHANGED <<contact, toggle, opens, current, reads, tangled>>
    BY <1>19 DEF InsertMessage, ServerStep
  <2> HIDE DEF t
  <2> QED
    BY <1>16, <2>1, <2>2, <2>3, <2>4
<1>20. ASSUME NEW q \in posts, NEW s \in {"committed", "answered"}, HasResult(q), Now(q, To(q, s)),
              UNCHANGED <<contact, toggle, opens, current, reads, tangled>>
       PROVE  PaneInv'
  <2> DEFINE t == To(q, s)
  <2>1. t.field = q.field /\ t.phone = q.phone /\ t.opening = q.opening /\ (HasResult(t) <=> HasResult(q))
        /\ (HasResult(q) => t.result = q.result)
    BY <1>0, <1>20, StageMoved DEF Shape, Stages
  <2>2. Now(q, t)
    BY <1>20
  <2> HIDE DEF t
  <2> QED
    BY <1>16, <1>20, <2>1, <2>2
<1>21. ASSUME NEW q \in posts, CommitMessage(q) \/ Respond(q) PROVE PaneInv'
  <2>1. HasResult(q)
    BY <1>0, <1>21 DEF Shape, IsPost, CommitMessage, Respond
  <2> QED
    BY <1>20, <1>21, <2>1 DEF CommitMessage, Respond, ServerStep
<1>22. ASSUME NEW q \in posts, Answered(q) \/ Rejected(q) PROVE PaneInv'
  BY <1>22, AnswerPane DEF PaneInv
<1>23. ASSUME NEW i \in 1..Len(log), TurnPublishes(i) \/ TurnEnds(i) PROVE PaneInv'
  BY <1>2, <1>23 DEF TurnPublishes, TurnEnds, ServerStep
<1>24. ASSUME UNCHANGED consoleVars PROVE PaneInv'
  BY <1>2, <1>24 DEF consoleVars
<1> QED
  BY <1>3, <1>4, <1>5, <1>7, <1>8, <1>9, <1>10, <1>11, <1>12, <1>13, <1>14, <1>15,
     <1>17, <1>18, <1>19, <1>21, <1>22, <1>23, <1>24 DEF Next

\* The steps that move a button of a thread that stays open.
LEMMA NeverBack == ConsoleInv /\ [Next]_consoleVars =>
    [(opens' = opens /\ ~tangled') => \A f \in Toggles : toggle'[f].shown.at >= toggle[f].shown.at]_consoleVars
<1> SUFFICES ASSUME ConsoleInv, Next, opens' = opens, ~tangled', NEW f \in Toggles
             PROVE  toggle'[f].shown.at >= toggle[f].shown.at
  OBVIOUS
<1> USE DEF serverVars, boundVars, historyVars, paneVars
<1>0. Shape /\ toggle[f].shown.at \in Nat
  BY Numbers DEF ConsoleInv
<1>1. ASSUME NEW r \in reads, LandThread(r) PROVE toggle'[f].shown.at >= toggle[f].shown.at
  BY <1>1, LandThreadPane
<1>2. ASSUME NEW g \in Toggles, PressToggle(g) PROVE toggle'[f].shown.at >= toggle[f].shown.at
  BY <1>0, <1>2, PressTogglePane
<1>3. ASSUME NEW q \in posts, Answered(q) \/ Rejected(q) PROVE toggle'[f].shown.at >= toggle[f].shown.at
  BY <1>3, AnswerPane
<1>4. ASSUME toggle' = toggle PROVE toggle'[f].shown.at >= toggle[f].shown.at
  BY <1>0, <1>4
<1>5. ASSUME NEW p \in Phones, Open(p) PROVE FALSE
  BY <1>0, <1>5 DEF Open, Shape
<1>6. ASSUME Poll \/ LoadConversations \/ Activity \/ Reconnect \/ Close \/ ClearPayment \/ Send PROVE toggle' = toggle
  BY <1>6 DEF Poll, LoadConversations, Activity, Reconnect, Close, ClearPayment, Send
<1>7. ASSUME NEW p \in Phones, TogglePin(p) \/ SaveRename(p) \/ TurnInserts(p) \/ \E g \in Elsewhere : OtherAgent(p, g)
      PROVE  toggle' = toggle
  BY <1>7 DEF TogglePin, SaveRename, TurnInserts, OtherAgent, ServerStep
<1>8. ASSUME NEW r \in reads, Serve(r) \/ LandList(r) \/ ReadFails(r) PROVE toggle' = toggle
  BY <1>8 DEF Serve, LandList, ReadFails
<1>9. ASSUME NEW q \in posts,
             Refuse(q) \/ Commit(q) \/ InsertMessage(q) \/ CommitMessage(q) \/ Respond(q) \/ Lose(q)
      PROVE  toggle' = toggle
  BY <1>9 DEF Refuse, Commit, InsertMessage, CommitMessage, Respond, Lose, ServerStep
<1>10. ASSUME NEW i \in 1..Len(log), TurnPublishes(i) \/ TurnEnds(i) PROVE toggle' = toggle
  BY <1>10 DEF TurnPublishes, TurnEnds, ServerStep
<1> QED
  BY <1>1, <1>2, <1>3, <1>4, <1>5, <1>6, <1>7, <1>8, <1>9, <1>10 DEF Next

\* While a thread stays open its two buttons never go back to a state of the
\* server's older than one they have shown, in whatever order clicks, answers,
\* fetches and other agents' changes come, unless fetches of the thread overlapped
\* or a click was answered after its thread was left.
THEOREM ButtonsNeverFlipBack == Spec => NoFlipBack
<1>1. Init => ConsoleInv
  BY ShapeInit, InitAhead, InitNumbered, InitPane DEF ConsoleInv
<1>2. ConsoleInv /\ [Next]_consoleVars => ConsoleInv'
  <2> SUFFICES ASSUME ConsoleInv, [Next]_consoleVars PROVE ConsoleInv'
    OBVIOUS
  <2>1. Shape /\ NothingAhead /\ Numbered
    BY DEF ConsoleInv
  <2>2. Shape' /\ NothingAhead' /\ Numbered' /\ PaneInv'
    BY <2>1, NextShape, NextAhead, NextNumbered, NextPane
  <2> QED
    BY <2>2 DEF ConsoleInv
<1> QED
  BY <1>1, <1>2, NeverBack, PTL DEF Spec, NoFlipBack

-----------------------------------------------------------------------------
\* A set of numbers that is not empty has a least one.
LEMMA LeastNumber ==
  ASSUME NEW T \in SUBSET Nat, T # {}
  PROVE  \E x \in T : \A y \in T : x <= y
<1> DEFINE R == OpToRel(<, Nat)
<1>1. \E x \in T : \A y \in T : ~ (<<y, x>> \in R)
  <2> HIDE DEF R
  <2>1. IsWellFoundedOn(R, Nat)
    BY NatLessThanWellFounded DEF R
  <2> QED
    BY <2>1, WFMin
<1>2. \A x, y \in Nat : <<y, x>> \in R <=> y < x
  BY DEF OpToRel
<1>3. PICK x \in T : \A y \in T : ~ (<<y, x>> \in R)
  BY <1>1
<1> HIDE DEF R
<1>4. ASSUME NEW y \in T PROVE x <= y
  <2>1. x \in Nat /\ y \in Nat /\ ~ (y < x)
    BY <1>2, <1>3
  <2> QED
    BY <2>1
<1> QED
  BY <1>4

\* A set of numbers no greater than some number has a greatest one.
LEMMA GreatestNumber ==
  ASSUME NEW n \in Nat, NEW S \in SUBSET (0..n), S # {}
  PROVE  Max(S) \in S /\ \A x \in S : x <= Max(S)
<1> DEFINE B == {u \in Nat : \A x \in S : x <= u}
<1>1. n \in B
  OBVIOUS
<1>2. PICK u \in B : \A v \in B : u <= v
  <2>1. B \in SUBSET Nat /\ B # {}
    BY <1>1
  <2> HIDE DEF B
  <2> QED
    BY <2>1, LeastNumber
<1>3. u \in S
  <2> SUFFICES ASSUME u \notin S PROVE FALSE
    OBVIOUS
  <2>1. PICK x \in S : TRUE
    OBVIOUS
  <2>2. x \in Nat /\ x <= u /\ x # u /\ u \in Nat
    BY <1>2
  <2>3. u - 1 \in Nat
    BY <2>2
  <2>4. \A y \in S : y <= u - 1
    BY <1>2
  <2>5. u - 1 \in B
    BY <2>3, <2>4
  <2> QED
    BY <1>2, <2>2, <2>5
<1>4. \A y \in S : u >= y
  BY <1>2
<1>5. Max(S) \in S /\ \A y \in S : Max(S) >= y
  BY <1>3, <1>4 DEF Max
<1> QED
  BY <1>5

LEMMA SmallFinite ==
  ASSUME NEW n \in Nat, NEW T \in SUBSET (0..n)
  PROVE  IsFiniteSet(T) /\ Cardinality(T) \in Nat
<1>1. IsFiniteSet(0..n)
  BY FS_Interval
<1>2. IsFiniteSet(T)
  BY <1>1, FS_Subset
<1> QED
  BY <1>2, FS_CardinalityType

Sorted(s, ids) ==
    /\ s \in [1..Cardinality(ids) -> ids]
    /\ \A i, j \in 1..Cardinality(ids) : i < j => s[i] < s[j]

\* The messages of an answer can be put in order.
LEMMA OrderExists ==
  ASSUME NEW n \in Nat, NEW ids \in SUBSET (0..n)
  PROVE  \E s : Sorted(s, ids)
<1> DEFINE Bad == {c \in Nat : \E T \in SUBSET (0..n) : Cardinality(T) = c /\ \A s : ~Sorted(s, T)}
<1>1. \A T \in SUBSET (0..n) : IsFiniteSet(T) /\ Cardinality(T) \in Nat
  BY SmallFinite
<1>2. ASSUME Bad # {} PROVE FALSE
  <2>1. PICK c \in Bad : \A d \in Bad : c <= d
    <3>1. Bad \in SUBSET Nat
      OBVIOUS
    <3> HIDE DEF Bad
    <3> QED
      BY <1>2, <3>1, LeastNumber
  <2>2. PICK T \in SUBSET (0..n) : Cardinality(T) = c /\ \A s : ~Sorted(s, T)
    BY <2>1
  <2>3. T # {}
    <3> SUFFICES ASSUME T = {} PROVE FALSE
      OBVIOUS
    <3>1. c = 0
      BY <2>2, FS_EmptySet
    <3>2. [i \in 1..0 |-> 0] \in [1..0 -> T]
      OBVIOUS
    <3>3. Sorted([i \in 1..0 |-> 0], T)
      BY <2>2, <3>1, <3>2 DEF Sorted
    <3> QED
      BY <2>2, <3>3
  <2> DEFINE m == Max(T)
             R == T \ {m}
  <2>4. m \in T /\ \A x \in T : x <= m
    BY <2>3, GreatestNumber
  <2>5. Cardinality(R) = c - 1 /\ R \in SUBSET (0..n) /\ Cardinality(R) \in Nat /\ c \in Nat
    BY <1>1, <2>2, <2>4, FS_RemoveElement
  <2>6. \A x \in R : x < m /\ x \in T
    <3> SUFFICES ASSUME NEW x \in R PROVE x < m /\ x \in T
      OBVIOUS
    <3>1. x \in T /\ x # m /\ x <= m
      BY <2>4
    <3>2. x \in Int /\ m \in Int
      <4>1. \A y \in T : y \in Int
        BY <2>2
      <4> HIDE DEF m, R
      <4> QED
        BY <2>4, <3>1, <4>1
    <3> HIDE DEF m, R
    <3> QED
      BY <3>1, <3>2
  <2> HIDE DEF m, R
  <2>7. c - 1 \notin Bad
    <3> HIDE DEF Bad
    <3> QED
      BY <2>1, <2>5
  <2>8. PICK s : Sorted(s, R)
    BY <2>5, <2>7
  <2> DEFINE t == [i \in 1..c |-> IF i = c THEN m ELSE s[i]]
  <2>9. s \in [1..(c - 1) -> R] /\ \A i, j \in 1..(c - 1) : i < j => s[i] < s[j]
    BY <2>5, <2>8 DEF Sorted
  <2>10. \A i \in 1..c : i # c => i \in 1..(c - 1) /\ s[i] \in R
    BY <2>5, <2>9
  <2>11. t \in [1..c -> T]
    BY <2>4, <2>6, <2>10
  <2>12. ASSUME NEW i \in 1..c, NEW j \in 1..c, i < j PROVE t[i] < t[j]
    <3>1. i # c /\ i \in 1..(c - 1) /\ t[i] = s[i] /\ s[i] \in R
      BY <2>5, <2>10, <2>12
    <3>2. CASE j = c
      BY <2>6, <3>1, <3>2
    <3>3. CASE j # c
      BY <2>9, <2>10, <2>12, <3>1, <3>3
    <3> QED
      BY <3>2, <3>3
  <2> HIDE DEF t
  <2>13. Sorted(t, T)
    BY <2>2, <2>11, <2>12 DEF Sorted
  <2> QED
    BY <2>2, <2>13
<1> QED
  BY <1>1, <1>2

LEMMA InOrderSorts ==
  ASSUME NEW n \in Nat, NEW ids \in SUBSET (1..n)
  PROVE  /\ InOrder(ids) \in Seq(ids)
         /\ \A i, j \in 1..Len(InOrder(ids)) : i < j => InOrder(ids)[i] < InOrder(ids)[j]
         /\ \A k \in ids : \E i \in 1..Len(InOrder(ids)) : InOrder(ids)[i] = k
<1> DEFINE c == Cardinality(ids)
           s == InOrder(ids)
<1>0. ids \in SUBSET (0..n) /\ \A k \in ids : k \in Nat
  OBVIOUS
<1>1. IsFiniteSet(ids) /\ c \in Nat
  BY <1>0, SmallFinite
<1>2. s \in [1..c -> ids] /\ \A i, j \in 1..c : i < j => s[i] < s[j]
  <2>1. PICK t : Sorted(t, ids)
    BY OrderExists
  <2> QED
    BY <2>1 DEF InOrder, Sorted
<1> HIDE DEF s
<1>3. s \in Seq(ids) /\ Len(s) = c
  BY <1>1, <1>2
<1>4. s \in Injection(1..c, ids)
  <2>1. \A i, j \in 1..c : s[i] = s[j] => i = j
    <3> SUFFICES ASSUME NEW i \in 1..c, NEW j \in 1..c, s[i] = s[j] PROVE i = j
      OBVIOUS
    <3>1. s[i] \in ids /\ s[j] \in ids
      BY <1>2
    <3>2. s[i] \in Nat /\ s[j] \in Nat
      BY <1>0, <3>1
    <3>3. i \in Nat /\ j \in Nat
      BY <1>1
    <3> HIDE DEF c
    <3> QED
      BY <1>2, <3>2, <3>3
  <2> QED
    BY <1>2, <2>1 DEF Injection, IsInjective
<1>5. Cardinality(1..c) = c
  <2>1. Cardinality(1..c) = IF 1 > c THEN 0 ELSE c - 1 + 1
    BY <1>1, FS_Interval
  <2> QED
    BY <1>1, <2>1
<1>6. s \in Surjection(1..c, ids)
  BY <1>1, <1>4, <1>5, FS_Injection
<1>7. \A k \in ids : \E i \in 1..c : s[i] = k
  BY <1>6 DEF Surjection
<1> QED
  BY <1>2, <1>3, <1>7 DEF s

(***************************************************************************)
(* A thread as the tab holds it: e is its entry, p the contact, lg the     *)
(* message rows and late those that an id ahead of them got past.          *)
(***************************************************************************)
Entries == [messages : Seq(Int), seen : SUBSET Nat, lastId : Nat]

\* Message k is of the customer p, and its turn has not been given up.
Wrote(p, k, lg) == k \in 1..Len(lg) /\ lg[k].phone = p /\ lg[k].by = "turn" /\ lg[k].stage # "gone"
\* At place i of the thread stands something a customer wrote.
Stands(e, i, lg) == i \in 1..Len(e.messages) /\ e.messages[i] > 0 /\ lg[e.messages[i]].by = "turn"
Standing(e, k, lg) == \E i \in 1..Len(e.messages) : Stands(e, i, lg) /\ e.messages[i] = k

\* The thread has ids of the rows, each customer's message in it counts as seen,
\* and none seen is after the last.
Held(e, lg) ==
    /\ e \in Entries
    /\ e.lastId <= Len(lg)
    /\ \A i \in 1..Len(e.messages) : e.messages[i] > 0 => e.messages[i] <= Len(lg)
    /\ \A i \in 1..Len(e.messages) : Stands(e, i, lg) => e.messages[i] \in e.seen
    /\ \A k \in e.seen : 1 <= k /\ k <= e.lastId
\* Customers' messages are in order but for the late ones.
Ordered(e, lg, late) ==
    \A i, j \in 1..Len(e.messages) : Stands(e, i, lg) /\ Stands(e, j, lg) /\ i < j =>
        \/ e.messages[i] < e.messages[j]
        \/ e.messages[j] < e.messages[i] /\ e.messages[j] \in late
\* What is seen is there, and what is up to the last is there or late.
Complete(e, p, lg, late) ==
    \A k \in Nat : Wrote(p, k, lg) =>
        /\ k \in e.seen => Standing(e, k, lg)
        /\ k <= e.lastId => k \in late \/ Standing(e, k, lg)
EntryInv(e, p, lg, late) == Held(e, lg) /\ Ordered(e, lg, late) /\ Complete(e, p, lg, late)

\* An answer of the endpoint has what was committed after the id asked for, and
\* passes over nothing but what is late.
Answer(r, lg, late) ==
    /\ {"kind", "phone", "full", "after", "epochs", "data"} \subseteq DOMAIN r
    /\ r.full \in BOOLEAN /\ r.after \in Nat
    /\ r.full => r.after = 0
    /\ r.data.served =>
        /\ r.data.ids \in SUBSET (1..Len(lg))
        /\ \A k \in r.data.ids : k > r.after /\ lg[k].phone = r.phone /\ lg[k].stage = "committed"
        /\ \A k \in Nat, j \in r.data.ids : Wrote(r.phone, k, lg) /\ r.after < k /\ k < j => k \in r.data.ids \/ k \in late

\* A message of the agent's has a number, and a row once it has been sent.
Posted(q, lg) ==
    /\ q.n \in Nat
    /\ q.field = "message" /\ HasResult(q) => q.result \in 1..Len(lg) /\ lg[q.result].by = "agent"

(***************************************************************************)
(* Rows are added, and none changes but in its stage.                      *)
(***************************************************************************)
Grows(lg, then) ==
    /\ lg \in Seq(Messages) /\ then \in Seq(Messages)
    /\ Len(lg) <= Len(then)
    /\ \A k \in 1..Len(lg) :
        /\ then[k].phone = lg[k].phone /\ then[k].by = lg[k].by
        /\ lg[k].stage = "committed" => then[k].stage = "committed"
        /\ lg[k].by = "turn" /\ lg[k].stage = "gone" => then[k].stage = "gone"

LEMMA GrowsSame == ASSUME NEW lg \in Seq(Messages) PROVE Grows(lg, lg)
  BY DEF Grows

LEMMA WroteBefore ==
  ASSUME NEW lg, NEW then, Grows(lg, then), NEW p, NEW k \in 1..Len(lg), Wrote(p, k, then)
  PROVE  Wrote(p, k, lg)
  BY DEF Grows, Wrote

LEMMA HeldKept ==
  ASSUME NEW lg, NEW then, Grows(lg, then), NEW e, Held(e, lg)
  PROVE  /\ Held(e, then)
         /\ \A i : Stands(e, i, then) <=> Stands(e, i, lg)
         /\ \A k : Standing(e, k, then) <=> Standing(e, k, lg)
<1>1. Len(lg) \in Nat /\ Len(then) \in Nat /\ Len(lg) <= Len(then)
  BY LenProperties DEF Grows
<1>2. e.messages \in Seq(Int) /\ e.lastId \in Nat
  BY DEF Held, Entries
<1>3. \A i : Stands(e, i, then) <=> Stands(e, i, lg)
  <2> SUFFICES ASSUME NEW i \in 1..Len(e.messages), e.messages[i] > 0
               PROVE  then[e.messages[i]].by = lg[e.messages[i]].by
    BY DEF Stands
  <2>1. e.messages[i] \in Int /\ e.messages[i] <= Len(lg)
    BY <1>2, ElementOfSeq DEF Held
  <2>2. e.messages[i] \in 1..Len(lg)
    BY <1>1, <2>1
  <2> QED
    BY <2>2 DEF Grows
<1>4. \A k : Standing(e, k, then) <=> Standing(e, k, lg)
  BY <1>3 DEF Standing
<1>5. \A i \in 1..Len(e.messages) : e.messages[i] > 0 => e.messages[i] <= Len(then)
  <2> SUFFICES ASSUME NEW i \in 1..Len(e.messages), e.messages[i] > 0 PROVE e.messages[i] <= Len(then)
    OBVIOUS
  <2>1. e.messages[i] \in Int /\ e.messages[i] <= Len(lg)
    BY <1>2, ElementOfSeq DEF Held
  <2> QED
    BY <1>1, <2>1
<1>6. e.lastId <= Len(then)
  BY <1>1, <1>2 DEF Held
<1> QED
  BY <1>3, <1>4, <1>5, <1>6 DEF Held

LEMMA EntryKept ==
  ASSUME NEW lg, NEW then, Grows(lg, then), NEW late, NEW later, late \subseteq later,
         NEW e, NEW p, EntryInv(e, p, lg, late)
  PROVE  EntryInv(e, p, then, later)
<1>1. Held(e, then) /\ (\A i : Stands(e, i, then) <=> Stands(e, i, lg))
      /\ (\A k : Standing(e, k, then) <=> Standing(e, k, lg))
  BY HeldKept DEF EntryInv
<1>2. Ordered(e, then, later)
  BY <1>1 DEF EntryInv, Ordered
<1>3. Complete(e, p, then, later)
  <2> SUFFICES ASSUME NEW k \in Nat, Wrote(p, k, then), k \in e.seen \/ k <= e.lastId
               PROVE  Wrote(p, k, lg)
    BY <1>1 DEF EntryInv, Complete
  <2>1. Len(lg) \in Nat
    BY LenProperties DEF Grows
  <2>2. k <= Len(lg) /\ 1 <= k
    <3>1. e.lastId \in Nat /\ e.lastId <= Len(lg) /\ k <= e.lastId
      BY DEF EntryInv, Held, Entries
    <3>2. 1 <= k
      BY DEF Wrote
    <3> QED
      BY <2>1, <3>1, <3>2
  <2> QED
    BY <2>1, <2>2, WroteBefore
<1> QED
  BY <1>1, <1>2, <1>3 DEF EntryInv

LEMMA AnswerKept ==
  ASSUME NEW lg, NEW then, Grows(lg, then), NEW late, NEW later, late \subseteq later,
         NEW r, Answer(r, lg, late)
  PROVE  Answer(r, then, later)
<1> SUFFICES ASSUME r.data.served
             PROVE  /\ r.data.ids \in SUBSET (1..Len(then))
                    /\ \A k \in r.data.ids : k > r.after /\ then[k].phone = r.phone /\ then[k].stage = "committed"
                    /\ \A k \in Nat, j \in r.data.ids :
                          Wrote(r.phone, k, then) /\ r.after < k /\ k < j => k \in r.data.ids \/ k \in later
  BY DEF Answer
<1>1. Len(lg) \in Nat /\ Len(then) \in Nat /\ Len(lg) <= Len(then)
  BY LenProperties DEF Grows
<1>2. r.data.ids \in SUBSET (1..Len(lg)) /\ r.after \in Nat
  BY DEF Answer
<1>3. r.data.ids \in SUBSET (1..Len(then))
  BY <1>1, <1>2
<1>4. \A k \in r.data.ids : k > r.after /\ then[k].phone = r.phone /\ then[k].stage = "committed"
  BY <1>2 DEF Answer, Grows
<1>5. ASSUME NEW k \in Nat, NEW j \in r.data.ids, Wrote(r.phone, k, then), r.after < k, k < j
      PROVE  k \in r.data.ids \/ k \in later
  <2>1. j \in Nat /\ j <= Len(lg) /\ 1 <= k
    BY <1>2, <1>5 DEF Wrote
  <2>2. k \in 1..Len(lg)
    BY <1>1, <1>5, <2>1
  <2>3. Wrote(r.phone, k, lg)
    BY <1>5, <2>2, WroteBefore
  <2> QED
    BY <1>5, <2>3 DEF Answer
<1> QED
  BY <1>3, <1>4, <1>5

LEMMA PostedKept ==
  ASSUME NEW lg, NEW then, Grows(lg, then), NEW q, Posted(q, lg)
  PROVE  Posted(q, then)
<1>1. Len(lg) \in Nat /\ Len(then) \in Nat /\ Len(lg) <= Len(then)
  BY LenProperties DEF Grows
<1>2. \A k \in 1..Len(lg) : k \in 1..Len(then)
  BY <1>1
<1> QED
  BY <1>2 DEF Posted, Grows

(***************************************************************************)
(* What an answer makes of a thread.                                       *)
(***************************************************************************)
Added(old, new) ==
    [messages |-> old.messages \o InOrder(new), seen |-> old.seen \cup new, lastId |-> Max({old.lastId} \cup new)]

\* The places after an answer: those of before, and one for each new message, in order.
LEMMA AddedPlaces ==
  ASSUME NEW lg \in Seq(Messages), NEW old, Held(old, lg), NEW new \in SUBSET (1..Len(lg))
  PROVE  LET e == Added(old, new)
             n == Len(old.messages)
             s == InOrder(new)
         IN  /\ e.messages \in Seq(Int) /\ n \in Nat /\ Len(s) \in Nat
             /\ Len(e.messages) = n + Len(s)
             /\ \A i \in 1..n : i \in 1..Len(e.messages) /\ e.messages[i] = old.messages[i]
             /\ \A i \in 1..Len(s) : n + i \in 1..Len(e.messages) /\ e.messages[n + i] = s[i]
             /\ \A i \in 1..Len(e.messages) : i \in 1..n \/ (i - n \in 1..Len(s) /\ e.messages[i] = s[i - n] /\ e.messages[i] \in new)
<1> DEFINE e == Added(old, new)
           n == Len(old.messages)
           s == InOrder(new)
<1>1. Len(lg) \in Nat
  BY LenProperties
<1>2. s \in Seq(new)
  BY <1>1, InOrderSorts
<1>3. s \in Seq(Int) /\ Len(s) \in Nat
  <2>1. new \subseteq Int
    BY <1>1
  <2> HIDE DEF s
  <2> QED
    BY <1>2, <2>1, SeqMonotonic, LenProperties
<1>4. old.messages \in Seq(Int) /\ n \in Nat
  BY LenProperties DEF Held, Entries
<1>5. e.messages = old.messages \o s
  BY DEF Added
<1> HIDE DEF e, s
<1>6. /\ e.messages \in Seq(Int)
      /\ Len(e.messages) = n + Len(s)
      /\ \A i \in 1..(n + Len(s)) : e.messages[i] = IF i <= n THEN old.messages[i] ELSE s[i - n]
  BY <1>3, <1>4, <1>5, ConcatProperties
<1> HIDE DEF n
<1>7. \A i \in 1..n : i \in 1..Len(e.messages) /\ e.messages[i] = old.messages[i]
  <2> SUFFICES ASSUME NEW i \in 1..n PROVE i \in 1..Len(e.messages) /\ e.messages[i] = old.messages[i]
    OBVIOUS
  <2>1. i \in 1..(n + Len(s)) /\ i <= n
    BY <1>3, <1>4
  <2>2. e.messages[i] = old.messages[i]
    BY <1>6, <2>1
  <2> QED
    BY <1>6, <2>1, <2>2
<1>8. \A i \in 1..Len(s) : n + i \in 1..Len(e.messages) /\ e.messages[n + i] = s[i]
  <2> SUFFICES ASSUME NEW i \in 1..Len(s) PROVE n + i \in 1..Len(e.messages) /\ e.messages[n + i] = s[i]
    OBVIOUS
  <2>1. PICK j \in 1..(n + Len(s)) : j = n + i /\ ~(j <= n) /\ j - n = i
    BY <1>3, <1>4
  <2>2. e.messages[j] = s[j - n]
    BY <1>6, <2>1
  <2> QED
    BY <1>6, <2>1, <2>2
<1>9. \A i \in 1..Len(e.messages) : i \in 1..n \/ (i - n \in 1..Len(s) /\ e.messages[i] = s[i - n] /\ e.messages[i] \in new)
  <2> SUFFICES ASSUME NEW i \in 1..Len(e.messages), i \notin 1..n
               PROVE  i - n \in 1..Len(s) /\ e.messages[i] = s[i - n] /\ e.messages[i] \in new
    OBVIOUS
  <2>1. i - n \in 1..Len(s) /\ ~(i <= n)
    BY <1>3, <1>4, <1>6
  <2>2. e.messages[i] = s[i - n]
    BY <1>6, <2>1
  <2> QED
    BY <1>2, <2>1, <2>2, ElementOfSeq
<1> QED
  BY <1>3, <1>4, <1>6, <1>7, <1>8, <1>9 DEF e, n, s

LEMMA AddedLast ==
  ASSUME NEW lg \in Seq(Messages), NEW old, Held(old, lg), NEW new \in SUBSET (1..Len(lg))
  PROVE  LET m == Added(old, new).lastId
         IN  /\ m \in 0..Len(lg) /\ (m = old.lastId \/ m \in new)
             /\ old.lastId <= m /\ \A k \in new : k <= m
<1> DEFINE m == Max({old.lastId} \cup new)
<1>1. Len(lg) \in Nat /\ old.lastId \in Nat /\ old.lastId <= Len(lg)
  BY LenProperties DEF Held, Entries
<1>2. ({old.lastId} \cup new) \in SUBSET (0..Len(lg)) /\ {old.lastId} \cup new # {}
  <2>1. old.lastId \in 0..Len(lg) /\ \A k \in new : k \in 0..Len(lg)
    BY <1>1
  <2> QED
    BY <2>1
<1>3. m \in {old.lastId} \cup new /\ \A x \in {old.lastId} \cup new : x <= m
  BY <1>1, <1>2, GreatestNumber
<1> HIDE DEF m
<1>4. m \in 0..Len(lg)
  BY <1>2, <1>3
<1>5. Added(old, new).lastId = m
  BY DEF Added, m
<1> QED
  BY <1>3, <1>4, <1>5

LEMMA AddedHeld ==
  ASSUME NEW lg \in Seq(Messages), NEW old, Held(old, lg), NEW new \in SUBSET (1..Len(lg))
  PROVE  /\ Held(Added(old, new), lg)
         /\ \A k : Standing(old, k, lg) => Standing(Added(old, new), k, lg)
         /\ \A k \in new : lg[k].by = "turn" => Standing(Added(old, new), k, lg)
<1> DEFINE e == Added(old, new)
           n == Len(old.messages)
           s == InOrder(new)
<1>0. Len(lg) \in Nat /\ old.messages \in Seq(Int) /\ old.seen \in SUBSET Nat /\ old.lastId \in Nat
  BY LenProperties DEF Held, Entries
<1>1. /\ e.messages \in Seq(Int) /\ n \in Nat /\ Len(s) \in Nat
      /\ Len(e.messages) = n + Len(s)
      /\ \A i \in 1..n : i \in 1..Len(e.messages) /\ e.messages[i] = old.messages[i]
      /\ \A i \in 1..Len(s) : n + i \in 1..Len(e.messages) /\ e.messages[n + i] = s[i]
      /\ \A i \in 1..Len(e.messages) : i \in 1..n \/ (i - n \in 1..Len(s) /\ e.messages[i] = s[i - n] /\ e.messages[i] \in new)
  BY AddedPlaces
<1>2. e.lastId \in 0..Len(lg) /\ old.lastId <= e.lastId /\ \A k \in new : k <= e.lastId
  BY AddedLast
<1>3. e.seen = old.seen \cup new /\ e = [messages |-> e.messages, seen |-> e.seen, lastId |-> e.lastId]
  BY DEF Added
<1>4. \A k \in new : \E i \in 1..Len(s) : s[i] = k
  BY <1>0, InOrderSorts
<1>5. \A k \in new : k \in 1..Len(lg)
  OBVIOUS
<1> HIDE DEF e, n, s
<1>6. e \in Entries
  BY <1>0, <1>1, <1>2, <1>3, <1>5 DEF Entries
<1>7. ASSUME NEW i \in 1..Len(e.messages), e.messages[i] > 0 PROVE e.messages[i] <= Len(lg)
  <2>1. CASE i \in 1..n
    BY <1>1, <1>7, <2>1 DEF Held, n
  <2>2. CASE i \notin 1..n
    BY <1>0, <1>1, <1>5, <2>2
  <2> QED
    BY <2>1, <2>2
<1>8. \A i \in 1..Len(e.messages) : Stands(e, i, lg) => e.messages[i] \in e.seen
  <2> SUFFICES ASSUME NEW i \in 1..Len(e.messages), Stands(e, i, lg) PROVE e.messages[i] \in e.seen
    OBVIOUS
  <2>1. CASE i \in 1..n
    <3>1. Stands(old, i, lg) /\ e.messages[i] = old.messages[i]
      BY <1>1, <2>1 DEF Stands, n
    <3> QED
      BY <1>3, <2>1, <3>1 DEF Held, n
  <2>2. CASE i \notin 1..n
    BY <1>1, <1>3, <2>2
  <2> QED
    BY <2>1, <2>2
<1>9. \A k \in e.seen : 1 <= k /\ k <= e.lastId
  <2> SUFFICES ASSUME NEW k \in e.seen PROVE 1 <= k /\ k <= e.lastId
    OBVIOUS
  <2>1. CASE k \in new
    BY <1>2, <1>5, <2>1
  <2>2. CASE k \in old.seen
    <3>1. 1 <= k /\ k <= old.lastId /\ k \in Nat
      BY <1>0, <2>2 DEF Held
    <3> QED
      BY <1>0, <1>2, <3>1
  <2> QED
    BY <1>3, <2>1, <2>2
<1>10. Held(e, lg)
  BY <1>2, <1>6, <1>7, <1>8, <1>9 DEF Held
<1>11. \A k : Standing(old, k, lg) => Standing(e, k, lg)
  <2> SUFFICES ASSUME NEW i \in 1..n, Stands(old, i, lg) PROVE Stands(e, i, lg) /\ e.messages[i] = old.messages[i] /\ i \in 1..Len(e.messages)
    BY DEF Standing, n
  <2> QED
    BY <1>1 DEF Stands, n
<1>12. ASSUME NEW k \in new, lg[k].by = "turn" PROVE Standing(e, k, lg)
  <2>1. PICK i \in 1..Len(s) : s[i] = k
    BY <1>4
  <2>2. n + i \in 1..Len(e.messages) /\ e.messages[n + i] = k /\ k > 0
    BY <1>1, <1>5, <2>1, SMTT(30)
  <2> QED
    BY <1>12, <2>2 DEF Standing, Stands
<1> QED
  BY <1>10, <1>11, <1>12 DEF e

LEMMA AddedInv ==
  ASSUME NEW lg \in Seq(Messages), NEW late, NEW later, late \subseteq later, NEW p,
         NEW old, EntryInv(old, p, lg, late),
         NEW r, Answer(r, lg, late), r.data.served, r.phone = p,
         \A k \in Nat : old.lastId < k /\ k <= r.after => k \in later
  PROVE  EntryInv(Added(old, r.data.ids \ old.seen), p, lg, later)
<1> DEFINE new == r.data.ids \ old.seen
           e == Added(old, new)
           n == Len(old.messages)
           s == InOrder(new)
<1>0. /\ Len(lg) \in Nat /\ old.lastId \in Nat /\ r.after \in Nat
      /\ Held(old, lg) /\ new \in SUBSET (1..Len(lg)) /\ new \cap old.seen = {} /\ new \subseteq r.data.ids
      /\ old.messages \in Seq(Int)
  BY LenProperties DEF EntryInv, Held, Entries, Answer
<1>5. e.seen = old.seen \cup new
  BY DEF Added
<1>6. \A k \in r.data.ids : k \in old.seen \/ k \in new
  OBVIOUS
<1> HIDE DEF new
<1>1. /\ e.messages \in Seq(Int) /\ n \in Nat /\ Len(s) \in Nat
      /\ Len(e.messages) = n + Len(s)
      /\ \A i \in 1..n : i \in 1..Len(e.messages) /\ e.messages[i] = old.messages[i]
      /\ \A i \in 1..Len(e.messages) : i \in 1..n \/ (i - n \in 1..Len(s) /\ e.messages[i] = s[i - n] /\ e.messages[i] \in new)
  BY <1>0, AddedPlaces
<1>2. e.lastId \in 0..Len(lg) /\ (e.lastId = old.lastId \/ e.lastId \in new)
  BY <1>0, AddedLast
<1>3. /\ Held(e, lg)
      /\ \A k : Standing(old, k, lg) => Standing(e, k, lg)
      /\ \A k \in new : lg[k].by = "turn" => Standing(e, k, lg)
  BY <1>0, AddedHeld
<1>4. \A i, j \in 1..Len(s) : i < j => s[i] < s[j]
  BY <1>0, InOrderSorts
<1>7. \A k \in new : k > r.after /\ lg[k].phone = p /\ lg[k].stage = "committed"
  BY <1>0 DEF Answer
<1> HIDE DEF e, s
<1>8. Ordered(e, lg, later)
  <2> SUFFICES ASSUME NEW i \in 1..Len(e.messages), NEW j \in 1..Len(e.messages),
                      Stands(e, i, lg), Stands(e, j, lg), i < j
               PROVE  \/ e.messages[i] < e.messages[j]
                      \/ e.messages[j] < e.messages[i] /\ e.messages[j] \in later
    BY DEF Ordered
  <2>1. CASE i \in 1..n /\ j \in 1..n
    <3>1. Stands(old, i, lg) /\ Stands(old, j, lg) /\ e.messages[i] = old.messages[i] /\ e.messages[j] = old.messages[j]
      BY <1>1, <2>1 DEF Stands, n
    <3> QED
      BY <2>1, <3>1 DEF EntryInv, Ordered, n
  <2>2. CASE i \notin 1..n /\ j \notin 1..n
    <3>1. i - n \in 1..Len(s) /\ j - n \in 1..Len(s) /\ e.messages[i] = s[i - n] /\ e.messages[j] = s[j - n]
      BY <1>1, <2>2
    <3>2. i - n < j - n
      BY <1>1
    <3> QED
      BY <1>4, <3>1, <3>2
  <2>3. CASE i \in 1..n /\ j \notin 1..n
    <3> DEFINE a == e.messages[i]
               b == e.messages[j]
    <3>1. a = old.messages[i] /\ Stands(old, i, lg)
      BY <1>1, <2>3 DEF Stands, n
    <3>2. a \in old.seen /\ a <= old.lastId /\ a \in Nat
      BY <1>0, <2>3, <3>1 DEF Held, Entries, n
    <3>3. b \in new /\ lg[b].by = "turn"
      BY <1>1, <2>3 DEF Stands
    <3>4. b \in 1..Len(lg) /\ b \notin old.seen /\ Wrote(p, b, lg)
      BY <1>0, <1>7, <3>3 DEF Wrote
    <3>5. a # b /\ b \in Nat
      BY <1>0, <3>2, <3>4
    <3>6. ASSUME b < a PROVE b \in later
      <4>1. ~Standing(old, b, lg)
        BY <1>0, <3>4 DEF Standing, Held
      <4>2. b <= old.lastId
        BY <1>0, <3>2, <3>5, <3>6
      <4> QED
        BY <3>4, <3>5, <4>1, <4>2 DEF EntryInv, Complete
    <3> HIDE DEF a, b
    <3> QED
      BY <3>2, <3>5, <3>6 DEF a, b
  <2>4. CASE i \notin 1..n /\ j \in 1..n
    BY <1>1, <2>4
  <2> QED
    BY <2>1, <2>2, <2>3, <2>4
<1>9. ASSUME NEW k \in Nat, Wrote(p, k, lg), k \in e.seen PROVE Standing(e, k, lg)
  BY <1>3, <1>5, <1>9 DEF EntryInv, Complete, Wrote
<1>10. ASSUME NEW k \in Nat, Wrote(p, k, lg), k <= e.lastId PROVE k \in later \/ Standing(e, k, lg)
  <2>1. CASE k <= old.lastId
    BY <1>3, <1>10, <2>1 DEF EntryInv, Complete
  <2>2. CASE ~(k <= old.lastId) /\ k <= r.after
    BY <1>0, <2>2
  <2>3. CASE ~(k <= old.lastId) /\ ~(k <= r.after)
    <3>1. e.lastId \in new /\ e.lastId \in r.data.ids /\ r.after < k /\ e.lastId \in Nat
      BY <1>0, <1>2, <1>10, <2>3
    <3>2. k \in r.data.ids \/ k \in late
      <4>1. CASE k = e.lastId
        BY <3>1, <4>1
      <4>2. CASE k # e.lastId
        <5>1. k < e.lastId
          BY <1>10, <3>1, <4>2
        <5> QED
          BY <1>10, <3>1, <5>1 DEF Answer
      <4> QED
        BY <4>1, <4>2
    <3>3. ASSUME k \in r.data.ids PROVE Standing(e, k, lg)
      BY <1>5, <1>6, <1>9, <1>10, <3>3
    <3> QED
      BY <3>2, <3>3
  <2> QED
    BY <2>1, <2>2, <2>3
<1> QED
  BY <1>3, <1>8, <1>9, <1>10 DEF EntryInv, Complete, e, new

LEMMA EmptyEntry ==
  ASSUME NEW lg \in Seq(Messages), NEW late, NEW p
  PROVE  EntryInv([messages |-> <<>>, seen |-> {}, lastId |-> 0], p, lg, late)
<1> DEFINE e == [messages |-> <<>>, seen |-> {}, lastId |-> 0]
<1>1. e.messages = <<>> /\ e.seen = {} /\ e.lastId = 0 /\ e \in Entries
  BY EmptySeq DEF Entries
<1>2. Len(lg) \in Nat /\ Len(e.messages) = 0
  BY <1>1, LenProperties, EmptySeq
<1> HIDE DEF e
<1>3. Held(e, lg) /\ Ordered(e, lg, late)
  BY <1>1, <1>2 DEF Held, Ordered
<1>4. Complete(e, p, lg, late)
  <2> SUFFICES ASSUME NEW k \in Nat, Wrote(p, k, lg), k <= 0 PROVE FALSE
    BY <1>1 DEF Complete
  <2> QED
    BY DEF Wrote
<1> QED
  BY <1>3, <1>4 DEF EntryInv, e

LEMMA MergedInv ==
  ASSUME NEW lg \in Seq(Messages), NEW late, NEW p, NEW e, EntryInv(e, p, lg, late),
         NEW r, Answer(r, lg, late), r.data.served, r.phone = p
  PROVE  EntryInv(Merged(e, r), p, lg, IF r.full THEN late ELSE late \cup e.lastId + 1..r.after)
<1> DEFINE none == [messages |-> <<>>, seen |-> {}, lastId |-> 0]
           later == late \cup e.lastId + 1..r.after
<1>0. r.after \in Nat /\ e.lastId \in Nat /\ (r.full => r.after = 0) /\ r.full \in BOOLEAN
  BY DEF Answer, EntryInv, Held, Entries
<1>1. CASE r.full
  <2>1. EntryInv(none, p, lg, late) /\ none.lastId = 0
    BY EmptyEntry
  <2>2. Merged(e, r) = Added(none, r.data.ids \ none.seen)
    BY <1>1 DEF Merged, Added
  <2> HIDE DEF none
  <2>3. \A k \in Nat : none.lastId < k /\ k <= r.after => k \in late
    BY <1>0, <1>1, <2>1
  <2>4. EntryInv(Added(none, r.data.ids \ none.seen), p, lg, late)
    BY <2>1, <2>3, AddedInv
  <2> QED
    BY <1>1, <2>2, <2>4
<1>2. CASE ~r.full
  <2>1. Merged(e, r) = Added(e, r.data.ids \ e.seen)
    BY <1>2 DEF Merged, Added
  <2>2. \A k \in Nat : e.lastId < k /\ k <= r.after => k \in later
    BY <1>0
  <2>3. late \subseteq later
    OBVIOUS
  <2> HIDE DEF later
  <2>4. EntryInv(Added(e, r.data.ids \ e.seen), p, lg, later)
    BY <2>2, <2>3, AddedInv
  <2> QED
    BY <1>2, <2>1, <2>4 DEF later
<1> QED
  BY <1>0, <1>1, <1>2

\* The agent's message takes its id where it stands; it is no customer's.
LEMMA SentInv ==
  ASSUME NEW lg \in Seq(Messages), NEW late, NEW p, NEW e, EntryInv(e, p, lg, late),
         NEW q, Posted(q, lg), q.field = "message", HasResult(q)
  PROVE  EntryInv(Sent(e, q), p, lg, late \cup e.lastId + 1..q.result)
<1> DEFINE then == Sent(e, q)
           later == late \cup e.lastId + 1..q.result
           n == Len(e.messages)
           m == [i \in 1..n |-> IF e.messages[i] = -q.n THEN q.result ELSE e.messages[i]]
<1>0. /\ Len(lg) \in Nat /\ e.lastId \in Nat /\ e.lastId <= Len(lg) /\ e.seen \in SUBSET Nat
      /\ e.messages \in Seq(Int) /\ n \in Nat /\ q.n \in Nat
      /\ q.result \in 1..Len(lg) /\ lg[q.result].by = "agent"
  BY LenProperties DEF EntryInv, Held, Entries, Posted
<1>1. then.messages = m /\ then.seen = e.seen \cup {q.result} /\ then.lastId = Max({e.lastId, q.result})
      /\ then = [messages |-> then.messages, seen |-> then.seen, lastId |-> then.lastId]
  BY DEF Sent
<1>2. \A i \in 1..n : e.messages[i] \in Int
  BY <1>0, ElementOfSeq
<1>3. m \in Seq(Int) /\ Len(m) = n /\ \A i \in 1..n : m[i] = IF e.messages[i] = -q.n THEN q.result ELSE e.messages[i]
  <2>1. m \in [1..n -> Int]
    BY <1>0, <1>2
  <2> QED
    BY <1>0, <2>1
<1>4. /\ then.lastId \in Nat /\ then.lastId <= Len(lg) /\ e.lastId <= then.lastId /\ q.result <= then.lastId
      /\ then.lastId = e.lastId \/ then.lastId = q.result
  <2>1. {e.lastId, q.result} \in SUBSET (0..Len(lg)) /\ {e.lastId, q.result} # {}
    BY <1>0
  <2>2. Max({e.lastId, q.result}) \in {e.lastId, q.result} /\ \A x \in {e.lastId, q.result} : x <= Max({e.lastId, q.result})
    BY <1>0, <2>1, GreatestNumber
  <2> QED
    BY <1>0, <1>1, <2>2
<1> HIDE DEF then, m
<1>5. \A i : Stands(then, i, lg) <=> Stands(e, i, lg)
  <2> SUFFICES ASSUME NEW i \in 1..n PROVE Stands(then, i, lg) <=> Stands(e, i, lg)
    BY <1>1, <1>3 DEF Stands, n
  <2>1. CASE e.messages[i] = -q.n
    <3>1. m[i] = q.result
      BY <1>3, <2>1
    <3>2. ~(e.messages[i] > 0)
      BY <1>0, <2>1
    <3> QED
      BY <1>0, <1>1, <3>1, <3>2 DEF Stands
  <2>2. CASE e.messages[i] # -q.n
    BY <1>1, <1>3, <2>2 DEF Stands, n
  <2> QED
    BY <2>1, <2>2
<1>6. \A i : Stands(e, i, lg) => then.messages[i] = e.messages[i] /\ i \in 1..n /\ i \in 1..Len(then.messages)
  BY <1>0, <1>1, <1>3, SMTT(30) DEF Stands
<1>7. \A k : Standing(then, k, lg) <=> Standing(e, k, lg)
  BY <1>1, <1>3, <1>5, <1>6 DEF Standing
<1>8. Held(then, lg)
  <2>1. then \in Entries
    BY <1>0, <1>1, <1>3, <1>4 DEF Entries
  <2>2. ASSUME NEW i \in 1..Len(then.messages), then.messages[i] > 0 PROVE then.messages[i] <= Len(lg)
    <3>1. i \in 1..n /\ (m[i] = q.result \/ m[i] = e.messages[i])
      BY <1>1, <1>3
    <3>2. CASE m[i] = q.result
      BY <1>0, <1>1, <3>2
    <3>3. CASE m[i] = e.messages[i]
      BY <1>1, <2>2, <3>1, <3>3 DEF EntryInv, Held, n
    <3> QED
      BY <3>1, <3>2, <3>3
  <2>3. ASSUME NEW i \in 1..Len(then.messages), Stands(then, i, lg) PROVE then.messages[i] \in then.seen
    BY <1>1, <1>5, <1>6, <2>3 DEF EntryInv, Held
  <2>4. ASSUME NEW k \in then.seen PROVE 1 <= k /\ k <= then.lastId
    <3>1. CASE k \in e.seen
      <4>1. k \in Nat /\ 1 <= k /\ k <= e.lastId
        BY <1>0, <3>1 DEF EntryInv, Held
      <4> QED
        BY <1>0, <1>4, <4>1
    <3>2. CASE k = q.result
      BY <1>0, <1>4, <3>2
    <3> QED
      BY <1>1, <3>1, <3>2
  <2> QED
    BY <1>4, <2>1, <2>2, <2>3, <2>4 DEF Held
<1>9. Ordered(then, lg, later)
  BY <1>1, <1>3, <1>5, <1>6 DEF EntryInv, Ordered, n
<1>10. Complete(then, p, lg, later)
  <2> SUFFICES ASSUME NEW k \in Nat, Wrote(p, k, lg)
               PROVE  /\ k \in then.seen => Standing(then, k, lg)
                      /\ k <= then.lastId => k \in later \/ Standing(then, k, lg)
    BY DEF Complete
  <2>1. k # q.result
    BY <1>0 DEF Wrote
  <2>2. k \in then.seen => Standing(then, k, lg)
    BY <1>1, <1>7, <2>1 DEF EntryInv, Complete
  <2>3. ASSUME k <= then.lastId PROVE k \in later \/ Standing(then, k, lg)
    <3>1. CASE k <= e.lastId
      BY <1>7, <3>1 DEF EntryInv, Complete
    <3>2. CASE ~(k <= e.lastId)
      BY <1>0, <1>4, <2>3, <3>2
    <3> QED
      BY <3>1, <3>2
  <2> QED
    BY <2>2, <2>3
<1> QED
  BY <1>8, <1>9, <1>10 DEF EntryInv, then

\* A message of the agent's not yet confirmed is put at the end.
LEMMA SaidInv ==
  ASSUME NEW lg \in Seq(Messages), NEW late, NEW p, NEW e, EntryInv(e, p, lg, late), NEW n \in Nat
  PROVE  EntryInv([e EXCEPT !.messages = Append(@, -n)], p, lg, late)
<1> DEFINE then == [e EXCEPT !.messages = Append(@, -n)]
<1>0. e \in Entries /\ e.messages \in Seq(Int) /\ -n \in Int
  BY DEF EntryInv, Held, Entries
<1>1. then \in Entries /\ then.messages = Append(e.messages, -n) /\ then.seen = e.seen /\ then.lastId = e.lastId
  BY <1>0, AppendProperties DEF Entries
<1>2. /\ Len(then.messages) = Len(e.messages) + 1 /\ Len(e.messages) \in Nat
      /\ \A i \in 1..Len(e.messages) : then.messages[i] = e.messages[i]
      /\ then.messages[Len(e.messages) + 1] = -n
  BY <1>0, <1>1, AppendProperties, LenProperties
<1> HIDE DEF then
<1>3. \A i \in 1..Len(then.messages) : i \in 1..Len(e.messages) \/ ~(then.messages[i] > 0)
  BY <1>0, <1>2
<1>4. \A i \in 1..Len(e.messages) : i \in 1..Len(then.messages)
  BY <1>2
<1>5. \A i : Stands(then, i, lg) <=> Stands(e, i, lg)
  BY <1>2, <1>3, <1>4 DEF Stands
<1>6. \A k : Standing(then, k, lg) <=> Standing(e, k, lg)
  BY <1>2, <1>3, <1>4, <1>5 DEF Standing, Stands
<1>7. \A i : Stands(then, i, lg) => i \in 1..Len(e.messages) /\ then.messages[i] = e.messages[i]
  BY <1>2, <1>3 DEF Stands
<1>8. Held(then, lg)
  BY <1>1, <1>2, <1>3, <1>5, <1>7 DEF EntryInv, Held
<1>9. Ordered(then, lg, late)
  BY <1>5, <1>7 DEF EntryInv, Ordered
<1>10. Complete(then, p, lg, late)
  BY <1>1, <1>6 DEF EntryInv, Complete
<1> QED
  BY <1>8, <1>9, <1>10 DEF EntryInv, then

\* What get_messages answers passes over only what then is late.
LEMMA AnswerServed ==
  ASSUME NEW lg \in Seq(Messages), NEW late, NEW r, Answer(r, lg, late), NEW c
  PROVE  LET ids == {i \in 1..Len(lg) : lg[i].phone = r.phone /\ lg[i].stage = "committed" /\ i > r.after}
             behind == {i \in 1..Len(lg) : lg[i].phone = r.phone /\ lg[i].stage \notin {"committed", "gone"}
                                           /\ \E j \in ids : i < j}
             t == [r EXCEPT !.data = [served |-> TRUE, contact |-> c, ids |-> ids]]
         IN  Answer(t, lg, late \cup behind)
<1> DEFINE ids == {i \in 1..Len(lg) : lg[i].phone = r.phone /\ lg[i].stage = "committed" /\ i > r.after}
           behind == {i \in 1..Len(lg) : lg[i].phone = r.phone /\ lg[i].stage \notin {"committed", "gone"}
                                         /\ \E j \in ids : i < j}
           d == [served |-> TRUE, contact |-> c, ids |-> ids]
           t == [r EXCEPT !.data = d]
<1>1. d.served = TRUE /\ d.ids = ids
  OBVIOUS
<1>2. /\ ids \in SUBSET (1..Len(lg))
      /\ \A k \in ids : k > r.after /\ lg[k].phone = r.phone /\ lg[k].stage = "committed"
      /\ \A k \in Nat, j \in ids : Wrote(r.phone, k, lg) /\ r.after < k /\ k < j => k \in ids \/ k \in late \cup behind
  <2>1. ASSUME NEW k \in Nat, NEW j \in ids, Wrote(r.phone, k, lg), r.after < k, k < j
        PROVE  k \in ids \/ k \in behind
    <3>1. k \in 1..Len(lg) /\ lg[k].phone = r.phone /\ lg[k].stage # "gone"
      BY <2>1 DEF Wrote
    <3>2. k > r.after
      BY <2>1 DEF Answer
    <3> QED
      BY <2>1, <3>1, <3>2
  <2> QED
    BY <2>1
<1> HIDE DEF d, ids, behind
<1>3. /\ DOMAIN t = DOMAIN r /\ t.data = d
      /\ t.phone = r.phone /\ t.full = r.full /\ t.after = r.after
  BY DEF Answer
<1> HIDE DEF t
<1>4. Answer(t, lg, late \cup behind)
  BY <1>1, <1>2, <1>3 DEF Answer
<1> QED
  BY <1>4 DEF t, d, ids, behind

(***************************************************************************)
(* The threads, the fetches of them and the messages on their way.         *)
(***************************************************************************)
CacheInv ==
    /\ cache \in [Phones -> Entries]
    /\ \A p \in Phones : EntryInv(cache[p], p, log, overtaken)
AnswersInv == \A r \in reads : r.kind = "thread" => Answer(r, log, overtaken)
PostedInv == events \in Nat /\ \A q \in posts : Posted(q, log)

ThreadInv == CacheInv /\ AnswersInv /\ PostedInv

LEMMA RowAdded ==
  ASSUME Shape, NEW p \in Phones, NEW by \in {"agent", "turn"},
         log' = Append(log, [phone |-> p, by |-> by, stage |-> "inserted"])
  PROVE  /\ Grows(log, log')
         /\ Len(log') \in 1..Len(log') /\ log'[Len(log')].by = by
<1> DEFINE m == [phone |-> p, by |-> by, stage |-> "inserted"]
<1>1. log \in Seq(Messages) /\ Len(log) \in Nat /\ m \in Messages /\ m.by = by
  BY LenProperties DEF Shape, Messages
<1> HIDE DEF m
<1>2. log' = Append(log, m)
  BY DEF m
<1>3. /\ log' \in Seq(Messages) /\ Len(log') = Len(log) + 1
      /\ \A k \in 1..Len(log) : log'[k] = log[k]
      /\ log'[Len(log) + 1] = m
  BY <1>1, <1>2, AppendProperties
<1>4. Grows(log, log')
  BY <1>1, <1>3 DEF Grows
<1> QED
  BY <1>1, <1>3, <1>4

LEMMA RowMoved ==
  ASSUME Shape, NEW i \in 1..Len(log), NEW s \in {"published", "committed", "gone"},
         log' = [log EXCEPT ![i].stage = s],
         log[i].stage = "committed" => s = "committed",
         ~(log[i].by = "turn" /\ log[i].stage = "gone")
  PROVE  Grows(log, log')
<1>1. log \in Seq(Messages) /\ Len(log) \in Nat /\ log[i] \in Messages
  BY ElementOfSeq, LenProperties DEF Shape
<1> DEFINE m == [log[i] EXCEPT !.stage = s]
<1>2. m \in Messages /\ m.phone = log[i].phone /\ m.by = log[i].by /\ m.stage = s
  BY <1>1 DEF Messages
<1>3. log' = [log EXCEPT ![i] = m]
  OBVIOUS
<1> HIDE DEF m
<1>4. log' \in Seq(Messages) /\ Len(log') = Len(log) /\ \A k \in 1..Len(log) : log'[k] = IF k = i THEN m ELSE log[k]
  BY <1>1, <1>2, <1>3, ExceptSeq
<1> QED
  BY <1>1, <1>2, <1>4 DEF Grows

LEMMA RowsGrow ==
  ASSUME Shape, PostedInv, [Next]_consoleVars
  PROVE  Grows(log, log')
<1> USE DEF serverVars, historyVars, paneVars, boundVars
<1>0. log \in Seq(Messages) /\ Len(log) \in Nat
  BY LenProperties DEF Shape
<1>1. ASSUME log' = log PROVE Grows(log, log')
  BY <1>0, <1>1, GrowsSame
<1>2. ASSUME NEW p \in Phones, TurnInserts(p) PROVE Grows(log, log')
  BY <1>2, RowAdded DEF TurnInserts
<1>3. ASSUME NEW q \in posts, InsertMessage(q) PROVE Grows(log, log')
  <2>1. q.phone \in Phones
    BY DEF Shape, IsPost
  <2> QED
    BY <1>3, <2>1, RowAdded DEF InsertMessage
<1>4. ASSUME NEW q \in posts, CommitMessage(q) PROVE Grows(log, log')
  <2>1. q.stage = "inserted" /\ IsPost(q) /\ Posted(q, log)
    BY <1>4 DEF CommitMessage, Shape, PostedInv
  <2>2. q.result \in 1..Len(log) /\ log[q.result].by = "agent"
    BY <2>1 DEF IsPost, Posted
  <2> QED
    BY <1>4, <2>2, RowMoved DEF CommitMessage
<1>5. ASSUME NEW i \in 1..Len(log), TurnPublishes(i) PROVE Grows(log, log')
  BY <1>5, RowMoved DEF TurnPublishes
<1>6. ASSUME NEW i \in 1..Len(log), TurnEnds(i) PROVE Grows(log, log')
  BY <1>6, RowMoved DEF TurnEnds
<1>7. ASSUME Poll \/ LoadConversations \/ Activity \/ Reconnect \/ Close \/ ClearPayment \/ Send PROVE log' = log
  BY <1>7 DEF Poll, LoadConversations, Activity, Reconnect, Close, ClearPayment, Send, Acts
<1>8. ASSUME NEW p \in Phones, Open(p) \/ TogglePin(p) \/ SaveRename(p) \/ \E f \in Elsewhere : OtherAgent(p, f)
      PROVE  log' = log
  BY <1>8 DEF Open, TogglePin, SaveRename, OtherAgent, Acts
<1>9. ASSUME NEW f \in Toggles, PressToggle(f) PROVE log' = log
  BY <1>9 DEF PressToggle, Acts
<1>10. ASSUME NEW r \in reads, Serve(r) \/ LandThread(r) \/ LandList(r) \/ ReadFails(r) PROVE log' = log
  BY <1>10 DEF Serve, LandThread, LandList, ReadFails
<1>11. ASSUME NEW q \in posts, Refuse(q) \/ Commit(q) \/ Respond(q) \/ Lose(q) \/ Answered(q) \/ Rejected(q)
       PROVE  log' = log
  BY <1>11 DEF Refuse, Commit, Respond, Lose, Answered, Rejected, Handled
<1>12. CASE UNCHANGED consoleVars
  BY <1>1, <1>12 DEF consoleVars
<1> QED
  BY <1>1, <1>2, <1>3, <1>4, <1>5, <1>6, <1>7, <1>8, <1>9, <1>10, <1>11, <1>12 DEF Next

LEMMA LateGrows ==
  ASSUME [Next]_consoleVars
  PROVE  overtaken \subseteq overtaken'
<1> USE DEF serverVars, historyVars, paneVars, boundVars
<1>1. ASSUME Poll \/ LoadConversations \/ Activity \/ Reconnect \/ Close \/ ClearPayment \/ Send
      PROVE  overtaken' = overtaken
  BY <1>1 DEF Poll, LoadConversations, Activity, Reconnect, Close, ClearPayment, Send, Acts
<1>2. ASSUME NEW p \in Phones, Open(p) \/ TogglePin(p) \/ SaveRename(p) \/ TurnInserts(p) \/ \E f \in Elsewhere : OtherAgent(p, f)
      PROVE  overtaken' = overtaken
  BY <1>2 DEF Open, TogglePin, SaveRename, TurnInserts, OtherAgent, Acts, ServerStep
<1>3. ASSUME NEW f \in Toggles, PressToggle(f) PROVE overtaken' = overtaken
  BY <1>3 DEF PressToggle, Acts
<1>4. ASSUME NEW r \in reads, Serve(r) \/ LandThread(r) \/ LandList(r) \/ ReadFails(r) PROVE overtaken \subseteq overtaken'
  BY <1>4 DEF Serve, LandThread, LandList, ReadFails
<1>5. ASSUME NEW q \in posts, Answered(q) PROVE overtaken \subseteq overtaken'
  BY <1>5 DEF Answered
<1>6. ASSUME NEW q \in posts,
             Refuse(q) \/ Commit(q) \/ InsertMessage(q) \/ CommitMessage(q) \/ Respond(q) \/ Lose(q) \/ Rejected(q)
      PROVE  overtaken' = overtaken
  BY <1>6 DEF Refuse, Commit, InsertMessage, CommitMessage, Respond, Lose, Rejected, ServerStep
<1>7. ASSUME NEW i \in 1..Len(log), TurnPublishes(i) \/ TurnEnds(i) PROVE overtaken' = overtaken
  BY <1>7 DEF TurnPublishes, TurnEnds, ServerStep
<1>8. CASE UNCHANGED consoleVars
  BY <1>8 DEF consoleVars
<1> QED
  BY <1>1, <1>2, <1>3, <1>4, <1>5, <1>6, <1>7, <1>8 DEF Next

LEMMA PostedStage == ASSUME NEW q, NEW s, NEW lg, IsPost(q), Posted(q, lg) PROVE Posted(To(q, s), lg)
<1>1. To(q, s).n = q.n /\ To(q, s).field = q.field /\ (HasResult(To(q, s)) <=> HasResult(q))
      /\ (HasResult(q) => To(q, s).result = q.result)
  BY DEF To, IsPost, HasResult
<1> QED
  BY <1>1 DEF Posted

LEMMA PostedResult ==
  ASSUME NEW q, NEW s, NEW v, NEW lg, IsPost(q), Posted(q, lg),
         q.field = "message" => v \in 1..Len(lg) /\ lg[v].by = "agent"
  PROVE  Posted(WithResult(To(q, s), v), lg)
<1> DEFINE u == To(q, s)
           t == WithResult(u, v)
<1>1. {"n", "field"} \subseteq DOMAIN u /\ u.n = q.n /\ u.field = q.field
  BY DEF To, IsPost
<1> HIDE DEF u
<1>2. t.result = v /\ t.n = u.n /\ t.field = u.field
  BY <1>1 DEF WithResult
<1> HIDE DEF t
<1>3. Posted(t, lg)
  BY <1>1, <1>2 DEF Posted
<1> QED
  BY <1>3 DEF t, u

LEMMA NextPosted == Shape /\ PostedInv /\ [Next]_consoleVars => PostedInv'
<1> SUFFICES ASSUME Shape, PostedInv, [Next]_consoleVars PROVE PostedInv'
  OBVIOUS
<1> USE DEF serverVars, historyVars, paneVars, boundVars
<1>0. Grows(log, log') /\ events \in Nat /\ \A q \in posts : IsPost(q) /\ Posted(q, log) /\ Posted(q, log')
  BY RowsGrow, PostedKept DEF PostedInv, Shape
<1>1. ASSUME events' \in Nat, \A q \in posts' : q \in posts \/ Posted(q, log') PROVE PostedInv'
  BY <1>0, <1>1 DEF PostedInv
<1>2. ASSUME Event, NEW field, NEW p, NEW want, Post(field, p, want) PROVE PostedInv'
  <2> DEFINE q == [n |-> events', field |-> field, phone |-> p, want |-> want, opening |-> opens, stage |-> "sent"]
  <2>1. q.n = events' /\ ~HasResult(q)
    BY DEF HasResult
  <2>2. posts' = posts \cup {q}
    BY <1>2 DEF Post
  <2> HIDE DEF q
  <2>3. events' \in Nat
    BY <1>0, <1>2 DEF Event
  <2> QED
    BY <1>1, <2>1, <2>2, <2>3 DEF Posted
<1>3. ASSUME NEW q, NEW then, Now(q, then), Posted(then, log'), events' = events PROVE PostedInv'
  BY <1>0, <1>1, <1>3 DEF Now
<1>4. ASSUME Poll \/ LoadConversations \/ Activity \/ Reconnect PROVE PostedInv'
  BY <1>0, <1>1, <1>4 DEF Poll, LoadConversations, Activity, Reconnect
<1>5. ASSUME Close PROVE PostedInv'
  BY <1>0, <1>1, <1>5 DEF Close, Event
<1>6. ASSUME ClearPayment \/ Send PROVE PostedInv'
  BY <1>2, <1>6 DEF ClearPayment, Send, Acts
<1>7. ASSUME NEW f \in Toggles, PressToggle(f) PROVE PostedInv'
  BY <1>2, <1>7 DEF PressToggle, Acts
<1>8. ASSUME NEW p \in Phones, TogglePin(p) \/ SaveRename(p) PROVE PostedInv'
  BY <1>2, <1>8 DEF TogglePin, SaveRename, Acts
<1>9. ASSUME NEW p \in Phones, Open(p) \/ TurnInserts(p) \/ \E f \in Elsewhere : OtherAgent(p, f) PROVE PostedInv'
  <2>1. Event /\ posts' = posts
    BY <1>9 DEF Open, TurnInserts, OtherAgent, ServerStep
  <2>2. events' \in Nat
    BY <1>0, <2>1 DEF Event
  <2> QED
    BY <1>0, <1>1, <2>1, <2>2
<1>10. ASSUME NEW r \in reads, Serve(r) \/ LandThread(r) \/ LandList(r) \/ ReadFails(r) PROVE PostedInv'
  BY <1>0, <1>1, <1>10 DEF Serve, LandThread, LandList, ReadFails
<1>11. ASSUME NEW q \in posts, Refuse(q) \/ CommitMessage(q) \/ Respond(q) \/ Lose(q) PROVE PostedInv'
  BY <1>0, <1>3, <1>11, PostedStage DEF Refuse, CommitMessage, Respond, Lose
<1>12. ASSUME NEW q \in posts, Commit(q) PROVE PostedInv'
  <2>1. q.field # "message"
    BY <1>12 DEF Commit, Fields, Toggles
  <2>2. PICK s : Now(q, WithResult(To(q, s), contact'[q.phone][q.field])) /\ events' = events
    BY <1>12 DEF Commit
  <2> QED
    BY <1>0, <1>3, <2>1, <2>2, PostedResult
<1>13. ASSUME NEW q \in posts, InsertMessage(q) PROVE PostedInv'
  <2>1. q.phone \in Phones
    BY <1>0 DEF IsPost
  <2>2. Len(log') \in 1..Len(log') /\ log'[Len(log')].by = "agent"
    BY <1>13, <2>1, RowAdded DEF InsertMessage
  <2>3. Now(q, WithResult(To(q, "inserted"), Len(log'))) /\ events' = events
    BY <1>13 DEF InsertMessage
  <2> QED
    BY <1>0, <1>3, <2>2, <2>3, PostedResult
<1>14. ASSUME NEW q \in posts, Answered(q) \/ Rejected(q) PROVE PostedInv'
  BY <1>0, <1>1, <1>14 DEF Answered, Rejected, Handled
<1>15. ASSUME NEW i \in 1..Len(log), TurnPublishes(i) \/ TurnEnds(i) PROVE PostedInv'
  BY <1>0, <1>1, <1>15 DEF TurnPublishes, TurnEnds, ServerStep
<1>16. CASE UNCHANGED consoleVars
  BY <1>0, <1>1, <1>16 DEF consoleVars
<1> QED
  BY <1>4, <1>5, <1>6, <1>7, <1>8, <1>9, <1>10, <1>11, <1>12, <1>13, <1>14, <1>15, <1>16 DEF Next

LEMMA ReadAnswers ==
  ASSUME CacheInv, NEW p \in Phones, NEW full \in BOOLEAN, NEW lg, NEW late
  PROVE  Answer(ThreadRead(p, full, Epochs), lg, late)
<1>1. cache[p].lastId \in Nat
  BY DEF CacheInv, Entries
<1>2. ~Unserved.served
  BY DEF Unserved
<1> QED
  BY <1>1, <1>2 DEF ThreadRead, Answer

LEMMA NextAnswers == Shape /\ ThreadInv /\ [Next]_consoleVars => AnswersInv'
<1> SUFFICES ASSUME Shape, ThreadInv, [Next]_consoleVars PROVE AnswersInv'
  OBVIOUS
<1> USE DEF serverVars, historyVars, paneVars, boundVars
<1>0. CacheInv /\ \A r \in reads : r.kind = "thread" => Answer(r, log, overtaken) /\ Answer(r, log', overtaken')
  BY RowsGrow, LateGrows, AnswerKept DEF ThreadInv, AnswersInv
<1>1. ASSUME \A r \in reads' : r.kind = "thread" => r \in reads \/ Answer(r, log', overtaken') PROVE AnswersInv'
  BY <1>0, <1>1 DEF AnswersInv
<1>2. ListRead.kind # "thread"
  BY DEF ListRead
<1>3. ASSUME NEW p \in Phones, NEW full \in BOOLEAN,
             reads' \subseteq reads \cup {ListRead} \cup {ThreadRead(p, full, Epochs)}
      PROVE  AnswersInv'
  BY <1>0, <1>1, <1>2, <1>3, ReadAnswers
<1>4. ASSUME reads' \subseteq reads \cup {ListRead} PROVE AnswersInv'
  BY <1>1, <1>2, <1>4
<1>5. ASSUME Poll PROVE AnswersInv'
  BY <1>3, <1>5 DEF Poll, Refreshes, Shape
<1>6. ASSUME Activity PROVE AnswersInv'
  <2>1. CASE Head(queue) = current /\ Refreshes
    BY <1>3, <1>6, <2>1 DEF Activity, Refreshes, Shape
  <2>2. CASE ~(Head(queue) = current /\ Refreshes)
    BY <1>4, <1>6, <2>2 DEF Activity
  <2> QED
    BY <2>1, <2>2
<1>7. ASSUME NEW p \in Phones, Open(p) PROVE AnswersInv'
  BY <1>3, <1>7 DEF Open
<1>8. ASSUME NEW r \in reads, Serve(r) PROVE AnswersInv'
  <2>1. IsThread(r)
    BY <1>8 DEF Serve, Shape, IsList
  <2>2. Answer(r, log, overtaken) /\ log \in Seq(Messages)
    BY <1>0, <2>1 DEF IsThread, Shape
  <2> DEFINE ids == {i \in 1..Len(log) : log[i].phone = r.phone /\ log[i].stage = "committed" /\ i > r.after}
             behind == {i \in 1..Len(log) : log[i].phone = r.phone /\ log[i].stage \notin {"committed", "gone"}
                                            /\ \E j \in ids : i < j}
             t == [r EXCEPT !.data = [served |-> TRUE, contact |-> contact[r.phone], ids |-> ids]]
  <2>3. Answer(t, log, overtaken \cup behind)
    BY <2>2, AnswerServed
  <2>4. reads' = (reads \ {r}) \cup {t} /\ overtaken' = overtaken \cup behind /\ log' = log
    BY <1>8 DEF Serve
  <2> HIDE DEF t, behind
  <2> QED
    BY <1>1, <2>3, <2>4
<1>9. ASSUME LoadConversations \/ Reconnect \/ Close PROVE AnswersInv'
  BY <1>4, <1>9 DEF LoadConversations, Reconnect, Close
<1>10. ASSUME ClearPayment \/ Send PROVE AnswersInv'
  BY <1>4, <1>10 DEF ClearPayment, Send, Acts
<1>11. ASSUME NEW f \in Toggles, PressToggle(f) PROVE AnswersInv'
  BY <1>4, <1>11 DEF PressToggle, Acts
<1>12. ASSUME NEW p \in Phones, TogglePin(p) \/ SaveRename(p) \/ TurnInserts(p) \/ \E f \in Elsewhere : OtherAgent(p, f)
       PROVE  AnswersInv'
  BY <1>4, <1>12 DEF TogglePin, SaveRename, TurnInserts, OtherAgent, Acts, ServerStep
<1>13. ASSUME NEW r \in reads, LandThread(r) \/ LandList(r) \/ ReadFails(r) PROVE AnswersInv'
  BY <1>4, <1>13 DEF LandThread, LandList, ReadFails
<1>14. ASSUME NEW q \in posts,
              Refuse(q) \/ Commit(q) \/ InsertMessage(q) \/ CommitMessage(q) \/ Respond(q) \/ Lose(q)
       PROVE  AnswersInv'
  BY <1>4, <1>14 DEF Refuse, Commit, InsertMessage, CommitMessage, Respond, Lose, ServerStep
<1>15. ASSUME NEW q \in posts, Answered(q) \/ Rejected(q) PROVE AnswersInv'
  BY <1>4, <1>15 DEF Answered, Rejected, Reloads
<1>16. ASSUME NEW i \in 1..Len(log), TurnPublishes(i) \/ TurnEnds(i) PROVE AnswersInv'
  BY <1>4, <1>16 DEF TurnPublishes, TurnEnds, ServerStep
<1>17. CASE UNCHANGED consoleVars
  BY <1>4, <1>17 DEF consoleVars
<1> QED
  BY <1>5, <1>6, <1>7, <1>8, <1>9, <1>10, <1>11, <1>12, <1>13, <1>14, <1>15, <1>16, <1>17 DEF Next

LEMMA NextCache == Shape /\ ThreadInv /\ [Next]_consoleVars => CacheInv'
<1> SUFFICES ASSUME Shape, ThreadInv, [Next]_consoleVars PROVE CacheInv'
  OBVIOUS
<1> USE DEF serverVars, historyVars, paneVars, boundVars
<1>0. /\ cache \in [Phones -> Entries] /\ log \in Seq(Messages)
      /\ \A p \in Phones : EntryInv(cache[p], p, log, overtaken) /\ EntryInv(cache[p], p, log', overtaken')
  BY RowsGrow, LateGrows, EntryKept DEF ThreadInv, CacheInv, Shape
<1>1. ASSUME cache' = cache PROVE CacheInv'
  BY <1>0, <1>1 DEF CacheInv
<1>2. ASSUME NEW p \in Phones, NEW e, cache' = [cache EXCEPT ![p] = e], EntryInv(e, p, log', overtaken') PROVE CacheInv'
  <2>1. e \in Entries
    BY <1>2 DEF EntryInv, Held
  <2>2. cache' \in [Phones -> Entries] /\ cache'[p] = e /\ \A o \in Phones \ {p} : cache'[o] = cache[o]
    BY <1>0, <1>2, <2>1
  <2>3. \A o \in Phones : EntryInv(cache'[o], o, log', overtaken')
    BY <1>0, <1>2, <2>2
  <2> QED
    BY <2>2, <2>3 DEF CacheInv
<1>3. ASSUME Send PROVE CacheInv'
  <2>1. current \in Phones /\ log' = log /\ overtaken' = overtaken
        /\ cache' = [cache EXCEPT ![current].messages = Append(@, -events')]
    BY <1>3 DEF Send, Acts, Shape
  <2>2. PICK n \in Nat : n = events'
    BY <1>3 DEF Send, Acts, Event, ThreadInv, PostedInv
  <2>3. PICK p \in Phones : p = current
    BY <2>1
  <2>4. PICK e : e = [cache[p] EXCEPT !.messages = Append(@, -n)]
    OBVIOUS
  <2>5. cache' = [cache EXCEPT ![p] = e]
    BY <2>1, <2>2, <2>3, <2>4
  <2>6. EntryInv(e, p, log', overtaken')
    BY <1>0, <2>1, <2>4, SaidInv
  <2> QED
    BY <1>2, <2>5, <2>6
<1>4. ASSUME NEW r \in reads, LandThread(r) PROVE CacheInv'
  <2>1. CASE r.phone = current
    <3>1. r.kind = "thread" /\ r.data.served /\ Answer(r, log, overtaken) /\ log' = log
      BY <1>4 DEF LandThread, ThreadInv, AnswersInv
    <3>2. r.phone \in Phones
      BY <3>1 DEF Shape, IsList, IsThread
    <3>3. PICK e : e = Merged(cache[r.phone], r)
      OBVIOUS
    <3>4. cache' = [cache EXCEPT ![r.phone] = e]
      BY <1>4, <2>1, <3>3 DEF LandThread
    <3>5. overtaken' = IF r.full THEN overtaken ELSE overtaken \cup cache[r.phone].lastId + 1..r.after
      BY <1>4, <2>1 DEF LandThread
    <3>6. EntryInv(e, r.phone, log', overtaken')
      BY <1>0, <3>1, <3>2, <3>3, <3>5, MergedInv
    <3> QED
      BY <1>2, <3>2, <3>4, <3>6
  <2>2. CASE r.phone # current
    BY <1>1, <1>4, <2>2 DEF LandThread
  <2> QED
    BY <2>1, <2>2
<1>5. ASSUME NEW q \in posts, Answered(q) PROVE CacheInv'
  <2>1. CASE q.field = "message"
    <3>1. q.phone \in Phones /\ HasResult(q) /\ Posted(q, log) /\ log' = log
      BY <1>5 DEF Answered, Handled, Shape, IsPost, ThreadInv, PostedInv
    <3>2. PICK e : e = Sent(cache[q.phone], q)
      OBVIOUS
    <3>3. cache' = [cache EXCEPT ![q.phone] = e] /\ overtaken' = overtaken \cup cache[q.phone].lastId + 1..q.result
      BY <1>5, <2>1, <3>2 DEF Answered
    <3>4. EntryInv(e, q.phone, log', overtaken')
      BY <1>0, <2>1, <3>1, <3>2, <3>3, SentInv
    <3> QED
      BY <1>2, <3>1, <3>3, <3>4
  <2>2. CASE q.field # "message"
    BY <1>1, <1>5, <2>2 DEF Answered
  <2> QED
    BY <2>1, <2>2
<1>6. ASSUME Poll \/ LoadConversations \/ Activity \/ Reconnect \/ Close \/ ClearPayment PROVE cache' = cache
  BY <1>6 DEF Poll, LoadConversations, Activity, Reconnect, Close, ClearPayment
<1>7. ASSUME NEW f \in Toggles, PressToggle(f) PROVE cache' = cache
  BY <1>7 DEF PressToggle
<1>8. ASSUME NEW p \in Phones,
             Open(p) \/ TogglePin(p) \/ SaveRename(p) \/ TurnInserts(p) \/ \E f \in Elsewhere : OtherAgent(p, f)
      PROVE  cache' = cache
  BY <1>8 DEF Open, TogglePin, SaveRename, TurnInserts, OtherAgent, ServerStep
<1>9. ASSUME NEW r \in reads, Serve(r) \/ LandList(r) \/ ReadFails(r) PROVE cache' = cache
  BY <1>9 DEF Serve, LandList, ReadFails
<1>10. ASSUME NEW q \in posts,
              Refuse(q) \/ Commit(q) \/ InsertMessage(q) \/ CommitMessage(q) \/ Respond(q) \/ Lose(q) \/ Rejected(q)
       PROVE  cache' = cache
  BY <1>10 DEF Refuse, Commit, InsertMessage, CommitMessage, Respond, Lose, Rejected, ServerStep
<1>11. ASSUME NEW i \in 1..Len(log), TurnPublishes(i) \/ TurnEnds(i) PROVE cache' = cache
  BY <1>11 DEF TurnPublishes, TurnEnds, ServerStep
<1>12. CASE UNCHANGED consoleVars
  BY <1>1, <1>12 DEF consoleVars
<1> QED
  BY <1>1, <1>3, <1>4, <1>5, <1>6, <1>7, <1>8, <1>9, <1>10, <1>11, <1>12 DEF Next

LEMMA InitThread == Init => ThreadInv
<1> SUFFICES ASSUME Init PROVE ThreadInv
  OBVIOUS
<1>1. reads = {} /\ posts = {} /\ events = 0
  BY DEF Init
<1>2. PICK e : e = [messages |-> <<>>, seen |-> {}, lastId |-> 0]
  OBVIOUS
<1>3. cache = [p \in Phones |-> e]
  BY <1>2 DEF Init
<1>4. log \in Seq(Messages)
  BY ShapeInit DEF Shape
<1>5. e \in Entries /\ \A p : EntryInv(e, p, log, overtaken)
  BY <1>2, <1>4, EmptyEntry, EmptySeq DEF Entries
<1>6. CacheInv
  BY <1>3, <1>5 DEF CacheInv
<1> QED
  BY <1>1, <1>6 DEF ThreadInv, AnswersInv, PostedInv

LEMMA TranscriptMeans == Shape /\ CacheInv => TranscriptFaithful
<1> SUFFICES ASSUME Shape, CacheInv, NEW p \in Phones
             PROVE  LET ids == cache[p].messages
                    IN  /\ \A i, j \in Theirs(p) : i < j => ids[i] < ids[j] \/ (ids[j] < ids[i] /\ ids[j] \in overtaken)
                        /\ \A i \in 1..Len(log) :
                            (/\ log[i].phone = p /\ log[i].by = "turn" /\ log[i].stage = "committed"
                             /\ i \in cache[p].seen \cup 1..cache[p].lastId /\ i \notin overtaken)
                            => i \in Drawn(p)
  BY DEF TranscriptFaithful
<1> DEFINE e == cache[p]
<1>1. Held(e, log) /\ Ordered(e, log, overtaken) /\ Complete(e, p, log, overtaken)
  BY DEF CacheInv, EntryInv
<1>2. \A i : i \in Theirs(p) <=> Stands(e, i, log)
  BY DEF Theirs, Stands
<1>3. \A k : k \in Drawn(p) <=> Standing(e, k, log)
  BY <1>2 DEF Drawn, Standing, Stands
<1>4. \A i, j \in Theirs(p) : i < j =>
         e.messages[i] < e.messages[j] \/ (e.messages[j] < e.messages[i] /\ e.messages[j] \in overtaken)
  BY <1>1, <1>2 DEF Ordered, Stands
<1>5. ASSUME NEW k \in 1..Len(log), log[k].phone = p, log[k].by = "turn", log[k].stage = "committed",
             k \in e.seen \cup 1..e.lastId, k \notin overtaken
      PROVE  k \in Drawn(p)
  <2>1. Wrote(p, k, log) /\ k \in Nat
    BY <1>5, LenProperties DEF Wrote, Shape
  <2>2. k \in e.seen \/ k <= e.lastId
    BY <1>1, <1>5 DEF Held, Entries
  <2> QED
    BY <1>1, <1>3, <1>5, <2>1, <2>2 DEF Complete
<1> QED
  BY <1>4, <1>5

\* What customers wrote, up to the last message the tab knows of, is in its thread, in order and
\* with nothing missing but what an id ahead of it got past: for polls, first loads and the agent's
\* own messages in flight together, and answers in any order.
THEOREM TranscriptsAreFaithful == Spec => []TranscriptFaithful
<1>1. Init => Shape /\ ThreadInv
  BY ShapeInit, InitThread
<1>2. Shape /\ ThreadInv /\ [Next]_consoleVars => Shape' /\ ThreadInv'
  <2> SUFFICES ASSUME Shape, ThreadInv, [Next]_consoleVars PROVE Shape' /\ ThreadInv'
    OBVIOUS
  <2>1. Shape'
    BY NextShape
  <2>2. CacheInv' /\ AnswersInv' /\ PostedInv'
    BY NextCache, NextAnswers, NextPosted DEF ThreadInv
  <2> QED
    BY <2>1, <2>2 DEF ThreadInv
<1>3. Shape /\ ThreadInv => TranscriptFaithful
  BY TranscriptMeans DEF ThreadInv
<1> QED
  BY <1>1, <1>2, <1>3, PTL DEF Spec

-----------------------------------------------------------------------------
\* The buffer keeps to its size, and where a fetch of the thread is believed to be in flight one is.
QueueInv == Len(queue) <= QueueSize
FlightInv == fetching \in BOOLEAN /\ (fetching => OfKind("thread") # {})

LEMMA SignalledBound ==
  ASSUME NEW q \in Seq(Phones), Len(q) <= QueueSize, NEW p \in Phones
  PROVE  Len(Signalled(q, p)) <= QueueSize
<1>1. Len(q) \in Nat /\ QueueSize \in Nat \ {0}
  BY LenProperties, ConsoleAssumption
<1>2. CASE Len(q) = QueueSize
  <2>1. q # <<>>
    BY <1>1, <1>2, EmptySeq
  <2>2. Tail(q) \in Seq(Phones) /\ Len(Tail(q)) = Len(q) - 1
    BY <2>1, HeadTailProperties
  <2>3. Len(Append(Tail(q), p)) = Len(q)
    BY <1>1, <2>2, AppendProperties
  <2> QED
    BY <1>1, <1>2, <2>3 DEF Signalled
<1>3. CASE Len(q) # QueueSize
  <2>1. Len(Append(q, p)) = Len(q) + 1
    BY AppendProperties
  <2> QED
    BY <1>1, <1>3, <2>1 DEF Signalled
<1> QED
  BY <1>2, <1>3

LEMMA NextQueue == Shape /\ QueueInv /\ [Next]_consoleVars => QueueInv'
<1> SUFFICES ASSUME Shape, QueueInv, [Next]_consoleVars PROVE QueueInv'
  OBVIOUS
<1> USE DEF serverVars, historyVars, paneVars, boundVars
<1>0. queue \in Seq(Phones) /\ Len(queue) \in Nat /\ QueueSize \in Nat \ {0} /\ Len(queue) <= QueueSize
  BY LenProperties, ConsoleAssumption DEF Shape, QueueInv
<1>1. ASSUME queue' = queue PROVE QueueInv'
  BY <1>0, <1>1 DEF QueueInv
<1>2. ASSUME NEW p \in Phones, Publish(p) PROVE QueueInv'
  BY <1>0, <1>2, SignalledBound DEF QueueInv, Publish
<1>3. ASSUME Activity PROVE QueueInv'
  <2>1. queue # <<>> /\ queue' = Tail(queue)
    BY <1>3 DEF Activity
  <2>2. Len(Tail(queue)) = Len(queue) - 1
    BY <1>0, <2>1, HeadTailProperties
  <2> QED
    BY <1>0, <2>1, <2>2 DEF QueueInv
<1>4. ASSUME Reconnect PROVE QueueInv'
  BY <1>0, <1>4, EmptySeq DEF Reconnect, QueueInv
<1>5. ASSUME NEW q \in posts, Respond(q) PROVE QueueInv'
  BY <1>2, <1>5 DEF Respond, Shape, IsPost
<1>6. ASSUME NEW p \in Phones, NEW f \in Elsewhere, OtherAgent(p, f) PROVE QueueInv'
  BY <1>1, <1>2, <1>6 DEF OtherAgent
<1>7. ASSUME NEW i \in 1..Len(log), TurnPublishes(i) PROVE QueueInv'
  <2>1. log[i] \in Messages
    BY ElementOfSeq DEF Shape
  <2>2. log[i].phone \in Phones
    BY <2>1 DEF Messages
  <2> QED
    BY <1>2, <1>7, <2>2 DEF TurnPublishes
<1>8. ASSUME Poll \/ LoadConversations \/ Close \/ ClearPayment \/ Send PROVE queue' = queue
  BY <1>8 DEF Poll, LoadConversations, Close, ClearPayment, Send, Acts
<1>9. ASSUME NEW p \in Phones, Open(p) \/ TogglePin(p) \/ SaveRename(p) \/ TurnInserts(p) PROVE queue' = queue
  BY <1>9 DEF Open, TogglePin, SaveRename, TurnInserts, Acts
<1>10. ASSUME NEW f \in Toggles, PressToggle(f) PROVE queue' = queue
  BY <1>10 DEF PressToggle, Acts
<1>11. ASSUME NEW r \in reads, Serve(r) \/ LandThread(r) \/ LandList(r) \/ ReadFails(r) PROVE queue' = queue
  BY <1>11 DEF Serve, LandThread, LandList, ReadFails
<1>12. ASSUME NEW q \in posts,
              Refuse(q) \/ Commit(q) \/ InsertMessage(q) \/ CommitMessage(q) \/ Lose(q) \/ Answered(q) \/ Rejected(q)
       PROVE  queue' = queue
  BY <1>12 DEF Refuse, Commit, InsertMessage, CommitMessage, Lose, Answered, Rejected, Handled
<1>13. ASSUME NEW i \in 1..Len(log), TurnEnds(i) PROVE queue' = queue
  BY <1>13 DEF TurnEnds
<1>14. CASE UNCHANGED consoleVars
  BY <1>1, <1>14 DEF consoleVars
<1> QED
  BY <1>1, <1>3, <1>4, <1>5, <1>6, <1>7, <1>8, <1>9, <1>10, <1>11, <1>12, <1>13, <1>14 DEF Next

LEMMA NextFlight == Shape /\ FlightInv /\ [Next]_consoleVars => FlightInv'
<1> SUFFICES ASSUME Shape, FlightInv, [Next]_consoleVars PROVE FlightInv'
  OBVIOUS
<1> USE DEF serverVars, historyVars, paneVars, boundVars
<1>1. ASSUME reads \subseteq reads', fetching' = fetching PROVE FlightInv'
  BY <1>1 DEF FlightInv, OfKind
<1>2. ASSUME NEW t \in reads', t.kind = "thread", fetching' = TRUE PROVE FlightInv'
  BY <1>2 DEF FlightInv, OfKind
<1>3. ASSUME NEW p, NEW full, ThreadRead(p, full, Epochs) \in reads', fetching' = TRUE PROVE FlightInv'
  BY <1>2, <1>3 DEF ThreadRead
<1>4. ASSUME Poll PROVE FlightInv'
  BY <1>3, <1>4 DEF Poll, Refresh
<1>5. ASSUME Activity PROVE FlightInv'
  <2>1. CASE Head(queue) = current /\ Refreshes
    BY <1>3, <1>5, <2>1 DEF Activity, Refresh
  <2>2. CASE ~(Head(queue) = current /\ Refreshes)
    BY <1>1, <1>5, <2>2 DEF Activity
  <2> QED
    BY <2>1, <2>2
<1>6. ASSUME NEW p \in Phones, Open(p) PROVE FlightInv'
  BY <1>3, <1>6 DEF Open
<1>7. ASSUME NEW r \in reads, Serve(r) PROVE FlightInv'
  <2>1. IsThread(r)
    BY <1>7 DEF Serve, Shape, IsList
  <2>2. PICK t : t = [r EXCEPT !.data = [served |-> TRUE, contact |-> contact[r.phone],
                        ids |-> {i \in 1..Len(log) : log[i].phone = r.phone /\ log[i].stage = "committed" /\ i > r.after}]]
    OBVIOUS
  <2>3. t.kind = "thread"
    BY <2>1, <2>2 DEF IsThread
  <2>4. reads' = (reads \ {r}) \cup {t} /\ fetching' = fetching
    BY <1>7, <2>2 DEF Serve
  <2> QED
    BY <2>3, <2>4 DEF FlightInv, OfKind
<1>8. ASSUME NEW r \in reads, LandThread(r) PROVE FlightInv'
  BY <1>8 DEF LandThread, FlightInv
<1>9. ASSUME NEW r \in reads, LandList(r) PROVE FlightInv'
  BY <1>9 DEF LandList, FlightInv, OfKind
<1>10. ASSUME NEW r \in reads, ReadFails(r) PROVE FlightInv'
  BY <1>10 DEF ReadFails, FlightInv, OfKind
<1>11. ASSUME LoadConversations \/ Reconnect \/ Close \/ ClearPayment \/ Send PROVE FlightInv'
  BY <1>1, <1>11 DEF LoadConversations, Reconnect, Close, ClearPayment, Send, Acts
<1>12. ASSUME NEW f \in Toggles, PressToggle(f) PROVE FlightInv'
  BY <1>1, <1>12 DEF PressToggle, Acts
<1>13. ASSUME NEW p \in Phones, TogglePin(p) \/ SaveRename(p) \/ TurnInserts(p) \/ \E f \in Elsewhere : OtherAgent(p, f)
       PROVE  FlightInv'
  BY <1>1, <1>13 DEF TogglePin, SaveRename, TurnInserts, OtherAgent, Acts, ServerStep
<1>14. ASSUME NEW q \in posts,
              Refuse(q) \/ Commit(q) \/ InsertMessage(q) \/ CommitMessage(q) \/ Respond(q) \/ Lose(q)
       PROVE  FlightInv'
  BY <1>1, <1>14 DEF Refuse, Commit, InsertMessage, CommitMessage, Respond, Lose, ServerStep
<1>15. ASSUME NEW q \in posts, Answered(q) \/ Rejected(q) PROVE FlightInv'
  BY <1>1, <1>15 DEF Answered, Rejected, Handled, Reloads
<1>16. ASSUME NEW i \in 1..Len(log), TurnPublishes(i) \/ TurnEnds(i) PROVE FlightInv'
  BY <1>1, <1>16 DEF TurnPublishes, TurnEnds, ServerStep
<1>17. CASE UNCHANGED consoleVars
  BY <1>1, <1>17 DEF consoleVars
<1> QED
  BY <1>4, <1>5, <1>6, <1>7, <1>8, <1>9, <1>10, <1>11, <1>12, <1>13, <1>14, <1>15, <1>16, <1>17 DEF Next

\* A button is locked only as long as a click of it is unanswered.
AwaitedInv == \A f \in Toggles : toggle[f].pending => \E q \in posts : q.field = f

LEMMA TogglePending ==
  ASSUME NEW t, NEW v, NEW e, NEW n
  PROVE  /\ ~Settled(v, n).pending
         /\ ~Confirmed(t, v).pending
         /\ ~Failed(t).pending
         /\ Observed(t, v, e).pending => t.pending
<1>1. \A w, m : ~Settled(w, m).pending
  BY DEF Settled
<1> QED
  BY <1>1 DEF Confirmed, Failed, Observed

LEMMA NextAwaited == Shape /\ AwaitedInv /\ [Next]_consoleVars => AwaitedInv'
<1> SUFFICES ASSUME Shape, AwaitedInv, [Next]_consoleVars PROVE AwaitedInv'
  OBVIOUS
<1> USE DEF serverVars, historyVars, paneVars, boundVars
<1>1. ASSUME toggle' = toggle, \A q \in posts : \E t \in posts' : t.field = q.field PROVE AwaitedInv'
  BY <1>1 DEF AwaitedInv
<1>2. ASSUME toggle' = toggle, posts \subseteq posts' PROVE AwaitedInv'
  BY <1>2 DEF AwaitedInv
<1>3. ASSUME NEW field, NEW p, NEW want, Post(field, p, want)
      PROVE  posts \subseteq posts' /\ \E q \in posts' : q.field = field
  <2>1. PICK q : q = [n |-> events', field |-> field, phone |-> p, want |-> want, opening |-> opens, stage |-> "sent"]
    OBVIOUS
  <2>2. q.field = field
    BY <2>1
  <2>3. posts' = posts \cup {q}
    BY <1>3, <2>1 DEF Post
  <2> QED
    BY <2>2, <2>3
<1>4. ASSUME NEW q \in posts, NEW then, Now(q, then), then.field = q.field, toggle' = toggle PROVE AwaitedInv'
  BY <1>1, <1>4 DEF Now
<1>5. ASSUME NEW p \in Phones, Open(p) PROVE AwaitedInv'
  <2>1. toggle' = [f \in Toggles |-> Confirmed(toggle[f], rows[p][f])]
    BY <1>5 DEF Open
  <2> QED
    BY <2>1, TogglePending DEF AwaitedInv
<1>6. ASSUME NEW f \in Toggles, PressToggle(f) PROVE AwaitedInv'
  <2>1. posts \subseteq posts' /\ \E q \in posts' : q.field = f
    BY <1>3, <1>6 DEF PressToggle
  <2>2. \A g \in Toggles \ {f} : toggle'[g] = toggle[g]
    BY <1>6 DEF PressToggle, Shape
  <2> QED
    BY <2>1, <2>2 DEF AwaitedInv
<1>7. ASSUME NEW r \in reads, LandThread(r) PROVE AwaitedInv'
  <2>1. posts' = posts
    BY <1>7 DEF LandThread
  <2>2. CASE r.phone = current
    <3>1. toggle' = [f \in Toggles |-> Observed(toggle[f], r.data.contact[f], r.epochs[f])]
      BY <1>7, <2>2 DEF LandThread
    <3>2. \A f \in Toggles : toggle'[f].pending => toggle[f].pending
      BY <3>1, TogglePending
    <3> QED
      BY <2>1, <3>2 DEF AwaitedInv
  <2>3. CASE r.phone # current
    BY <1>2, <1>7, <2>1, <2>3 DEF LandThread
  <2> QED
    BY <2>2, <2>3
<1>8. ASSUME NEW q \in posts, Answered(q) \/ Rejected(q) PROVE AwaitedInv'
  <2>1. posts' = posts \ {q}
    BY <1>8 DEF Answered, Rejected, Handled
  <2>2. toggle' = IF q.field \in Toggles
                  THEN [toggle EXCEPT ![q.field] = IF Answered(q) THEN Confirmed(@, q.result) ELSE Failed(@)]
                  ELSE toggle
    BY <1>8 DEF Answered, Rejected
  <2>3. ASSUME NEW f \in Toggles, toggle'[f].pending PROVE f # q.field /\ toggle[f].pending
    BY <2>2, <2>3, TogglePending DEF Shape
  <2>4. ASSUME NEW f \in Toggles, toggle'[f].pending PROVE \E t \in posts' : t.field = f
    BY <2>1, <2>3, <2>4 DEF AwaitedInv
  <2> QED
    BY <2>4 DEF AwaitedInv
<1>9. ASSUME NEW q \in posts, Refuse(q) \/ CommitMessage(q) \/ Respond(q) \/ Lose(q) PROVE AwaitedInv'
  <2>1. PICK s : Now(q, To(q, s))
    BY <1>9 DEF Refuse, CommitMessage, Respond, Lose
  <2>2. To(q, s).field = q.field
    BY DEF To, Shape, IsPost
  <2>3. toggle' = toggle
    BY <1>9 DEF Refuse, CommitMessage, Respond, Lose, ServerStep
  <2> QED
    BY <1>4, <2>1, <2>2, <2>3
<1>10. ASSUME NEW q \in posts, Commit(q) \/ InsertMessage(q) PROVE AwaitedInv'
  <2>1. PICK s, v : s \in {"committed", "answered", "inserted"} /\ Now(q, WithResult(To(q, s), v))
    BY <1>10 DEF Commit, InsertMessage
  <2>2. To(q, s).field = q.field /\ "field" \in DOMAIN To(q, s)
    BY DEF To, Shape, IsPost
  <2>3. WithResult(To(q, s), v).field = q.field
    BY <2>2 DEF WithResult
  <2>4. toggle' = toggle
    BY <1>10 DEF Commit, InsertMessage, ServerStep
  <2> QED
    BY <1>4, <2>1, <2>3, <2>4
<1>11. ASSUME Poll \/ LoadConversations \/ Activity \/ Reconnect \/ Close PROVE AwaitedInv'
  BY <1>2, <1>11 DEF Poll, LoadConversations, Activity, Reconnect, Close
<1>12. ASSUME ClearPayment \/ Send PROVE AwaitedInv'
  BY <1>2, <1>3, <1>12 DEF ClearPayment, Send
<1>13. ASSUME NEW p \in Phones, TogglePin(p) \/ SaveRename(p) PROVE AwaitedInv'
  BY <1>2, <1>3, <1>13 DEF TogglePin, SaveRename
<1>14. ASSUME NEW p \in Phones, TurnInserts(p) \/ \E f \in Elsewhere : OtherAgent(p, f) PROVE AwaitedInv'
  BY <1>2, <1>14 DEF TurnInserts, OtherAgent, ServerStep
<1>15. ASSUME NEW r \in reads, Serve(r) \/ LandList(r) \/ ReadFails(r) PROVE AwaitedInv'
  BY <1>2, <1>15 DEF Serve, LandList, ReadFails
<1>16. ASSUME NEW i \in 1..Len(log), TurnPublishes(i) \/ TurnEnds(i) PROVE AwaitedInv'
  BY <1>2, <1>16 DEF TurnPublishes, TurnEnds, ServerStep
<1>17. CASE UNCHANGED consoleVars
  BY <1>2, <1>17 DEF consoleVars
<1> QED
  BY <1>5, <1>6, <1>7, <1>8, <1>9, <1>10, <1>11, <1>12, <1>13, <1>14, <1>15, <1>16, <1>17 DEF Next

\* The state stays of its type; a tab that lags keeps the signals' buffer within its size; and the
\* poll never stands back for a fetch that is no longer there, nor a button for an answer that
\* cannot come any more.
THEOREM ConsoleTypes == Spec => []TypeOK
<1>1. Init => Shape /\ ThreadInv /\ QueueInv /\ FlightInv /\ AwaitedInv
  <2> SUFFICES ASSUME Init PROVE QueueInv /\ FlightInv /\ AwaitedInv
    BY ShapeInit, InitThread
  <2>1. Len(queue) = 0 /\ QueueSize \in Nat
    BY EmptySeq, ConsoleAssumption DEF Init
  <2>2. QueueInv
    BY <2>1 DEF QueueInv
  <2>3. fetching = FALSE
    BY DEF Init
  <2>4. toggle = [f \in Toggles |-> Settled(contact[Opened][f], 0)]
    BY DEF Init
  <2>5. AwaitedInv
    BY <2>4, TogglePending DEF AwaitedInv
  <2> QED
    BY <2>2, <2>3, <2>5 DEF FlightInv
<1>2. Shape /\ ThreadInv /\ QueueInv /\ FlightInv /\ AwaitedInv /\ [Next]_consoleVars => Shape' /\ ThreadInv' /\ QueueInv' /\ FlightInv' /\ AwaitedInv'
  <2> SUFFICES ASSUME Shape, ThreadInv, QueueInv, FlightInv, AwaitedInv, [Next]_consoleVars
               PROVE  Shape' /\ ThreadInv' /\ QueueInv' /\ FlightInv' /\ AwaitedInv'
    OBVIOUS
  <2>1. Shape' /\ QueueInv' /\ FlightInv' /\ AwaitedInv'
    BY NextShape, NextQueue, NextFlight, NextAwaited
  <2>2. CacheInv' /\ AnswersInv' /\ PostedInv'
    BY NextCache, NextAnswers, NextPosted DEF ThreadInv
  <2> QED
    BY <2>1, <2>2 DEF ThreadInv
<1>3. Shape /\ ThreadInv /\ QueueInv /\ FlightInv /\ AwaitedInv => TypeOK
  <2> SUFFICES ASSUME Shape, ThreadInv, QueueInv, FlightInv, AwaitedInv PROVE TypeOK
    OBVIOUS
  <2>1. \A f \in Toggles : toggle[f].pending \in BOOLEAN /\ toggle[f].epoch \in Nat
    BY DEF Shape, ToggleState
  <2>2. ASSUME NEW p \in Phones PROVE cache[p].lastId \in 0..Len(log) /\ cache[p].seen \subseteq 1..Len(log)
    <3>1. Len(log) \in Nat
      BY LenProperties DEF Shape
    <3>2. PICK e : e = cache[p]
      OBVIOUS
    <3>3. Held(e, log)
      BY <3>2 DEF ThreadInv, CacheInv, EntryInv
    <3>4. e.lastId \in Nat /\ e.lastId <= Len(log) /\ \A k \in e.seen : k \in Nat /\ 1 <= k /\ k <= e.lastId
      BY <3>3 DEF Held, Entries
    <3>5. \A k \in e.seen : k \in 1..Len(log)
      BY <3>1, <3>4
    <3> QED
      BY <3>1, <3>2, <3>4, <3>5
  <2> QED
    BY <2>1, <2>2 DEF TypeOK, Shape, QueueInv, FlightInv, AwaitedInv
<1> QED
  BY <1>1, <1>2, <1>3, PTL DEF Spec

-----------------------------------------------------------------------------
(***************************************************************************)
(* The safety half of Converges.                                           *)
(***************************************************************************)
\* Nothing is under way at the server.
Quiet == posts = {} /\ \A i \in 1..Len(log) : log[i].stage \in {"committed", "gone"}

\* A fetch that has, or is to have, what the server has: the whole list, or of the open thread
\* everything after what the tab has, asked for after the last click.
UpToDate(r) ==
    \/ r.kind = "list" /\ r.data.contacts = contact
    \/ r.kind = "thread" /\ r.phone # current
    \/ /\ r.kind = "thread" /\ r.epochs = Epochs
       /\ r.data.served =>
           /\ r.data.contact = contact[r.phone]
           /\ \A i \in 1..Len(log) :
               log[i].phone = r.phone /\ log[i].stage = "committed" /\ i > r.after => i \in r.data.ids

\* A step of the tab alone.
CatchesUp ==
    Quiet /\ events' = events =>
        /\ Quiet' /\ UNCHANGED <<serverVars, current>>
        /\ \A r \in reads' : UpToDate(r)' \/ \E s \in reads : ~UpToDate(s) /\ (r = s \/ Serve(s))
        /\ \A r \in reads : UpToDate(r) /\ LandList(r) => rows' = contact'
        /\ \A r \in reads : UpToDate(r) /\ LandThread(r) /\ r.phone = current => PaneAgrees'
        /\ Agrees /\ (\A r \in reads : UpToDate(r)) => Agrees' /\ \A r \in reads' : UpToDate(r)'

\* With nothing under way at the server nothing changes there but by an act of somebody, and what
\* the tab does is one of these.
LEMMA QuietSteps ==
  ASSUME Shape, Quiet, [Next]_consoleVars, events' = events, events \in Nat
  PROVE  \/ Poll \/ LoadConversations \/ Activity \/ Reconnect
         \/ \E r \in reads : Serve(r) \/ LandThread(r) \/ LandList(r) \/ ReadFails(r)
         \/ UNCHANGED consoleVars
<1>1. ~Event
  BY DEF Event
<1>2. ~Close /\ ~ClearPayment /\ ~Send /\ \A f \in Toggles : ~PressToggle(f)
  BY <1>1 DEF Close, ClearPayment, Send, PressToggle, Acts
<1>3. \A p \in Phones : /\ ~Open(p) /\ ~TogglePin(p) /\ ~SaveRename(p) /\ ~TurnInserts(p)
                        /\ \A f \in Elsewhere : ~OtherAgent(p, f)
  BY <1>1 DEF Open, TogglePin, SaveRename, TurnInserts, OtherAgent, Acts
<1>4. posts = {}
  BY DEF Quiet
<1>5. \A i \in 1..Len(log) : ~TurnPublishes(i) /\ ~TurnEnds(i)
  BY DEF Quiet, TurnPublishes, TurnEnds
<1> QED
  BY <1>2, <1>3, <1>4, <1>5 DEF Next

\* What is fetched from here on is up to date.
LEMMA FetchedNow ==
  ASSUME NEW p, NEW full
  PROVE  UpToDate(ListRead) /\ UpToDate(ThreadRead(p, full, Epochs))
<1>1. ListRead.kind = "list" /\ ListRead.data.contacts = contact
  BY DEF ListRead
<1>2. /\ ThreadRead(p, full, Epochs).kind = "thread" /\ ThreadRead(p, full, Epochs).epochs = Epochs
      /\ ~ThreadRead(p, full, Epochs).data.served
  BY DEF ThreadRead, Unserved
<1> QED
  BY <1>1, <1>2 DEF UpToDate

LEMMA ServedNow ==
  ASSUME NEW r, IsThread(r), UpToDate(r), NEW ids,
         \A i \in 1..Len(log) : log[i].phone = r.phone /\ log[i].stage = "committed" /\ i > r.after => i \in ids
  PROVE  UpToDate([r EXCEPT !.data = [served |-> TRUE, contact |-> contact[r.phone], ids |-> ids]])
<1> DEFINE d == [served |-> TRUE, contact |-> contact[r.phone], ids |-> ids]
           t == [r EXCEPT !.data = d]
<1>1. d.contact = contact[r.phone] /\ d.ids = ids
  OBVIOUS
<1> HIDE DEF d
<1>2. t.kind = r.kind /\ t.phone = r.phone /\ t.epochs = r.epochs /\ t.after = r.after /\ t.data = d
  BY DEF IsThread
<1> HIDE DEF t
<1>3. UpToDate(t)
  BY <1>1, <1>2 DEF UpToDate, IsThread
<1> QED
  BY <1>3 DEF t, d

LEMMA NextQuiet ==
  ASSUME Shape, Quiet, [Next]_consoleVars, events' = events, events \in Nat
  PROVE  Quiet' /\ UNCHANGED <<serverVars, current>>
<1> USE DEF serverVars, historyVars, paneVars, boundVars
<1>1. UNCHANGED <<contact, log, posts, current>>
  BY QuietSteps DEF Poll, LoadConversations, Activity, Reconnect, Serve, LandThread, LandList, ReadFails, consoleVars
<1> QED
  BY <1>1 DEF Quiet

\* An answer moves a button, and never the number of its last click.
LEMMA QuietEpochs ==
  ASSUME Shape, Quiet, [Next]_consoleVars, events' = events, events \in Nat
  PROVE  Epochs' = Epochs
<1> USE DEF serverVars, historyVars, paneVars, boundVars
<1>1. ASSUME toggle' = toggle PROVE Epochs' = Epochs
  BY <1>1 DEF Epochs
<1>2. ASSUME NEW r \in reads, LandThread(r), r.phone = current PROVE Epochs' = Epochs
  <2>1. toggle' = [f \in Toggles |-> Observed(toggle[f], r.data.contact[f], r.epochs[f])]
    BY <1>2 DEF LandThread
  <2>2. \A f \in Toggles : toggle'[f].epoch = toggle[f].epoch
    BY <2>1 DEF Observed, Settled
  <2> QED
    BY <2>2 DEF Epochs
<1>3. ASSUME NEW r \in reads, LandThread(r), r.phone # current PROVE toggle' = toggle
  BY <1>3 DEF LandThread
<1>4. ASSUME Poll \/ LoadConversations \/ Activity \/ Reconnect \/ UNCHANGED consoleVars PROVE toggle' = toggle
  BY <1>4 DEF Poll, LoadConversations, Activity, Reconnect, consoleVars
<1>5. ASSUME NEW r \in reads, Serve(r) \/ LandList(r) \/ ReadFails(r) PROVE toggle' = toggle
  BY <1>5 DEF Serve, LandList, ReadFails
<1> QED
  BY <1>1, <1>2, <1>3, <1>4, <1>5, QuietSteps

\* No fetch falls behind: one that is not up to date was not when it was asked for.
LEMMA NoneFallsBehind ==
  ASSUME Shape, Quiet, [Next]_consoleVars, events' = events, events \in Nat, NEW r \in reads'
  PROVE  UpToDate(r)' \/ \E s \in reads : ~UpToDate(s) /\ (r = s \/ Serve(s))
<1> USE DEF serverVars, historyVars, paneVars, boundVars
<1>1. UpToDate(r)' <=> UpToDate(r)
  <2>1. contact' = contact /\ log' = log /\ current' = current /\ Epochs' = Epochs
    BY NextQuiet, QuietEpochs
  <2> QED
    BY <2>1 DEF UpToDate
<1>2. CASE r \in reads
  BY <1>1, <1>2
<1>3. CASE r \notin reads
  <2>1. ASSUME Poll \/ LoadConversations \/ Activity PROVE UpToDate(r)
    BY <1>3, <2>1, FetchedNow DEF Poll, LoadConversations, Activity
  <2>2. ASSUME NEW s \in reads, Serve(s), UpToDate(s) PROVE UpToDate(r)
    <3>1. IsThread(s)
      BY <2>2 DEF Serve, Shape, IsList
    <3>2. PICK ids : ids = {i \in 1..Len(log) : log[i].phone = s.phone /\ log[i].stage = "committed" /\ i > s.after}
      OBVIOUS
    <3>3. r = [s EXCEPT !.data = [served |-> TRUE, contact |-> contact[s.phone], ids |-> ids]]
      BY <1>3, <2>2, <3>2 DEF Serve
    <3> QED
      BY <2>2, <3>1, <3>2, <3>3, ServedNow
  <2>3. ASSUME Reconnect \/ UNCHANGED consoleVars PROVE FALSE
    BY <1>3, <2>3 DEF Reconnect, consoleVars
  <2>4. ASSUME NEW s \in reads, LandThread(s) \/ LandList(s) \/ ReadFails(s) PROVE FALSE
    BY <1>3, <2>4 DEF LandThread, LandList, ReadFails
  <2> QED
    BY <1>1, <2>1, <2>2, <2>3, <2>4, QuietSteps
<1> QED
  BY <1>2, <1>3

LEMMA TranscriptMeansThen == Shape' /\ CacheInv' => TranscriptFaithful'
<1>1. Shape /\ CacheInv => TranscriptFaithful
  BY TranscriptMeans
<1> QED
  BY <1>1, PTL

\* An up-to-date answer leaves nothing between what the tab knew and what the server has.
LEMMA LandedThread ==
  ASSUME Shape, ThreadInv, AwaitedInv, Quiet, [Next]_consoleVars, events' = events,
         NEW r \in reads, UpToDate(r), LandThread(r), r.phone = current
  PROVE  PaneAgrees'
<1> USE DEF serverVars, historyVars, paneVars, boundVars
<1>1. r.kind = "thread" /\ r.data.served /\ IsThread(r) /\ current \in Phones /\ current' = current
  BY DEF LandThread, Shape, IsList, IsThread
<1>2. UNCHANGED <<contact, log>> /\ Answer(r, log, overtaken)
  BY <1>1 DEF LandThread, ThreadInv, AnswersInv
<1>3. /\ r.epochs = Epochs /\ r.data.contact = contact[current]
      /\ \A i \in 1..Len(log) : log[i].phone = current /\ log[i].stage = "committed" /\ i > r.after => i \in r.data.ids
  BY <1>1 DEF UpToDate
<1>4. ASSUME NEW f \in Toggles PROVE ~toggle'[f].pending /\ toggle'[f].shown.value = contact'[current'][f].value
  <2>1. ~toggle[f].pending
    BY DEF AwaitedInv, Quiet
  <2>2. r.epochs[f] = toggle[f].epoch /\ toggle[f].epoch \in Nat
    BY <1>3 DEF Epochs, Shape, ToggleState
  <2>3. toggle'[f] = Observed(toggle[f], contact[current][f], r.epochs[f])
    BY <1>3 DEF LandThread
  <2>4. toggle'[f] = Settled(contact[current][f], toggle[f].epoch)
    BY <2>1, <2>2, <2>3 DEF Observed
  <2> QED
    BY <1>1, <1>2, <2>4 DEF Settled
<1>5. \A f \in DOMAIN header' : header'[f] = contact'[current'][f].value
  BY <1>1, <1>2, <1>3 DEF LandThread
<1>6. ASSUME NEW i \in 1..Len(log), log[i].phone = current, log[i].by = "turn", log[i].stage = "committed",
             i \notin overtaken'
      PROVE  i \in Drawn(current)'
  <2>1. PICK e : e = cache[current]
    OBVIOUS
  <2>2. EntryInv(e, current, log, overtaken) /\ log \in Seq(Messages)
    BY <1>1, <2>1 DEF ThreadInv, CacheInv, Shape
  <2>3. PICK m : m = Merged(e, r)
    OBVIOUS
  <2>4. cache'[current] = m
    BY <1>1, <2>1, <2>3 DEF LandThread, ThreadInv, CacheInv
  <2>5. i \in m.seen \cup 1..m.lastId
    <3>1. CASE i > r.after
      <4>1. i \in r.data.ids
        BY <1>3, <1>6, <3>1
      <4> QED
        BY <2>3, <4>1 DEF Merged
    <3>2. CASE ~(i > r.after)
      <4>1. r.after \in Nat /\ i \in Nat /\ i >= 1 /\ r.full \in BOOLEAN /\ (r.full => r.after = 0)
        BY <1>2, LenProperties DEF Answer
      <4>2. ~r.full
        BY <3>2, <4>1
      <4>3. e.lastId \in Nat /\ Held(e, log)
        BY <2>2 DEF EntryInv, Held, Entries
      <4>4. i <= e.lastId
        <5>1. overtaken' = overtaken \cup e.lastId + 1..r.after
          BY <2>1, <4>2 DEF LandThread
        <5> QED
          BY <1>6, <3>2, <4>1, <4>3, <5>1
      <4>5. m = Added(e, r.data.ids \ e.seen)
        BY <2>3, <4>2 DEF Merged, Added
      <4>6. r.data.ids \ e.seen \in SUBSET (1..Len(log))
        BY <1>1, <1>2 DEF Answer
      <4>7. e.lastId <= m.lastId /\ m.lastId \in 0..Len(log)
        BY <2>2, <4>3, <4>5, <4>6, AddedLast
      <4> QED
        BY <4>1, <4>3, <4>4, <4>7
    <3> QED
      BY <3>1, <3>2
  <2>6. Shape' /\ CacheInv'
    BY NextShape, NextCache
  <2>7. TranscriptFaithful'
    BY <2>6, TranscriptMeansThen
  <2> QED
    BY <1>1, <1>2, <1>6, <2>4, <2>5, <2>7 DEF TranscriptFaithful
<1> QED
  BY <1>1, <1>2, <1>4, <1>5, <1>6 DEF PaneAgrees

\* Nothing that lands while all that is in flight is up to date makes the screen disagree again.
LEMMA StillAgrees ==
  ASSUME Shape, ThreadInv, AwaitedInv, Quiet, [Next]_consoleVars, events' = events,
         Agrees, \A r \in reads : UpToDate(r)
  PROVE  Agrees'
<1> USE DEF serverVars, historyVars, paneVars, boundVars
<1>0. events \in Nat /\ overtaken \subseteq overtaken' /\ UNCHANGED <<contact, log, current>>
  BY LateGrows, NextQuiet DEF ThreadInv, PostedInv
<1>1. ASSUME rows' = contact', UNCHANGED <<toggle, header, cache>> PROVE Agrees'
  <2>1. Drawn(current)' = Drawn(current)
    BY <1>0, <1>1 DEF Drawn, Theirs
  <2> QED
    BY <1>0, <1>1, <2>1 DEF Agrees, PaneAgrees
<1>2. rows = contact
  BY DEF Agrees
<1>3. ASSUME Poll \/ LoadConversations \/ Activity \/ Reconnect \/ UNCHANGED consoleVars PROVE Agrees'
  BY <1>0, <1>1, <1>2, <1>3 DEF Poll, LoadConversations, Activity, Reconnect, consoleVars
<1>4. ASSUME NEW r \in reads, Serve(r) \/ ReadFails(r) PROVE Agrees'
  BY <1>0, <1>1, <1>2, <1>4 DEF Serve, ReadFails
<1>5. ASSUME NEW r \in reads, LandList(r) PROVE Agrees'
  <2>1. rows' = contact
    BY <1>5 DEF LandList, UpToDate
  <2> QED
    BY <1>0, <1>1, <1>5, <2>1 DEF LandList
<1>6. ASSUME NEW r \in reads, LandThread(r) PROVE Agrees'
  <2>1. rows' = contact'
    BY <1>0, <1>2, <1>6 DEF LandThread
  <2>2. CASE r.phone = current
    BY <1>6, <2>1, <2>2, LandedThread DEF Agrees
  <2>3. CASE r.phone # current
    BY <1>1, <1>6, <2>1, <2>3 DEF LandThread
  <2> QED
    BY <2>2, <2>3
<1> QED
  BY <1>0, <1>3, <1>4, <1>5, <1>6, QuietSteps

\* Between the acts of customers and agents the console catches up and never falls behind: what it
\* fetches then is up to date and stays so, the next such list or answer of the open thread to
\* land makes the screen agree with the server, button, header and transcript, and once no older
\* fetch is left it agrees for good.
THEOREM ConsoleCatchesUp == Spec => [][CatchesUp]_consoleVars
<1>1. Init => Shape /\ ThreadInv /\ AwaitedInv
  <2> SUFFICES ASSUME Init PROVE AwaitedInv
    BY ShapeInit, InitThread
  <2>1. toggle = [f \in Toggles |-> Settled(contact[Opened][f], 0)]
    BY DEF Init
  <2> QED
    BY <2>1, TogglePending DEF AwaitedInv
<1>2. Shape /\ ThreadInv /\ AwaitedInv /\ [Next]_consoleVars => Shape' /\ ThreadInv' /\ AwaitedInv'
  <2> SUFFICES ASSUME Shape, ThreadInv, AwaitedInv, [Next]_consoleVars
               PROVE  Shape' /\ ThreadInv' /\ AwaitedInv'
    OBVIOUS
  <2>1. Shape' /\ AwaitedInv'
    BY NextShape, NextAwaited
  <2>2. CacheInv' /\ AnswersInv' /\ PostedInv'
    BY NextCache, NextAnswers, NextPosted DEF ThreadInv
  <2> QED
    BY <2>1, <2>2 DEF ThreadInv
<1>3. Shape /\ ThreadInv /\ AwaitedInv /\ [Next]_consoleVars => CatchesUp
  <2> SUFFICES ASSUME Shape, ThreadInv, AwaitedInv, [Next]_consoleVars, Quiet, events' = events
               PROVE  /\ Quiet' /\ UNCHANGED <<serverVars, current>>
                      /\ \A r \in reads' : UpToDate(r)' \/ \E s \in reads : ~UpToDate(s) /\ (r = s \/ Serve(s))
                      /\ \A r \in reads : UpToDate(r) /\ LandList(r) => rows' = contact'
                      /\ \A r \in reads : UpToDate(r) /\ LandThread(r) /\ r.phone = current => PaneAgrees'
                      /\ Agrees /\ (\A r \in reads : UpToDate(r)) => Agrees' /\ \A r \in reads' : UpToDate(r)'
    BY DEF CatchesUp
  <2>1. events \in Nat
    BY DEF ThreadInv, PostedInv
  <2>2. Quiet' /\ UNCHANGED <<serverVars, current>>
    BY <2>1, NextQuiet
  <2>3. \A r \in reads' : UpToDate(r)' \/ \E s \in reads : ~UpToDate(s) /\ (r = s \/ Serve(s))
    BY <2>1, NoneFallsBehind
  <2>4. \A r \in reads : UpToDate(r) /\ LandList(r) => rows' = contact'
    BY <2>2 DEF UpToDate, LandList, serverVars
  <2>5. \A r \in reads : UpToDate(r) /\ LandThread(r) /\ r.phone = current => PaneAgrees'
    BY LandedThread
  <2>6. Agrees /\ (\A r \in reads : UpToDate(r)) => Agrees'
    BY StillAgrees
  <2> QED
    BY <2>2, <2>3, <2>4, <2>5, <2>6
<1> QED
  BY <1>1, <1>2, <1>3, PTL DEF Spec
=============================================================================
