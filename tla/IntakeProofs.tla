---------------------------- MODULE IntakeProofs ----------------------------
(***************************************************************************)
(* Theorems about Intake, for every set of requests and payloads, all      *)
(* limits, and every number of deliveries, faults and late sends.          *)
(***************************************************************************)
EXTENDS Intake, SequenceTheorems, FiniteSetTheorems, WellFoundedInduction, TLAPS

(***************************************************************************)
(* What a request that sends, and what the history of a message, promise.  *)
(***************************************************************************)
Sends(r, m) == InStage(r, "sending") /\ Message(r) = m

\* The request has an answer to send, not only the news that something went wrong.
HasAnswer(r) == request[r].replies # <<>> /\ Head(request[r].replies) # Error

\* How often an answer was, or still may be, carried out.
ShownAt(m, n) == {i \in 1..Len(shown[m]) : shown[m][i] = n}
LateOf(m, n) == {s \in late : s[1] = m /\ s[2] = n}
Tries(m, n) == Cardinality(ShownAt(m, n)) + Cardinality(LateOf(m, n))

\* A sending request holds what is left of the answers, in order, or the error alone.
Queued(r) ==
    /\ request[r].replies \in Seq(Nat)
    /\ request[r].attempt \in 1..MaxAttempts
    /\ \A i, j \in 1..Len(request[r].replies) : i < j => request[r].replies[i] < request[r].replies[j]
    /\ request[r].replies # <<>> /\ ~HasAnswer(r) => Len(request[r].replies) = 1

\* It is the only one that answers the message, which is on record; nothing it has yet to send is
\* out, and the next answer was tried as often as the request counts.
Claimed(r, m) ==
    /\ m \in rows
    /\ \A q \in Requests : Sends(q, m) /\ HasAnswer(q) => q = r
    /\ \A i \in 1..Len(shown[m]) :
          /\ shown[m][i] <= Head(request[r].replies)
          /\ m \notin unclear => shown[m][i] < Head(request[r].replies)
    /\ \A s \in late : s[1] = m => s[2] <= Head(request[r].replies)
    /\ Tries(m, Head(request[r].replies)) < request[r].attempt

\* Nothing is shown, or may be, of what is not on record; in order unless a send's fate is unknown.
Told(m) ==
    /\ \A i \in 1..Len(shown[m]) : shown[m][i] # Error => m \in rows /\ Allows(m.sender)
    /\ \A s \in late : s[1] = m =>
          /\ s[2] \in Nat /\ m \in unclear
          /\ s[2] # Error => m \in rows /\ Allows(m.sender)
    /\ m \notin unclear =>
          \A i, j \in 1..Len(shown[m]) :
             i < j /\ shown[m][i] # Error /\ shown[m][j] # Error => shown[m][i] < shown[m][j]
    /\ \A n \in Nat \ {0} : Tries(m, n) <= MaxAttempts

MessageInv(m) ==
    /\ Told(m)
    /\ \A r \in Requests : Sends(r, m) => Queued(r) /\ (HasAnswer(r) => Claimed(r, m))

SendingFields == {"at", "payload", "queue", "refused", "replies", "attempt", "raises"}

Shape ==
    /\ shown \in [Messages -> Seq(Nat)]
    /\ request = [r \in Requests |-> request[r]]
    /\ \A r \in Requests : InStage(r, "sending") => DOMAIN request[r] = SendingFields
    /\ IsFiniteSet(late)

ShownInv == Shape /\ \A m \in Messages : MessageInv(m)

-----------------------------------------------------------------------------
\* Only what is shown of a message, and by one, changes when an answer is shown.
LEMMA ShowGrows ==
  ASSUME shown \in [Messages -> Seq(Nat)], NEW m \in Messages, NEW n \in Nat, Show(m, n)
  PROVE  /\ shown' \in [Messages -> Seq(Nat)]
         /\ \A x \in Messages \ {m} : shown'[x] = shown[x]
         /\ Len(shown'[m]) = Len(shown[m]) + 1 /\ Len(shown[m]) \in Nat
         /\ \A i \in 1..Len(shown[m]) : shown'[m][i] = shown[m][i]
         /\ shown'[m][Len(shown[m]) + 1] = n
<1>1. shown' = [shown EXCEPT ![m] = Append(shown[m], n)]
  BY DEF Show
<1>2. shown[m] \in Seq(Nat)
  OBVIOUS
<1>3. /\ Append(shown[m], n) \in Seq(Nat)
      /\ Len(Append(shown[m], n)) = Len(shown[m]) + 1 /\ Len(shown[m]) \in Nat
      /\ \A i \in 1..Len(shown[m]) : Append(shown[m], n)[i] = shown[m][i]
      /\ Append(shown[m], n)[Len(shown[m]) + 1] = n
  BY <1>2, AppendProperties, LenProperties
<1>4. shown'[m] = Append(shown[m], n)
  BY <1>1
<1>5. shown' \in [Messages -> Seq(Nat)]
  BY <1>1, <1>3
<1>6. \A x \in Messages \ {m} : shown'[x] = shown[x]
  BY <1>1
<1> QED
  BY <1>3, <1>4, <1>5, <1>6

\* An answer that is shown is shown once more; no other is.
LEMMA ShowCounts ==
  ASSUME shown \in [Messages -> Seq(Nat)], NEW m \in Messages, NEW n \in Nat, Show(m, n),
         NEW k
  PROVE  /\ Cardinality(ShownAt(m, k)) \in Nat
         /\ Cardinality(ShownAt(m, k)') = Cardinality(ShownAt(m, k)) + (IF k = n THEN 1 ELSE 0)
<1> DEFINE l == Len(shown[m])
<1>1. /\ l \in Nat /\ Len(shown'[m]) = l + 1
      /\ \A i \in 1..l : shown'[m][i] = shown[m][i]
      /\ shown'[m][l + 1] = n
  BY ShowGrows
<1>2. IsFiniteSet(1..l) /\ ShownAt(m, k) \in SUBSET (1..l)
  BY <1>1, FS_Interval DEF ShownAt
<1>3. IsFiniteSet(ShownAt(m, k)) /\ Cardinality(ShownAt(m, k)) \in Nat
  BY <1>2, FS_Subset, FS_CardinalityType
<1>4. ShownAt(m, k)' = {i \in 1..l + 1 : shown'[m][i] = k}
  BY <1>1 DEF ShownAt
<1>5. 1..l + 1 = (1..l) \cup {l + 1} /\ l + 1 \notin 1..l
  BY <1>1
<1>6. ShownAt(m, k)' = IF k = n THEN ShownAt(m, k) \cup {l + 1} ELSE ShownAt(m, k)
  BY <1>1, <1>4, <1>5 DEF ShownAt
<1>7. l + 1 \notin ShownAt(m, k)
  BY <1>5, <1>2
<1>8. CASE k = n
  BY <1>3, <1>6, <1>7, <1>8, FS_AddElement
<1>9. CASE k # n
  BY <1>3, <1>6, <1>9
<1> QED
  BY <1>8, <1>9

\* Tries are numbers.
LEMMA TriesCounted ==
  ASSUME Shape, NEW m \in Messages, NEW n
  PROVE  /\ Cardinality(ShownAt(m, n)) \in Nat
         /\ IsFiniteSet(LateOf(m, n)) /\ Cardinality(LateOf(m, n)) \in Nat
         /\ Tries(m, n) \in Nat
<1>1. shown[m] \in Seq(Nat) /\ IsFiniteSet(late)
  BY DEF Shape
<1>2. Len(shown[m]) \in Nat
  BY <1>1, LenProperties
<1>3. IsFiniteSet(1..Len(shown[m])) /\ ShownAt(m, n) \in SUBSET (1..Len(shown[m]))
  BY <1>2, FS_Interval DEF ShownAt
<1>4. Cardinality(ShownAt(m, n)) \in Nat
  BY <1>3, FS_Subset, FS_CardinalityType
<1>5. LateOf(m, n) \in SUBSET late
  BY DEF LateOf
<1>6. IsFiniteSet(LateOf(m, n)) /\ Cardinality(LateOf(m, n)) \in Nat
  BY <1>1, <1>5, FS_Subset, FS_CardinalityType
<1> QED
  BY <1>4, <1>6 DEF Tries

\* What is neither shown nor may be has not been tried.
LEMMA Untried ==
  ASSUME NEW m, NEW n,
         \A i \in 1..Len(shown[m]) : shown[m][i] # n,
         \A s \in late : s[1] = m => s[2] # n
  PROVE  Tries(m, n) = 0
<1>1. ShownAt(m, n) = {} /\ LateOf(m, n) = {}
  BY DEF ShownAt, LateOf
<1> QED
  BY <1>1, FS_EmptySet DEF Tries

-----------------------------------------------------------------------------
\* A message that no step is about keeps what is promised of it.
LEMMA Untouched ==
  ASSUME NEW m \in Messages, MessageInv(m),
         shown'[m] = shown[m],
         \A s : s[1] = m => (s \in late' <=> s \in late),
         m \in unclear' <=> m \in unclear,
         m \in rows' <=> m \in rows,
         \A r \in Requests : request'[r] = request[r] \/ ~Sends(r, m)'
  PROVE  MessageInv(m)'
<1>1. \A n : ShownAt(m, n)' = ShownAt(m, n) /\ LateOf(m, n)' = LateOf(m, n)
  BY DEF ShownAt, LateOf
<1>2. \A n : Tries(m, n)' = Tries(m, n)
  BY <1>1 DEF Tries
<1>3. Told(m)'
  <2>1. Told(m)
    BY DEF MessageInv
  <2> QED
    BY <2>1, <1>2 DEF Told, Allows
<1>4. ASSUME NEW r \in Requests, Sends(r, m)'
      PROVE  Sends(r, m) /\ request'[r] = request[r]
  BY <1>4 DEF Sends, InStage, Message
<1>5. ASSUME NEW r \in Requests, Sends(r, m)'
      PROVE  Queued(r)' /\ (HasAnswer(r)' => Claimed(r, m)')
  <2>1. Sends(r, m) /\ request'[r] = request[r]
    BY <1>4, <1>5
  <2>2. Queued(r) /\ (HasAnswer(r) => Claimed(r, m))
    BY <2>1 DEF MessageInv
  <2>3. HasAnswer(r)' <=> HasAnswer(r)
    BY <2>1 DEF HasAnswer
  <2>4. Queued(r)'
    BY <2>1, <2>2, <2>3 DEF Queued
  <2>5. ASSUME HasAnswer(r)' PROVE Claimed(r, m)'
    <3>1. Claimed(r, m)
      BY <2>2, <2>3, <2>5
    <3>2. \A q \in Requests : Sends(q, m)' /\ HasAnswer(q)' => q = r
      <4> SUFFICES ASSUME NEW q \in Requests, Sends(q, m)', HasAnswer(q)' PROVE q = r
        OBVIOUS
      <4>1. Sends(q, m) /\ request'[q] = request[q]
        BY <1>4
      <4>2. HasAnswer(q)
        BY <4>1 DEF HasAnswer
      <4> QED
        BY <3>1, <4>1, <4>2 DEF Claimed
    <3>3. Tries(m, Head(request[r].replies))' = Tries(m, Head(request[r].replies))
      BY <2>1 DEF Tries, ShownAt, LateOf
    <3> QED
      BY <2>1, <3>1, <3>2, <3>3 DEF Claimed
  <2> QED
    BY <2>4, <2>5
<1> QED
  BY <1>3, <1>5 DEF MessageInv

\* A step that sends nothing, and in which no request begins to send, keeps the invariant.
LEMMA Quiet ==
  ASSUME ShownInv, UNCHANGED <<rows, outVars>>,
         request' = [r \in Requests |-> request'[r]],
         \A r \in Requests : request'[r] = request[r] \/ request'[r].at # "sending"
  PROVE  ShownInv'
<1>1. shown' = shown /\ late' = late /\ unclear' = unclear /\ rows' = rows
  BY DEF outVars
<1>2. Shape'
  BY <1>1 DEF ShownInv, Shape, InStage
<1>3. ASSUME NEW m \in Messages PROVE MessageInv(m)'
  <2>1. MessageInv(m)
    BY DEF ShownInv
  <2>2. \A r \in Requests : request'[r] = request[r] \/ ~Sends(r, m)'
    BY DEF Sends, InStage
  <2> QED
    BY <1>1, <2>1, <2>2, Untouched
<1> QED
  BY <1>2, <1>3 DEF ShownInv

-----------------------------------------------------------------------------
\* What a try to send n does to its message: n is shown, or may be later, or neither.
LEMMA TryEffects ==
  ASSUME Shape, NEW m \in Messages, NEW n \in Nat, NEW a,
         \/ UNCHANGED <<shown, late>>
         \/ Show(m, n) /\ UNCHANGED late
         \/ late' = late \cup {<<m, n, a>>} /\ UNCHANGED shown
  PROVE  /\ shown' \in [Messages -> Seq(Nat)] /\ IsFiniteSet(late')
         /\ \A x \in Messages \ {m} : /\ shown'[x] = shown[x]
                                      /\ \A s : s[1] = x => (s \in late' <=> s \in late)
         /\ \A i \in 1..Len(shown'[m]) :
               (i \in 1..Len(shown[m]) /\ shown'[m][i] = shown[m][i])
               \/ (i = Len(shown[m]) + 1 /\ shown'[m][i] = n /\ Show(m, n))
         /\ \A s \in late' : s \in late \/ (s[2] = n /\ UNCHANGED shown /\ late' # late)
         /\ \A k : k # n => Tries(m, k)' = Tries(m, k)
         /\ Tries(m, n)' \in Nat /\ Tries(m, n)' <= Tries(m, n) + 1
         /\ UNCHANGED <<shown, late>> => Tries(m, n)' = Tries(m, n)
<1>1. shown \in [Messages -> Seq(Nat)] /\ IsFiniteSet(late)
  BY DEF Shape
<1>2. CASE UNCHANGED <<shown, late>>
  <2>1. \A k : Tries(m, k)' = Tries(m, k)
    BY <1>2 DEF Tries, ShownAt, LateOf
  <2>2. Tries(m, n) \in Nat
    BY TriesCounted
  <2>3. Tries(m, n)' \in Nat /\ Tries(m, n)' <= Tries(m, n) + 1
    BY <2>1, <2>2
  <2> QED
    BY <1>1, <1>2, <2>1, <2>3
<1>3. CASE Show(m, n) /\ UNCHANGED late
  <2>1. /\ shown' \in [Messages -> Seq(Nat)]
        /\ \A x \in Messages \ {m} : shown'[x] = shown[x]
        /\ Len(shown'[m]) = Len(shown[m]) + 1 /\ Len(shown[m]) \in Nat
        /\ \A i \in 1..Len(shown[m]) : shown'[m][i] = shown[m][i]
        /\ shown'[m][Len(shown[m]) + 1] = n
    BY <1>1, <1>3, ShowGrows
  <2>2. \A k : LateOf(m, k)' = LateOf(m, k)
    BY <1>3 DEF LateOf
  <2>3. ASSUME NEW k
        PROVE  /\ Tries(m, k)' = Tries(m, k) + (IF k = n THEN 1 ELSE 0)
               /\ Tries(m, k) \in Nat
    <3>1. /\ Cardinality(ShownAt(m, k)) \in Nat
          /\ Cardinality(ShownAt(m, k)') = Cardinality(ShownAt(m, k)) + (IF k = n THEN 1 ELSE 0)
      BY <1>1, <1>3, ShowCounts
    <3>2. Cardinality(LateOf(m, k)) \in Nat
      BY TriesCounted
    <3>3. Tries(m, k)' = Cardinality(ShownAt(m, k)') + Cardinality(LateOf(m, k))
      BY <2>2 DEF Tries
    <3>4. Tries(m, k) = Cardinality(ShownAt(m, k)) + Cardinality(LateOf(m, k))
      BY DEF Tries
    <3> QED
      BY <3>1, <3>2, <3>3, <3>4
  <2>4. \A i \in 1..Len(shown'[m]) : i \in 1..Len(shown[m]) \/ i = Len(shown[m]) + 1
    BY <2>1
  <2>5. \A k : k # n => Tries(m, k)' = Tries(m, k)
    <3> TAKE k
    <3> HAVE k # n
    <3> QED
      BY <2>3
  <2>6. Tries(m, n)' \in Nat /\ Tries(m, n)' <= Tries(m, n) + 1
    BY <2>3
  <2>7. ~ UNCHANGED shown
    BY <2>1
  <2> QED
    BY <1>1, <1>3, <2>1, <2>4, <2>5, <2>6, <2>7
<1>4. CASE late' = late \cup {<<m, n, a>>} /\ UNCHANGED shown /\ late' # late
  <2> DEFINE send == <<m, n, a>>
  <2>1. send \notin late /\ send[1] = m /\ send[2] = n
    BY <1>4
  <2>2. IsFiniteSet(late')
    BY <1>1, <1>4, FS_AddElement
  <2>3. \A s : s[1] # m => (s \in late' <=> s \in late)
    BY <1>4, <2>1
  <2>4. \A k : ShownAt(m, k)' = ShownAt(m, k)
    BY <1>4 DEF ShownAt
  <2>5. \A k : k # n => LateOf(m, k)' = LateOf(m, k)
    BY <1>4, <2>1 DEF LateOf
  <2>6. LateOf(m, n)' = LateOf(m, n) \cup {send} /\ send \notin LateOf(m, n)
    BY <1>4, <2>1 DEF LateOf
  <2>7. /\ IsFiniteSet(LateOf(m, n)) /\ Cardinality(LateOf(m, n)) \in Nat
        /\ Cardinality(ShownAt(m, n)) \in Nat
    BY TriesCounted
  <2>8. Cardinality(LateOf(m, n)') = Cardinality(LateOf(m, n)) + 1
    BY <2>6, <2>7, FS_AddElement
  <2>9. Tries(m, n)' = Cardinality(ShownAt(m, n)) + Cardinality(LateOf(m, n)')
    BY <2>4 DEF Tries
  <2>10. Tries(m, n)' \in Nat /\ Tries(m, n)' <= Tries(m, n) + 1
    BY <2>7, <2>8, <2>9 DEF Tries
  <2>11. \A k : k # n => Tries(m, k)' = Tries(m, k)
    BY <2>4, <2>5 DEF Tries
  <2>12. \A s \in late' : s \in late \/ s[2] = n
    BY <1>4, <2>1
  <2>13. \A i \in 1..Len(shown'[m]) : i \in 1..Len(shown[m]) /\ shown'[m][i] = shown[m][i]
    BY <1>4
  <2> QED
    BY <1>1, <1>4, <2>2, <2>3, <2>10, <2>11, <2>12, <2>13
<1> QED
  BY <1>2, <1>3, <1>4

\* A try leaves the request as it was, but for the answers left and the attempts.
LEMMA TriedRequest ==
  ASSUME Shape, NEW r \in Requests, InStage(r, "sending"), Sent(r) \/ SendFailed(r)
  PROVE  /\ request' = [q \in Requests |-> request'[q]]
         /\ \A q \in Requests \ {r} : request'[q] = request[q]
         /\ DOMAIN request'[r] = SendingFields
         /\ request'[r].at = "sending" /\ request'[r].queue = request[r].queue /\ request'[r].payload = request[r].payload
         /\ request'[r].refused = request[r].refused
         /\ \/ request'[r].replies = Tail(request[r].replies) /\ request'[r].attempt = 1
            \/ /\ request'[r].replies = request[r].replies /\ request[r].attempt # MaxAttempts
               /\ request'[r].attempt = request[r].attempt + 1
         /\ Sent(r) => request'[r].replies = Tail(request[r].replies)
<1>1. request = [q \in Requests |-> request[q]] /\ DOMAIN request[r] = SendingFields
      /\ request[r].at = "sending"
  BY DEF Shape, InStage
<1>2. CASE Sent(r)
  <2>1. request' = [request EXCEPT ![r].replies = Tail(request[r].replies), ![r].attempt = 1]
    BY <1>1, <1>2 DEF Sent
  <2> QED
    BY <1>1, <1>2, <2>1 DEF SendingFields
<1>3. CASE ~Sent(r)
  <2>1. request' = [request EXCEPT ![r].attempt = request[r].attempt + 1] /\ request[r].attempt # MaxAttempts
    BY <1>1, <1>3 DEF SendFailed
  <2> QED
    BY <1>1, <1>3, <2>1 DEF SendingFields
<1> QED
  BY <1>2, <1>3
-----------------------------------------------------------------------------
(***************************************************************************)
(* The steps.                                                              *)
(***************************************************************************)
\* Nothing has been shown or recorded to begin with.
LEMMA InitShown == IntakeInit => ShownInv
<1> SUFFICES ASSUME IntakeInit PROVE ShownInv
  OBVIOUS
<1>1. shown = [m \in Messages |-> <<>>] /\ late = {} /\ request = [r \in Requests |-> Idle]
  BY DEF IntakeInit
<1>2. \A r \in Requests : request[r].at # "sending"
  BY <1>1 DEF Idle
<1>3. shown \in [Messages -> Seq(Nat)] /\ \A m \in Messages : Len(shown[m]) = 0
  BY <1>1, EmptySeq
<1>4. Shape
  BY <1>1, <1>2, <1>3, FS_EmptySet DEF Shape, InStage
<1>5. ASSUME NEW m \in Messages PROVE MessageInv(m)
  <2>1. \A n : Tries(m, n) = 0
    BY <1>1, <1>3, Untried
  <2>2. Told(m)
    BY <1>1, <1>3, <2>1 DEF Told, MaxAttempts
  <2> QED
    BY <1>2, <2>2 DEF MessageInv, Sends, InStage
<1> QED
  BY <1>4, <1>5 DEF ShownInv

\* A turn makes a request send: the answers to a message not on record before, or nothing, or
\* the error.
LEMMA TurnStep ==
  ASSUME ShownInv, NEW r \in Requests, Turn(r)
  PROVE  LET m == Message(r)
         IN  /\ UNCHANGED outVars
             /\ request' = [q \in Requests |-> request'[q]]
             /\ \A q \in Requests \ {r} : request'[q] = request[q]
             /\ DOMAIN request'[r] = SendingFields
             /\ request'[r].at = "sending" /\ request'[r].queue = request[r].queue /\ request'[r].payload = request[r].payload
             /\ request'[r].attempt = 1
             /\ \/ m \notin rows /\ rows' = rows \cup {m} /\ request'[r].replies = [i \in 1..m.replies |-> i]
                \/ rows' = rows /\ request'[r].replies = <<>>
                \/ rows' = rows /\ request'[r].replies = <<Error>>
<1> DEFINE m == Message(r)
           S(replies, raises) == Sending(r, replies, raises)
<1>1. request = [q \in Requests |-> request[q]]
  BY DEF ShownInv, Shape
<1>2. \/ m \in rows /\ Sending(r, <<>>, FALSE) /\ rows' = rows
      \/ m \notin rows /\ rows' = rows \cup {m} /\ Sending(r, [i \in 1..m.replies |-> i], FALSE)
      \/ m \notin rows /\ rows' = rows \cup {m} /\ Sending(r, [i \in 1..m.replies |-> i], TRUE)
      \/ rows' = rows /\ Sending(r, <<Error>>, FALSE)
  BY DEF Turn
<1>3. ASSUME NEW replies, NEW raises, Sending(r, replies, raises)
      PROVE  /\ request' = [q \in Requests |-> request'[q]]
             /\ \A q \in Requests \ {r} : request'[q] = request[q]
             /\ DOMAIN request'[r] = SendingFields
             /\ request'[r].at = "sending" /\ request'[r].queue = request[r].queue /\ request'[r].payload = request[r].payload
             /\ request'[r].attempt = 1 /\ request'[r].replies = replies
  <2>1. request' = [request EXCEPT ![r] =
                      [at |-> "sending", payload |-> request[r].payload, queue |-> request[r].queue,
                       refused |-> request[r].refused, replies |-> replies, attempt |-> 1, raises |-> raises]]
    BY <1>3 DEF Sending
  <2> QED
    BY <1>1, <2>1 DEF SendingFields
<1>4. UNCHANGED outVars
  BY DEF Turn
<1> QED
  BY <1>2, <1>3, <1>4

\* The answers a turn makes are numbered from one.
LEMMA Numbered ==
  ASSUME NEW n \in Nat
  PROVE  LET s == [i \in 1..n |-> i]
         IN  /\ s \in Seq(Nat) /\ Len(s) = n
             /\ \A i, j \in 1..n : i < j => s[i] < s[j]
             /\ s # <<>> => Head(s) = 1
<1> DEFINE s == [i \in 1..n |-> i]
<1>1. s \in Seq(Nat)
  OBVIOUS
<1>2. Len(s) = n
  BY <1>1
<1>3. s # <<>> => Head(s) = s[1] /\ n # 0
  BY <1>1, <1>2, EmptySeq
<1>4. s # <<>> => Head(s) = 1
  BY <1>3
<1> QED
  BY <1>1, <1>2, <1>4

\* A turn finds a message on record, and makes nobody answer it, or makes its request the first
\* to answer it.
LEMMA TurnKeeps ==
  ASSUME ShownInv, NEW r \in Requests, Turn(r)
  PROVE  ShownInv'
<1> DEFINE m == Message(r)
<1>1. /\ shown' = shown /\ late' = late /\ unclear' = unclear
      /\ request' = [q \in Requests |-> request'[q]]
      /\ \A q \in Requests \ {r} : request'[q] = request[q]
      /\ DOMAIN request'[r] = SendingFields
      /\ request'[r].at = "sending" /\ request'[r].queue = request[r].queue /\ request'[r].payload = request[r].payload
      /\ request'[r].attempt = 1
  BY TurnStep DEF outVars
<1>2. \/ m \notin rows /\ rows' = rows \cup {m} /\ request'[r].replies = [i \in 1..m.replies |-> i]
      \/ rows' = rows /\ request'[r].replies = <<>>
      \/ rows' = rows /\ request'[r].replies = <<Error>>
  BY TurnStep
<1>3. Shape'
  BY <1>1 DEF ShownInv, Shape, InStage
<1>4. m' = m
  BY <1>1 DEF Message
<1>5. ASSUME NEW x \in Messages, x # m PROVE MessageInv(x)'
  <2>1. MessageInv(x)
    BY DEF ShownInv
  <2>2. \A q \in Requests : request'[q] = request[q] \/ ~Sends(q, x)'
    BY <1>1, <1>4, <1>5 DEF Sends
  <2>3. x \in rows' <=> x \in rows
    BY <1>2, <1>5
  <2> QED
    BY <1>1, <2>1, <2>2, <2>3, Untouched
<1>6. ASSUME m \in Messages PROVE MessageInv(m)'
  <2>1. MessageInv(m) /\ m.replies \in Nat
    BY <1>6, IntakeAssumption DEF ShownInv
  <2>2. \A n : Tries(m, n)' = Tries(m, n)
    BY <1>1, <1>4 DEF Tries, ShownAt, LateOf
  <2>3. Told(m)'
    <3>1. Told(m)
      BY <2>1 DEF MessageInv
    <3> HIDE DEF m
    <3> QED
      BY <3>1, <1>1, <1>2, <1>4, <2>2 DEF Told, Allows
  <2>4. Queued(r)' /\ (HasAnswer(r)' => m \notin rows /\ m \in rows' /\ Head(request'[r].replies) = 1)
    <3>1. CASE m \notin rows /\ rows' = rows \cup {m} /\ request'[r].replies = [i \in 1..m.replies |-> i]
      <4>1. /\ request'[r].replies \in Seq(Nat) /\ Len(request'[r].replies) = m.replies
            /\ \A i, j \in 1..m.replies : i < j => request'[r].replies[i] < request'[r].replies[j]
            /\ request'[r].replies # <<>> => Head(request'[r].replies) = 1
        BY <2>1, <3>1, Numbered
      <4>2. request'[r].replies # <<>> => HasAnswer(r)'
        BY <4>1 DEF HasAnswer, Error
      <4>3. Queued(r)'
        BY <1>1, <4>1, <4>2 DEF Queued, MaxAttempts
      <4> QED
        BY <3>1, <4>1, <4>3 DEF HasAnswer
    <3>2. CASE rows' = rows /\ request'[r].replies = <<>>
      <4>1. request'[r].replies \in Seq(Nat) /\ Len(request'[r].replies) = 0
        BY <3>2, EmptySeq
      <4> QED
        BY <1>1, <3>2, <4>1 DEF Queued, HasAnswer, MaxAttempts
    <3>3. CASE rows' = rows /\ request'[r].replies = <<Error>>
      <4>1. /\ request'[r].replies \in Seq(Nat) /\ Len(request'[r].replies) = 1
            /\ Head(request'[r].replies) = Error
        BY <3>3 DEF Error
      <4> QED
        BY <1>1, <4>1 DEF Queued, HasAnswer, MaxAttempts
    <3> QED
      BY <1>2, <3>1, <3>2, <3>3
  <2>5. ASSUME HasAnswer(r)' PROVE Claimed(r, m)'
    <3>1. m \notin rows /\ m \in rows' /\ Head(request'[r].replies) = 1
      BY <2>4, <2>5
    <3>2. Told(m)
      BY <2>1 DEF MessageInv
    <3>3. \A i \in 1..Len(shown[m]) : shown[m][i] = Error
      BY <3>1, <3>2 DEF Told
    <3>4. \A s \in late : s[1] = m => s[2] = Error
      BY <3>1, <3>2 DEF Told
    <3>5. Tries(m, 1) = 0
      BY <3>3, <3>4, Untried DEF Error
    <3>6. \A q \in Requests : Sends(q, m)' /\ HasAnswer(q)' => q = r
      <4> SUFFICES ASSUME NEW q \in Requests, Sends(q, m)', HasAnswer(q)', q # r PROVE FALSE
        OBVIOUS
      <4>1. request'[q] = request[q]
        BY <1>1
      <4>2. Sends(q, m) /\ HasAnswer(q)
        BY <4>1, <1>4 DEF Sends, HasAnswer, InStage, Message
      <4> QED
        BY <2>1, <3>1, <4>2 DEF MessageInv, Claimed
    <3>7. Tries(m, Head(request[r].replies))' < 1
      <4>1. Tries(m, Head(request[r].replies))' = Tries(m, 1)
        BY <3>1, <1>1, <1>4 DEF Tries, ShownAt, LateOf
      <4> QED
        BY <3>5, <4>1
    <3> QED
      BY <1>1, <1>4, <3>1, <3>3, <3>4, <3>6, <3>7 DEF Claimed, Error
  <2>6. ASSUME NEW q \in Requests \ {r}, Sends(q, m)'
        PROVE  Queued(q)' /\ (HasAnswer(q)' => Claimed(q, m)')
    <3>1. request'[q] = request[q]
      BY <1>1
    <3>2. Sends(q, m)
      BY <3>1, <2>6, <1>4 DEF Sends, InStage, Message
    <3>3. Queued(q) /\ (HasAnswer(q) => Claimed(q, m))
      BY <2>1, <3>2 DEF MessageInv
    <3>4. HasAnswer(q)' <=> HasAnswer(q)
      BY <3>1 DEF HasAnswer
    <3>5. Queued(q)'
      BY <3>1, <3>3, <3>4 DEF Queued
    <3>6. ASSUME HasAnswer(q)' PROVE Claimed(q, m)'
      <4>1. Claimed(q, m)
        BY <3>3, <3>4, <3>6
      <4>2. m \in rows /\ m \in rows'
        BY <4>1, <1>2 DEF Claimed
      <4>3. ~HasAnswer(r)'
        BY <2>4, <4>2
      <4>4. \A p \in Requests : Sends(p, m)' /\ HasAnswer(p)' => p = q
        <5> SUFFICES ASSUME NEW p \in Requests, Sends(p, m)', HasAnswer(p)' PROVE p = q
          OBVIOUS
        <5>1. p # r
          BY <4>3
        <5>2. Sends(p, m) /\ HasAnswer(p)
          BY <1>1, <5>1, <1>4 DEF Sends, HasAnswer, InStage, Message
        <5> QED
          BY <4>1, <5>2 DEF Claimed
      <4>5. Tries(m, Head(request[q].replies))' = Tries(m, Head(request[q].replies))
        BY <3>1, <1>1, <1>4 DEF Tries, ShownAt, LateOf
      <4> QED
        BY <1>1, <1>4, <3>1, <4>1, <4>2, <4>4, <4>5 DEF Claimed
    <3> QED
      BY <3>5, <3>6
  <2> QED
    BY <2>3, <2>4, <2>5, <2>6, <1>4 DEF MessageInv
<1>7. ASSUME NEW x \in Messages PROVE MessageInv(x)'
  BY <1>4, <1>5, <1>6
<1> QED
  BY <1>3, <1>7 DEF ShownInv

\* A send is tried, and its answer is shown, or may be shown later, or neither.  What it is worth
\* to the message depends on whether it is an answer or the error.
LEMMA SendStep ==
  ASSUME ShownInv, NEW r \in Requests, Send(r)
  PROVE  LET m == Message(r)
             n == Head(request[r].replies)
         IN  /\ InStage(r, "sending") /\ request[r].replies # <<>>
             /\ Sent(r) \/ SendFailed(r)
             /\ UNCHANGED rows
             /\ unclear \subseteq unclear' /\ unclear' \subseteq unclear \cup {m}
             /\ UNCHANGED <<shown, late>> \/ Allows(m.sender)
             /\ m \in unclear' \/ (late' = late /\ (shown' = shown \/ Sent(r)))
             /\ \/ UNCHANGED <<shown, late>>
                \/ Show(m, n) /\ UNCHANGED late
                \/ late' = late \cup {<<m, n, request[r].attempt>>} /\ UNCHANGED shown
<1> DEFINE m == Message(r)
           n == Head(request[r].replies)
<1>1. InStage(r, "sending") /\ request[r].replies # <<>> /\ UNCHANGED rows
  BY DEF Send
<1>2. CASE ~Allows(m.sender) /\ Sent(r) /\ UNCHANGED <<outVars, faults>>
  BY <1>1, <1>2 DEF outVars
<1>3. CASE Allows(m.sender) /\ Show(m, n) /\ Sent(r) /\ UNCHANGED <<late, unclear, faults>>
  BY <1>1, <1>3
<1>4. CASE (SendFailed(r) \/ Sent(r)) /\ UNCHANGED outVars
  BY <1>1, <1>4 DEF outVars
<1>5. CASE /\ Allows(m.sender) /\ SendFailed(r) /\ unclear' = unclear \cup {m}
           /\ \/ Show(m, n) /\ UNCHANGED late
              \/ late' = late \cup {<<m, n, request[r].attempt>>} /\ UNCHANGED shown
  BY <1>1, <1>5
<1> QED
  BY <1>2, <1>3, <1>4, <1>5 DEF Send

LEMMA SendKeeps ==
  ASSUME ShownInv, NEW r \in Requests, Send(r)
  PROVE  ShownInv'
<1> DEFINE m == Message(r)
           n == Head(request[r].replies)
           a == request[r].attempt
<1>1. /\ InStage(r, "sending") /\ request[r].replies # <<>>
      /\ rows' = rows /\ unclear \subseteq unclear' /\ unclear' \subseteq unclear \cup {m}
      /\ UNCHANGED <<shown, late>> \/ Allows(m.sender)
      /\ m \in unclear' \/ (late' = late /\ (shown' = shown \/ Sent(r)))
  BY SendStep
<1>2. \/ UNCHANGED <<shown, late>>
      \/ Show(m, n) /\ UNCHANGED late
      \/ late' = late \cup {<<m, n, a>>} /\ UNCHANGED shown
  BY SendStep
<1>3. /\ request' = [q \in Requests |-> request'[q]]
      /\ \A q \in Requests \ {r} : request'[q] = request[q]
      /\ DOMAIN request'[r] = SendingFields
      /\ request'[r].at = "sending" /\ request'[r].queue = request[r].queue /\ request'[r].payload = request[r].payload
      /\ \/ request'[r].replies = Tail(request[r].replies) /\ request'[r].attempt = 1
         \/ /\ request'[r].replies = request[r].replies /\ a # MaxAttempts
            /\ request'[r].attempt = a + 1
      /\ Sent(r) => request'[r].replies = Tail(request[r].replies)
  BY SendStep, TriedRequest DEF ShownInv
<1>4. m' = m /\ Sends(r, m)' /\ Sends(r, m)
  BY <1>1, <1>3 DEF Message, Sends, InStage
<1>5. ASSUME NEW x \in Messages, x # m, shown'[x] = shown[x],
             \A s : s[1] = x => (s \in late' <=> s \in late)
      PROVE  MessageInv(x)'
  <2>1. MessageInv(x)
    BY DEF ShownInv
  <2>2. \A q \in Requests : request'[q] = request[q] \/ ~Sends(q, x)'
    BY <1>3, <1>4, <1>5 DEF Sends
  <2>3. x \in unclear' <=> x \in unclear
    BY <1>1, <1>5
  <2> QED
    BY <1>1, <1>5, <2>1, <2>2, <2>3, Untouched
<1>6. Shape
  BY DEF ShownInv
<1>7. CASE m \notin Messages
  <2>1. shown' = shown
    BY <1>2, <1>6, <1>7 DEF Show, Shape
  <2>2. \A s : s[1] # m => (s \in late' <=> s \in late)
    BY <1>2
  <2>3. IsFiniteSet(late')
    <3>1. IsFiniteSet(late) /\ IsFiniteSet(late \cup {<<m, n, a>>})
      BY <1>6, FS_AddElement DEF Shape
    <3> QED
      BY <1>2, <3>1
  <2>4. Shape'
    BY <1>3, <1>6, <2>1, <2>3 DEF Shape, InStage
  <2> QED
    BY <1>5, <1>7, <2>1, <2>2, <2>4 DEF ShownInv
<1>8. ASSUME NEW c \in Messages, c = m, NEW k \in Nat, k = n, NEW b \in 1..MaxAttempts, b = a
      PROVE  ShownInv'
  <2>1. /\ Sends(r, c) /\ Sends(r, c)' /\ MessageInv(c) /\ Told(c)
        /\ Queued(r) /\ (HasAnswer(r) => Claimed(r, c))
    BY <1>4, <1>8 DEF ShownInv, MessageInv
  <2>2. \/ UNCHANGED <<shown, late>>
        \/ Show(c, k) /\ UNCHANGED late
        \/ late' = late \cup {<<c, k, b>>} /\ UNCHANGED shown
    BY <1>2, <1>8
  <2>3. /\ shown' \in [Messages -> Seq(Nat)] /\ IsFiniteSet(late')
        /\ \A x \in Messages \ {c} : /\ shown'[x] = shown[x]
                                     /\ \A s : s[1] = x => (s \in late' <=> s \in late)
        /\ \A i \in 1..Len(shown'[c]) :
              (i \in 1..Len(shown[c]) /\ shown'[c][i] = shown[c][i])
              \/ (i = Len(shown[c]) + 1 /\ shown'[c][i] = k /\ Show(c, k))
        /\ \A s \in late' : s \in late \/ (s[2] = k /\ UNCHANGED shown /\ late' # late)
        /\ \A j : j # k => Tries(c, j)' = Tries(c, j)
        /\ Tries(c, k)' \in Nat /\ Tries(c, k)' <= Tries(c, k) + 1
        /\ UNCHANGED <<shown, late>> => Tries(c, k)' = Tries(c, k)
    BY <1>6, <2>2, TryEffects
  <2>4. Shape'
    BY <1>3, <1>6, <2>3 DEF Shape, InStage
  <2>5. /\ request[r].replies \in Seq(Nat) /\ Len(request[r].replies) \in Nat \ {0}
        /\ request[r].replies[1] = k
        /\ Tail(request[r].replies) \in Seq(Nat)
        /\ Len(Tail(request[r].replies)) = Len(request[r].replies) - 1
        /\ \A i \in 1..Len(request[r].replies) - 1 :
              Tail(request[r].replies)[i] = request[r].replies[i + 1]
        /\ HasAnswer(r) <=> k # Error
    <3>1. request[r].replies \in Seq(Nat) /\ request[r].replies # <<>>
      BY <1>1, <2>1 DEF Queued
    <3>2. Len(request[r].replies) \in Nat /\ Len(request[r].replies) # 0
      BY <3>1, LenProperties, EmptySeq
    <3>3. HasAnswer(r) <=> k # Error
      BY <1>8, <3>1 DEF HasAnswer
    <3> QED
      BY <1>8, <3>1, <3>2, <3>3, HeadTailProperties
  <2>6. PICK left \in Seq(Nat) :
           /\ request'[r].replies = left /\ Len(left) \in Nat
           /\ \/ /\ left = request[r].replies
                 /\ request'[r].attempt = b + 1 /\ b # MaxAttempts
              \/ /\ left = Tail(request[r].replies) /\ Len(left) = Len(request[r].replies) - 1
                 /\ request'[r].attempt = 1
           /\ Sent(r) => left # request[r].replies
    <3>1. CASE request'[r].replies = Tail(request[r].replies) /\ request'[r].attempt = 1
      <4>1. Len(Tail(request[r].replies)) # Len(request[r].replies)
        BY <2>5
      <4>2. Tail(request[r].replies) # request[r].replies
        BY <4>1
      <4>3. Len(Tail(request[r].replies)) \in Nat
        BY <2>5
      <4> Tail(request[r].replies) \in Seq(Nat)
        BY <2>5
      <4> WITNESS Tail(request[r].replies) \in Seq(Nat)
      <4> QED
        BY <2>5, <3>1, <4>2, <4>3
    <3>2. CASE /\ request'[r].replies = request[r].replies /\ a # MaxAttempts
               /\ request'[r].attempt = a + 1
      <4>1. Len(Tail(request[r].replies)) # Len(request[r].replies)
        BY <2>5
      <4>2. ~Sent(r)
        BY <1>3, <3>2, <4>1
      <4> request[r].replies \in Seq(Nat)
        BY <2>5
      <4> WITNESS request[r].replies \in Seq(Nat)
      <4> QED
        BY <1>8, <2>5, <3>2, <4>2
    <3> QED
      BY <1>3, <3>1, <3>2
  <2>7. /\ \A i, j \in 1..Len(left) : i < j => left[i] < left[j]
        /\ left # <<>> => left[1] \in Nat /\ Head(left) = left[1]
        /\ left # <<>> /\ Head(left) = Error => Len(left) = 1 /\ k = Error
        /\ left # <<>> /\ left # request[r].replies => k < left[1]
        /\ left = request[r].replies => left[1] = k
    <3>1. \A i, j \in 1..Len(request[r].replies) :
             i < j => request[r].replies[i] < request[r].replies[j]
      BY <2>1 DEF Queued
    <3>2. CASE left = request[r].replies
      <4>1. left # <<>> /\ ~HasAnswer(r) => Len(left) = 1
        BY <2>1, <3>2 DEF Queued
      <4>2. left[1] \in Nat /\ Head(left) = left[1]
        BY <2>5, <3>2, HeadTailProperties
      <4> QED
        BY <2>5, <3>1, <3>2, <4>1, <4>2
    <3>3. CASE left = Tail(request[r].replies)
      <4>1. \A i, j \in 1..Len(left) : i < j => left[i] < left[j]
        <5> SUFFICES ASSUME NEW i \in 1..Len(left), NEW j \in 1..Len(left), i < j
                     PROVE  left[i] < left[j]
          OBVIOUS
        <5> Len(left) = Len(request[r].replies) - 1
          BY <2>5, <3>3
        <5>1. /\ i \in Nat /\ j \in Nat
              /\ i + 1 \in 1..Len(request[r].replies) /\ j + 1 \in 1..Len(request[r].replies)
              /\ left[i] = request[r].replies[i + 1] /\ left[j] = request[r].replies[j + 1]
          BY <2>5, <3>3
        <5>2. request[r].replies[i + 1] < request[r].replies[j + 1]
          <6>1. i + 1 < j + 1
            BY <5>1
          <6> QED
            BY <3>1, <5>1, <6>1
        <5> QED
          BY <5>1, <5>2
      <4>2. left # <<>> => /\ left[1] = request[r].replies[2] /\ k < left[1] /\ left[1] \in Nat
                           /\ Head(left) = left[1]
        <5> SUFFICES ASSUME left # <<>> PROVE /\ left[1] = request[r].replies[2] /\ k < left[1] 
                                              /\ left[1] \in Nat /\ Head(left) = left[1]
          OBVIOUS
        <5>1. Len(left) # 0
          BY <2>6, EmptySeq
        <5>2. 1 \in 1..Len(request[r].replies) - 1 /\ 2 \in 1..Len(request[r].replies)
              /\ 1 \in 1..Len(request[r].replies)
          BY <2>5, <2>6, <3>3, <5>1
        <5>3. left[1] \in Nat /\ Head(left) = left[1]
          BY <5>1, <2>6, HeadTailProperties
        <5> QED
          BY <2>5, <3>1, <3>3, <5>2, <5>3, SMTT(30)
      <4>3. left # request[r].replies
        <5>1. Len(left) = Len(request[r].replies) - 1
          BY <2>5, <3>3
        <5> QED
          BY <2>5, <5>1
      <4> QED
        BY <4>1, <4>2, <4>3, <1>8 DEF Error
    <3> QED
      BY <2>6, <3>2, <3>3
  <2>8. HasAnswer(r)' <=> left # <<>> /\ Head(left) # Error
    BY <2>6 DEF HasAnswer
  <2>9. Queued(r)'
    <3>1. request'[r].attempt \in 1..MaxAttempts
      BY <2>6, <1>8 DEF MaxAttempts
    <3> QED
      BY <2>6, <2>7, <2>8, <3>1 DEF Queued
  <2>10. HasAnswer(r)' => HasAnswer(r)
    <3> SUFFICES ASSUME left # <<>>, Head(left) # Error PROVE k # Error
      BY <2>5, <2>8
    <3>1. CASE left = request[r].replies
      BY <2>7, <3>1
    <3>2. CASE left # request[r].replies
      <4>1. Len(left) # 0 /\ Len(left) = Len(request[r].replies) - 1
        BY <2>6, <3>2, EmptySeq
      <4>2. Len(request[r].replies) # 1 /\ request[r].replies # <<>>
        BY <1>1, <2>5, <2>6, <4>1
      <4> QED
        BY <2>1, <2>5, <4>2 DEF Queued
    <3> QED
      BY <3>1, <3>2
  <2>11. Len(shown[c]) \in Nat /\ Tries(c, k) \in Nat
    BY <1>6, TriesCounted, LenProperties DEF Shape
  <2>12. Told(c)'
    <3>1. k # Error => c \in rows
      BY <2>1, <2>5 DEF Claimed
    <3>2. \A i \in 1..Len(shown'[c]) : shown'[c][i] # Error => c \in rows' /\ Allows(c.sender)
      <4> SUFFICES ASSUME NEW i \in 1..Len(shown'[c]), shown'[c][i] # Error
                   PROVE  c \in rows' /\ Allows(c.sender)
        OBVIOUS
      <4>1. CASE i \in 1..Len(shown[c]) /\ shown'[c][i] = shown[c][i]
        BY <1>1, <2>1, <4>1 DEF Told
      <4>2. CASE i = Len(shown[c]) + 1 /\ shown'[c][i] = k
        <5>1. ~ UNCHANGED shown
          BY <2>11, <4>2
        <5> QED
          BY <1>1, <1>8, <3>1, <4>2, <5>1
      <4> QED
        BY <2>3, <4>1, <4>2
    <3>3. \A s \in late' : s[1] = c =>
             /\ s[2] \in Nat /\ c \in unclear'
             /\ s[2] # Error => c \in rows' /\ Allows(c.sender)
      <4> SUFFICES ASSUME NEW s \in late', s[1] = c
                   PROVE  /\ s[2] \in Nat /\ c \in unclear'
                          /\ s[2] # Error => c \in rows' /\ Allows(c.sender)
        OBVIOUS
      <4>1. CASE s \in late
        BY <1>1, <2>1, <4>1 DEF Told
      <4>2. CASE s[2] = k /\ late' # late
        BY <1>1, <1>8, <3>1, <4>2
      <4> QED
        BY <2>3, <4>1, <4>2
    <3>4. ASSUME c \notin unclear', NEW i \in 1..Len(shown'[c]), NEW j \in 1..Len(shown'[c]),
                 i < j, shown'[c][i] # Error, shown'[c][j] # Error
          PROVE  shown'[c][i] < shown'[c][j]
      <4>1. c \notin unclear
        BY <1>1, <3>4
      <4>2. CASE j \in 1..Len(shown[c]) /\ shown'[c][j] = shown[c][j]
        <5>1. i \in 1..Len(shown[c]) /\ shown'[c][i] = shown[c][i]
          BY <2>3, <2>11, <3>4, <4>2, SMTT(30)
        <5> QED
          BY <2>1, <3>4, <4>1, <4>2, <5>1 DEF Told
      <4>3. CASE j = Len(shown[c]) + 1 /\ shown'[c][j] = k
        <5>1. i \in 1..Len(shown[c]) /\ shown'[c][i] = shown[c][i]
          BY <2>3, <2>11, <3>4, <4>3, SMTT(30)
        <5>2. Claimed(r, c)
          BY <2>1, <2>5, <3>4, <4>3
        <5> QED
          BY <1>8, <4>1, <4>3, <5>1, <5>2 DEF Claimed
      <4> QED
        BY <2>3, <4>2, <4>3
    <3>5. ASSUME NEW j \in Nat \ {0} PROVE Tries(c, j)' <= MaxAttempts
      <4>1. CASE j # k
        <5>1. Tries(c, j)' = Tries(c, j)
          BY <2>3, <4>1
        <5> QED
          BY <2>1, <5>1 DEF Told
      <4>2. CASE j = k
        <5>1. Tries(c, k) < b
          BY <1>8, <2>1, <2>5, <4>2 DEF Claimed, Error
        <5>2. Tries(c, k)' <= Tries(c, k) + 1 /\ Tries(c, k)' \in Nat
          BY <2>3
        <5>3. Tries(c, k)' <= MaxAttempts
          BY <1>8, <2>11, <5>1, <5>2 DEF MaxAttempts
        <5> QED
          BY <4>2, <5>3
      <4> QED
        BY <4>1, <4>2
    <3> QED
      BY <3>2, <3>3, <3>4, <3>5 DEF Told, Allows
  <2>13. ASSUME HasAnswer(r)' PROVE Claimed(r, c)'
    <3>1. Claimed(r, c) /\ k # Error /\ left # <<>>
      BY <2>1, <2>5, <2>8, <2>10, <2>13
    <3>2. PICK h \in Nat : h = left[1] /\ h = Head(left) /\ k <= h
      BY <2>7, <3>1
    <3>3. \A i \in 1..Len(shown'[c]) :
             /\ shown'[c][i] <= h
             /\ c \notin unclear' => shown'[c][i] < h
      <4> SUFFICES ASSUME NEW i \in 1..Len(shown'[c])
                   PROVE  shown'[c][i] <= h /\ (c \notin unclear' => shown'[c][i] < h)
        OBVIOUS
      <4>1. CASE i \in 1..Len(shown[c]) /\ shown'[c][i] = shown[c][i]
        <5>1. shown[c][i] \in Nat /\ shown[c][i] <= k /\ (c \notin unclear' => shown[c][i] < k)
          BY <1>1, <1>6, <1>8, <3>1, <4>1, SMTT(30) DEF Claimed, Shape
        <5> QED
          BY <3>2, <4>1, <5>1
      <4>2. CASE i = Len(shown[c]) + 1 /\ shown'[c][i] = k
        <5>1. ~ UNCHANGED shown
          BY <2>11, <4>2
        <5>2. c \notin unclear' => k < h
          BY <1>1, <1>8, <2>6, <2>7, <3>1, <3>2, <5>1
        <5> QED
          BY <3>2, <4>2, <5>2
      <4> QED
        BY <2>3, <4>1, <4>2
    <3>4. \A s \in late' : s[1] = c => s[2] <= h
      <4> SUFFICES ASSUME NEW s \in late', s[1] = c PROVE s[2] <= h
        OBVIOUS
      <4>1. CASE s \in late
        <5>1. s[2] \in Nat /\ s[2] <= k
          BY <1>8, <2>1, <3>1, <4>1 DEF Told, Claimed
        <5> QED
          BY <3>2, <5>1
      <4> QED
        BY <2>3, <3>2, <4>1
    <3>5. Tries(c, Head(request[r].replies))' = Tries(c, h)'
      BY <2>6, <3>2 DEF Tries, ShownAt, LateOf
    <3>6. Tries(c, h)' < request'[r].attempt
      <4>1. CASE left = request[r].replies
        <5>1. Tries(c, k) < b /\ h = k /\ request'[r].attempt = b + 1
          BY <1>8, <2>5, <2>6, <2>7, <3>1, <3>2, <4>1 DEF Claimed
        <5> QED
          BY <1>8, <2>3, <2>11, <5>1
      <4>2. CASE left # request[r].replies
        <5>1. k < h /\ request'[r].attempt = 1
          BY <2>6, <2>7, <3>1, <3>2, <4>2
        <5>2. \A i \in 1..Len(shown'[c]) : shown'[c][i] # h
          <6> SUFFICES ASSUME NEW i \in 1..Len(shown'[c]) PROVE shown'[c][i] # h
            OBVIOUS
          <6>1. CASE i \in 1..Len(shown[c]) /\ shown'[c][i] = shown[c][i]
            <7>1. shown[c][i] \in Nat /\ shown[c][i] <= k
              BY <1>6, <1>8, <3>1, <6>1 DEF Claimed, Shape
            <7> QED
              BY <5>1, <6>1, <7>1
          <6>2. CASE shown'[c][i] = k
            BY <5>1, <6>2
          <6> QED
            BY <2>3, <6>1, <6>2
        <5>3. \A s \in late' : s[1] = c => s[2] # h
          <6> SUFFICES ASSUME NEW s \in late', s[1] = c PROVE s[2] # h
            OBVIOUS
          <6>1. CASE s \in late
            <7>1. s[2] \in Nat /\ s[2] <= k
              BY <1>8, <2>1, <3>1, <6>1 DEF Told, Claimed
            <7> QED
              BY <5>1, <7>1
          <6> QED
            BY <2>3, <5>1, <6>1
        <5>4. ShownAt(c, h)' = {} /\ LateOf(c, h)' = {}
          BY <5>2, <5>3 DEF ShownAt, LateOf
        <5>5. Tries(c, h)' = 0
          BY <5>4, FS_EmptySet DEF Tries
        <5> QED
          BY <5>1, <5>5
      <4> QED
        BY <4>1, <4>2
    <3>7. \A q \in Requests : Sends(q, c)' /\ HasAnswer(q)' => q = r
      <4> SUFFICES ASSUME NEW q \in Requests, Sends(q, c)', HasAnswer(q)', q # r PROVE FALSE
        OBVIOUS
      <4>1. request'[q] = request[q]
        BY <1>3
      <4>2. Sends(q, c) /\ HasAnswer(q)
        BY <4>1 DEF Sends, HasAnswer, InStage, Message
      <4> QED
        BY <3>1, <4>2 DEF Claimed
    <3>8. c \in rows'
      BY <1>1, <3>1 DEF Claimed
    <3> QED
      BY <2>6, <3>2, <3>3, <3>4, <3>5, <3>6, <3>7, <3>8 DEF Claimed
  <2>14. ASSUME NEW q \in Requests \ {r}, Sends(q, c)'
         PROVE  Queued(q)' /\ (HasAnswer(q)' => Claimed(q, c)')
    <3>1. request'[q] = request[q]
      BY <1>3
    <3>2. Sends(q, c)
      BY <3>1, <2>14 DEF Sends, InStage, Message
    <3>3. Queued(q) /\ (HasAnswer(q) => Claimed(q, c))
      BY <2>1, <3>2 DEF MessageInv
    <3>4. HasAnswer(q)' <=> HasAnswer(q)
      BY <3>1 DEF HasAnswer
    <3>5. Queued(q)'
      BY <3>1, <3>3, <3>4 DEF Queued
    <3>6. ASSUME HasAnswer(q)' PROVE Claimed(q, c)'
      <4>1. Claimed(q, c) /\ request[q].replies # <<>>
        BY <3>3, <3>4, <3>6 DEF HasAnswer
      <4>2. ~HasAnswer(r) /\ k = Error
        BY <2>1, <2>5, <4>1 DEF Claimed
      <4>3. PICK h \in Nat \ {0} : h = Head(request[q].replies)
        <5>1. request[q].replies \in Seq(Nat) /\ Head(request[q].replies) # Error
          BY <3>3, <3>4, <3>6 DEF Queued, HasAnswer
        <5> QED
          BY <4>1, <5>1, HeadTailProperties DEF Error
      <4>4. \A i \in 1..Len(shown'[c]) : /\ shown'[c][i] <= h
                                         /\ c \notin unclear' => shown'[c][i] < h
        <5> SUFFICES ASSUME NEW i \in 1..Len(shown'[c])
                     PROVE  shown'[c][i] <= h /\ (c \notin unclear' => shown'[c][i] < h)
          OBVIOUS
        <5>1. CASE i \in 1..Len(shown[c]) /\ shown'[c][i] = shown[c][i]
          BY <1>1, <4>1, <4>3, <5>1 DEF Claimed
        <5>2. CASE shown'[c][i] = k
          BY <4>2, <4>3, <5>2 DEF Error
        <5> QED
          BY <2>3, <5>1, <5>2
      <4>5. \A s \in late' : s[1] = c => s[2] <= h
        <5> SUFFICES ASSUME NEW s \in late', s[1] = c PROVE s[2] <= h
          OBVIOUS
        <5>1. CASE s \in late
          BY <4>1, <4>3, <5>1 DEF Claimed
        <5>2. CASE s[2] = k
          BY <4>2, <4>3, <5>2 DEF Error
        <5> QED
          BY <2>3, <5>1, <5>2
      <4>6. Tries(c, Head(request[q].replies))' = Tries(c, Head(request[q].replies))
        <5>1. Tries(c, Head(request[q].replies))' = Tries(c, h)'
          BY <3>1, <4>3 DEF Tries, ShownAt, LateOf
        <5>2. Tries(c, h)' = Tries(c, h)
          BY <2>3, <4>2, <4>3 DEF Error
        <5> QED
          BY <4>3, <5>1, <5>2
      <4>7. \A p \in Requests : Sends(p, c)' /\ HasAnswer(p)' => p = q
        <5> SUFFICES ASSUME NEW p \in Requests, Sends(p, c)', HasAnswer(p)' PROVE p = q
          OBVIOUS
        <5>1. p # r
          BY <2>10, <4>2
        <5>2. request'[p] = request[p]
          BY <1>3, <5>1
        <5>3. Sends(p, c) /\ HasAnswer(p)
          BY <5>2 DEF Sends, HasAnswer, InStage, Message
        <5> QED
          BY <4>1, <5>3 DEF Claimed
      <4>8. c \in rows'
        BY <1>1, <4>1 DEF Claimed
      <4> QED
        BY <3>1, <4>1, <4>3, <4>4, <4>5, <4>6, <4>7, <4>8 DEF Claimed
    <3> QED
      BY <3>5, <3>6
  <2>15. MessageInv(c)'
    BY <2>9, <2>12, <2>13, <2>14 DEF MessageInv
  <2> QED
    BY <1>5, <1>8, <2>3, <2>4, <2>15 DEF ShownInv
<1>9. ASSUME m \in Messages
      PROVE  n \in Nat /\ a \in 1..MaxAttempts
  <2>1. Queued(r)
    BY <1>4, <1>9 DEF ShownInv, MessageInv
  <2> QED
    BY <1>1, <2>1 DEF Queued
<1> QED
  BY <1>7, <1>8, <1>9

\* What lands late was counted when it was given up; it only changes the order.
LEMMA LandKeeps ==
  ASSUME ShownInv, NEW send \in late, Land(send)
  PROVE  ShownInv'
<1> DEFINE m == send[1]
           n == send[2]
<1>1. /\ late' = late \ {send} /\ Show(m, n)
      /\ request' = request /\ rows' = rows /\ unclear' = unclear
  BY DEF Land
<1>2. Shape
  BY DEF ShownInv
<1>3. IsFiniteSet(late')
  BY <1>1, <1>2, FS_RemoveElement DEF Shape
<1>4. ASSUME NEW x \in Messages, x # m, shown'[x] = shown[x]
      PROVE  MessageInv(x)'
  <2>1. MessageInv(x) /\ (\A s : s[1] = x => (s \in late' <=> s \in late))
    BY <1>1, <1>4 DEF ShownInv
  <2> QED
    BY <1>1, <1>4, <2>1, Untouched
<1>5. CASE m \notin Messages
  <2>1. shown' = shown
    BY <1>1, <1>2, <1>5 DEF Show, Shape
  <2>2. Shape'
    BY <1>1, <1>2, <1>3, <2>1 DEF Shape, InStage
  <2> QED
    BY <1>4, <1>5, <2>1, <2>2 DEF ShownInv
<1>6. CASE m \in Messages
  <2>1. MessageInv(m) /\ Told(m) /\ n \in Nat /\ m \in unclear
        /\ (n # Error => m \in rows /\ Allows(m.sender))
    BY <1>6 DEF ShownInv, MessageInv, Told
  <2>2. shown \in [Messages -> Seq(Nat)]
    BY <1>2 DEF Shape
  <2> HIDE DEF n
  <2>3. /\ shown' \in [Messages -> Seq(Nat)]
        /\ \A x \in Messages \ {m} : shown'[x] = shown[x]
        /\ Len(shown'[m]) = Len(shown[m]) + 1 /\ Len(shown[m]) \in Nat
        /\ \A i \in 1..Len(shown[m]) : shown'[m][i] = shown[m][i]
        /\ shown'[m][Len(shown[m]) + 1] = n
    BY <1>1, <1>6, <2>1, <2>2, ShowGrows
  <2>4. \A i \in 1..Len(shown'[m]) :
           (i \in 1..Len(shown[m]) /\ shown'[m][i] = shown[m][i]) \/ shown'[m][i] = n
    BY <2>3
  <2>5. ASSUME NEW k PROVE Tries(m, k)' = Tries(m, k)
    <3>1. /\ Cardinality(ShownAt(m, k)) \in Nat
          /\ Cardinality(ShownAt(m, k)') = Cardinality(ShownAt(m, k)) + (IF k = n THEN 1 ELSE 0)
      BY <1>1, <1>6, <2>1, <2>2, ShowCounts
    <3>2. /\ IsFiniteSet(LateOf(m, k)) /\ Cardinality(LateOf(m, k)) \in Nat
      BY <1>2, <1>6, TriesCounted
    <3>3. LateOf(m, k)' = LateOf(m, k) \ {send} /\ (send \in LateOf(m, k) <=> k = n)
      BY <1>1 DEF LateOf, n
    <3>4. Cardinality(LateOf(m, k)') = Cardinality(LateOf(m, k)) - (IF k = n THEN 1 ELSE 0)
      <4>1. IsFiniteSet(LateOf(m, k)) /\ Cardinality(LateOf(m, k)) \in Nat
        BY <3>2
      <4>2. Cardinality(LateOf(m, k) \ {send}) =
               IF send \in LateOf(m, k) THEN Cardinality(LateOf(m, k)) - 1 ELSE Cardinality(LateOf(m, k))
        BY <4>1, FS_RemoveElement
      <4>3. CASE k = n
        BY <3>3, <4>1, <4>2, <4>3
      <4>4. CASE k # n
        BY <3>3, <4>1, <4>2, <4>4
      <4> QED
        BY <4>3, <4>4
    <3>5. Tries(m, k)' = Cardinality(ShownAt(m, k)') + Cardinality(LateOf(m, k)')
      BY DEF Tries
    <3>6. Tries(m, k) = Cardinality(ShownAt(m, k)) + Cardinality(LateOf(m, k))
      BY DEF Tries
    <3> QED
      BY <3>1, <3>2, <3>4, <3>5, <3>6
  <2>6. Shape'
    BY <1>1, <1>2, <1>3, <2>3 DEF Shape, InStage
  <2>7. Told(m)'
    <3>1. \A i \in 1..Len(shown'[m]) : shown'[m][i] # Error => m \in rows' /\ Allows(m.sender)
      BY <1>1, <2>1, <2>4 DEF Told
    <3>2. \A s \in late' : s[1] = m =>
             /\ s[2] \in Nat /\ m \in unclear'
             /\ s[2] # Error => m \in rows' /\ Allows(m.sender)
      BY <1>1, <2>1 DEF Told
    <3>3. m \in unclear'
      BY <1>1, <2>1
    <3>4. \A k \in Nat \ {0} : Tries(m, k)' <= MaxAttempts
      BY <2>1, <2>5 DEF Told
    <3> QED
      BY <3>1, <3>2, <3>3, <3>4 DEF Told, Allows
  <2>8. ASSUME NEW r \in Requests, Sends(r, m)'
        PROVE  Queued(r)' /\ (HasAnswer(r)' => Claimed(r, m)')
    <3>1. Sends(r, m)
      BY <1>1, <2>8 DEF Sends, InStage, Message
    <3>2. Queued(r) /\ (HasAnswer(r) => Claimed(r, m))
      BY <2>1, <3>1 DEF MessageInv
    <3>3. HasAnswer(r)' <=> HasAnswer(r)
      BY <1>1 DEF HasAnswer
    <3>4. Queued(r)'
      BY <1>1, <3>2, <3>3 DEF Queued
    <3>5. ASSUME HasAnswer(r) PROVE Claimed(r, m)'
      <4>1. Claimed(r, m)
        BY <3>2, <3>5
      <4>2. n <= Head(request[r].replies)
        BY <4>1 DEF Claimed, n
      <4>3. \A i \in 1..Len(shown'[m]) : shown'[m][i] <= Head(request[r].replies)
        BY <2>4, <4>1, <4>2 DEF Claimed
      <4>4. Tries(m, Head(request[r].replies))' = Tries(m, Head(request[r].replies))
        <5>1. PICK h : h = Head(request[r].replies)
          OBVIOUS
        <5>2. Tries(m, Head(request[r].replies))' = Tries(m, h)'
          BY <1>1, <5>1
        <5> QED
          BY <2>5, <5>1, <5>2
      <4>5. \A q \in Requests : Sends(q, m)' /\ HasAnswer(q)' => q = r
        BY <1>1, <4>1 DEF Claimed, Sends, HasAnswer, InStage, Message
      <4>6. \A s \in late' : s[1] = m => s[2] <= Head(request'[r].replies)
        BY <1>1, <4>1 DEF Claimed
      <4> QED
        BY <1>1, <2>1, <4>1, <4>3, <4>4, <4>5, <4>6 DEF Claimed
    <3> QED
      BY <3>3, <3>4, <3>5
  <2>9. MessageInv(m)'
    BY <2>7, <2>8 DEF MessageInv
  <2> QED
    BY <1>4, <2>3, <2>6, <2>9 DEF ShownInv
<1> QED
  BY <1>5, <1>6

\* Every step keeps what is promised.
LEMMA NextShown ==
  ASSUME ShownInv, [IntakeNext]_intakeVars
  PROVE  ShownInv'
<1>1. request = [r \in Requests |-> request[r]]
  BY DEF ShownInv, Shape
<1>2. CASE Elapse
  BY <1>1, <1>2, Quiet DEF Elapse
<1>3. CASE Crash
  <2>1. \A r \in Requests : request'[r].at # "sending"
    BY <1>3 DEF Crash, Idle
  <2>2. request' = [r \in Requests |-> request'[r]]
    BY <1>3 DEF Crash
  <2> QED
    BY <1>3, <2>1, <2>2, Quiet DEF Crash
<1>4. ASSUME NEW r \in Requests, NEW p \in Payloads, Post(r, p) PROVE ShownInv'
  <2>1. /\ request' = [q \in Requests |-> request'[q]]
        /\ \A q \in Requests : request'[q] = request[q] \/ request'[q].at # "sending"
    BY <1>1, <1>4 DEF Post
  <2> QED
    BY <1>4, <2>1, Quiet DEF Post
<1>5. ASSUME NEW r \in Requests, Accept(r) PROVE ShownInv'
  <2>1. UNCHANGED <<rows, outVars>>
    BY <1>5 DEF Accept
  <2>2. PICK new : new.at # "sending" /\ request' = [request EXCEPT ![r] = new]
    BY <1>5 DEF Accept, Idle
  <2>3. /\ request' = [q \in Requests |-> request'[q]]
        /\ \A q \in Requests : request'[q] = request[q] \/ request'[q].at # "sending"
    BY <1>1, <2>2
  <2> QED
    BY <2>1, <2>3, Quiet
<1>6. ASSUME NEW r \in Requests, EndTurn(r) PROVE ShownInv'
  <2>1. /\ request' = [q \in Requests |-> request'[q]]
        /\ \A q \in Requests : request'[q] = request[q] \/ request'[q].at # "sending"
    BY <1>1, <1>6 DEF EndTurn, Idle
  <2> QED
    BY <1>6, <2>1, Quiet DEF EndTurn
<1>7. ASSUME NEW r \in Requests, Finish(r) PROVE ShownInv'
  <2>1. /\ request' = [q \in Requests |-> request'[q]]
        /\ \A q \in Requests : request'[q] = request[q] \/ request'[q].at # "sending"
    BY <1>1, <1>7 DEF Finish, Idle
  <2> QED
    BY <1>7, <2>1, Quiet DEF Finish
<1>8. CASE UNCHANGED intakeVars
  BY <1>1, <1>8, Quiet DEF intakeVars, outVars
<1> QED
  BY <1>2, <1>3, <1>4, <1>5, <1>6, <1>7, <1>8, TurnKeeps, SendKeeps, LandKeeps DEF IntakeNext

\* The invariant says what the property says.
LEMMA ShownMeans == ShownInv => ShownOnceInOrder
<1> SUFFICES ASSUME ShownInv, NEW m \in Messages
             PROVE  LET answers == {i \in 1..Len(shown[m]) : shown[m][i] # Error}
                    IN  /\ m \notin unclear => \A i, j \in answers : i < j => shown[m][i] < shown[m][j]
                        /\ answers # {} => m \in rows /\ Allows(m.sender)
                        /\ \A n \in 1..m.replies :
                              Cardinality({i \in answers : shown[m][i] = n}) <= MaxAttempts
  BY DEF ShownOnceInOrder
<1> DEFINE answers == {i \in 1..Len(shown[m]) : shown[m][i] # Error}
<1>1. Told(m) /\ Shape
  BY DEF ShownInv, MessageInv
<1>2. ASSUME NEW n \in 1..m.replies
      PROVE  Cardinality({i \in answers : shown[m][i] = n}) <= MaxAttempts
  <2>1. n \in Nat \ {0}
    BY <1>2
  <2>2. {i \in answers : shown[m][i] = n} = ShownAt(m, n)
    BY <2>1 DEF ShownAt, Error
  <2>3. /\ Cardinality(ShownAt(m, n)) \in Nat /\ Cardinality(LateOf(m, n)) \in Nat
    BY <1>1, TriesCounted
  <2>4. Tries(m, n) <= MaxAttempts
    BY <1>1, <2>1 DEF Told
  <2>5. Cardinality(ShownAt(m, n)) <= MaxAttempts
    BY <2>3, <2>4 DEF Tries, MaxAttempts
  <2> QED
    BY <2>2, <2>5
<1> QED
  BY <1>1, <1>2 DEF Told

-----------------------------------------------------------------------------
\* However often Meta delivers a message, the client repeats a send, WhatsApp carries one out late
\* and the process dies, a message's answers are on the customer's phone once and in order where
\* the service learned what became of its sends, never more often than the client tries, and never
\* of a message that is not on record or on a number that is not listed: webhook.py, the
\* deduplication by message_id, and the retries of WhatsAppClient.
THEOREM AnswersShownOnce == IntakeSpec => []ShownOnceInOrder
<1>1. IntakeInit => ShownInv
  BY InitShown
<1>2. ShownInv /\ [IntakeNext]_intakeVars => ShownInv'
  BY NextShown
<1>3. ShownInv => ShownOnceInOrder
  BY ShownMeans
<1> QED
  BY <1>1, <1>2, <1>3, PTL DEF IntakeSpec

-----------------------------------------------------------------------------
(***************************************************************************)
(* What a 200 promises.                                                    *)
(***************************************************************************)
InTurns(r) == request[r].at \in {"turns", "sending"}

\* The message at place i of the payload needs no turn any more.
Settled(p, refused, i) ==
    \/ p.messages[i] \in handled
    \/ ~IsFresh(p.messages[i]) \/ ~Allows(p.messages[i].sender) \/ i \in refused

\* A request in its turns forgot no message it has not queued; one waiting for its body will not.
Remembers(r) ==
    /\ request[r].at # "idle" => request[r].payload \in Payloads
    /\ InTurns(r) => \A i \in Parsed(request[r].payload) :
          Settled(request[r].payload, request[r].refused, i) \/ i \in request[r].queue

\* A message told off is settled, or the 200 did not wait for it.
Kept(answer) ==
    /\ answer.payload \in Payloads
    /\ \A i \in Parsed(answer.payload) :
          \/ Settled(answer.payload, answer.refused, i)
          \/ ~inline /\ (cutOff \/ \E r \in Requests : Waits(r, answer.payload.messages[i]))

HandledInv ==
    /\ time \in Int
    /\ request = [r \in Requests |-> request[r]]
    /\ \A r \in Requests : Remembers(r)
    /\ \A answer \in acked : Kept(answer)

\* The messages of a payload are messages.
LEMMA InPayload ==
  ASSUME NEW p \in Payloads, NEW i \in Parsed(p)
  PROVE  p.messages[i] \in Messages
<1>1. p.messages \in Seq(ToSet(p.messages)) /\ i \in 1..Len(p.messages)
  BY IntakeAssumption DEF Parsed
<1>2. p.messages[i] \in ToSet(p.messages)
  BY <1>1 DEF ToSet
<1> QED
  BY <1>2 DEF Messages

\* Once settled a message stays so: time goes on, and what was handled stays handled.
LEMMA SettledStays ==
  ASSUME NEW p \in Payloads, NEW i \in Parsed(p), NEW refused,
         time \in Int, time' = time \/ time' = time + 1, handled \subseteq handled',
         Settled(p, refused, i)
  PROVE  Settled(p, refused, i)'
<1> DEFINE m == p.messages[i]
<1>1. m.sent \in Int /\ MaxAge \in Int
  BY InPayload, IntakeAssumption
<1>2. ~IsFresh(m) => ~IsFresh(m)'
  BY <1>1 DEF IsFresh
<1> QED
  BY <1>2 DEF Settled, Allows

\* A step that ends no turn and tells nobody off keeps every promise, if a request it changes goes
\* on with its payload and its queue.
LEMMA PromiseKept ==
  ASSUME HandledInv,
         time' = time \/ time' = time + 1, handled' = handled, acked' = acked, inline' = inline,
         cutOff => cutOff',
         request' = [r \in Requests |-> request'[r]],
         \A r \in Requests :
            \/ request'[r] = request[r]
            \/ /\ InTurns(r) /\ InTurns(r)' /\ request'[r].payload = request[r].payload
               /\ request'[r].queue = request[r].queue /\ request'[r].refused = request[r].refused
            \/ request[r].at = "idle" /\ request'[r].at = "body" /\ request'[r].payload \in Payloads
            \/ request'[r].at = "idle" /\ (InTurns(r) => cutOff')
  PROVE  HandledInv'
<1>1. time \in Int /\ time' \in Int
  BY DEF HandledInv
<1>2. ASSUME NEW r \in Requests PROVE Remembers(r)'
  <2>1. Remembers(r)
    BY DEF HandledInv
  <2>2. CASE request'[r].at = "idle" \/ (request'[r].at = "body" /\ request'[r].payload \in Payloads)
    BY <2>2 DEF Remembers, InTurns
  <2>3. CASE /\ request'[r].at = request[r].at \/ (InTurns(r) /\ InTurns(r)')
             /\ request'[r].payload = request[r].payload
             /\ request'[r].queue = request[r].queue /\ request'[r].refused = request[r].refused
    <3>1. request'[r].at # "idle" => request'[r].payload \in Payloads
      BY <2>1, <2>3 DEF Remembers, InTurns
    <3>2. ASSUME InTurns(r)', NEW i \in Parsed(request'[r].payload)
          PROVE  Settled(request[r].payload, request[r].refused, i)' \/ i \in request'[r].queue
      <4>1. InTurns(r) /\ request[r].payload \in Payloads /\ i \in Parsed(request[r].payload)
        BY <2>1, <2>3, <3>2 DEF InTurns, Remembers
      <4>2. Settled(request[r].payload, request[r].refused, i) \/ i \in request[r].queue
        BY <2>1, <4>1 DEF Remembers
      <4>3. PICK p \in Payloads, refused \in {request[r].refused} : p = request[r].payload
        BY <4>1
      <4>4. Settled(p, refused, i) => Settled(p, refused, i)'
        BY <1>1, <4>1, <4>3, SettledStays
      <4> QED
        BY <2>3, <4>2, <4>3, <4>4 DEF Settled
    <3> QED
      BY <2>3, <3>1, <3>2 DEF Remembers, Parsed, Settled
  <2> QED
    BY <2>2, <2>3
<1>3. ASSUME NEW answer \in acked PROVE Kept(answer)'
  <2>1. Kept(answer)
    BY DEF HandledInv
  <2>2. ASSUME NEW i \in Parsed(answer.payload)
        PROVE  \/ Settled(answer.payload, answer.refused, i)'
               \/ ~inline' /\ (cutOff' \/ \E r \in Requests : Waits(r, answer.payload.messages[i])')
    <3>1. CASE Settled(answer.payload, answer.refused, i)
      BY <1>1, <2>1, <2>2, <3>1, SettledStays DEF Kept
    <3>2. ASSUME NEW r \in Requests, Waits(r, answer.payload.messages[i])
          PROVE  cutOff' \/ Waits(r, answer.payload.messages[i])'
      BY <3>2 DEF Waits, InTurns
    <3> QED
      BY <2>1, <2>2, <3>1, <3>2 DEF Kept
  <2> QED
    BY <2>1, <2>2 DEF Kept, Parsed
<1> QED
  BY <1>1, <1>2, <1>3 DEF HandledInv

\* A request that is read starts its turns with all its messages queued but those it may not or
\* need not answer.
LEMMA AcceptHandles ==
  ASSUME HandledInv, NEW r \in Requests, Accept(r)
  PROVE  HandledInv'
<1>1. /\ time' = time /\ handled' = handled /\ inline' = inline /\ cutOff' = cutOff
      /\ request[r].at = "body" /\ request[r].payload \in Payloads
      /\ request = [q \in Requests |-> request[q]]
  BY DEF Accept, envVars, HandledInv, Remembers
<1>2. PICK p \in Payloads : p = request[r].payload
  BY <1>1
<1>3. CASE request' = [request EXCEPT ![r] = Idle] /\ acked' = acked
  <2>1. request' = [q \in Requests |-> request'[q]]
    BY <1>1, <1>3
  <2>2. \A q \in Requests : request'[q] = request[q] \/ (request'[q].at = "idle" /\ (InTurns(q) => cutOff'))
    BY <1>1, <1>3 DEF Idle, InTurns
  <2> QED
    BY <1>1, <1>3, <2>1, <2>2, PromiseKept
<1>4. ASSUME NEW refused, NEW queued, queued = Passed(p) \ refused,
             request' = [request EXCEPT ![r] =
                 [at |-> "turns", payload |-> p, queue |-> queued, refused |-> refused]],
             acked' = IF inline THEN acked ELSE acked \cup {[payload |-> p, refused |-> refused]}
      PROVE  HandledInv'
  <2>1. PICK forgotten : forgotten = Parsed(p) \ queued
    OBVIOUS
  <2>2. PICK places : places = queued
    OBVIOUS
  <2>3. PICK over : over = refused
    OBVIOUS
  <2>4. /\ request' = [q \in Requests |-> request'[q]]
        /\ \A q \in Requests \ {r} : request'[q] = request[q]
        /\ request'[r].at = "turns" /\ request'[r].payload = p
        /\ request'[r].queue = places /\ request'[r].refused = over
    BY <1>1, <1>4, <2>2, <2>3
  <2>5. \A i \in Parsed(p) : Settled(p, over, i)' \/ i \in places
    BY <1>1, <1>4, <2>2, <2>3 DEF Passed, Settled, IsFresh, Allows
  <2>6. ASSUME NEW q \in Requests PROVE Remembers(q)'
    <3>1. CASE q = r
      BY <1>1, <2>4, <2>5, <3>1 DEF Remembers, InTurns, Parsed, Settled
    <3>2. CASE q # r
      <4>1. Remembers(q) /\ request'[q] = request[q]
        BY <2>4, <3>2 DEF HandledInv
      <4> QED
        BY <1>1, <4>1 DEF Remembers, InTurns, Parsed, Settled, IsFresh, Allows
    <3> QED
      BY <3>1, <3>2
  <2>7. ASSUME NEW answer \in acked PROVE Kept(answer)'
    <3>1. Kept(answer)
      BY DEF HandledInv
    <3>2. \A m, q : q \in Requests /\ Waits(q, m) => Waits(q, m)'
      BY <1>1, <2>4 DEF Waits
    <3> QED
      BY <1>1, <3>1, <3>2 DEF Kept, Parsed, Settled, IsFresh, Allows
  <2>8. ASSUME ~inline, NEW answer, answer = [payload |-> p, refused |-> over] PROVE Kept(answer)'
    <3>1. \A i \in places : Waits(r, p.messages[i])'
      BY <2>4 DEF Waits
    <3>2. \A i \in Parsed(p) : Settled(p, over, i)' \/ Waits(r, p.messages[i])'
      BY <2>5, <3>1
    <3>3. answer.payload = p /\ answer.refused = over
      BY <2>8
    <3> QED
      BY <1>1, <2>8, <3>2, <3>3 DEF Kept, Parsed, Settled
  <2>9. \A answer \in acked' : answer \in acked \/ (~inline /\ answer = [payload |-> p, refused |-> over])
    BY <1>4, <2>3
  <2> QED
    BY <1>1, <2>4, <2>6, <2>7, <2>8, <2>9 DEF HandledInv
<1>5. \/ request' = [request EXCEPT ![r] = Idle] /\ acked' = acked
      \/ \E refused : \E queued \in {Passed(p) \ refused} :
            /\ request' = [request EXCEPT ![r] =
                  [at |-> "turns", payload |-> p, queue |-> queued, refused |-> refused]]
            /\ acked' = IF inline THEN acked ELSE acked \cup {[payload |-> p, refused |-> refused]}
  BY <1>2 DEF Accept
<1> QED
  BY <1>3, <1>4, <1>5

\* A turn that ends has handled the message it leaves the queue without, or it raised.
LEMMA EndTurnHandles ==
  ASSUME HandledInv, NEW r \in Requests, EndTurn(r)
  PROVE  HandledInv'
<1> DEFINE m == Message(r)
<1>1. /\ time' = time /\ time \in Int /\ inline' = inline /\ acked' = acked /\ handled' = handled \cup {m}
      /\ cutOff' = (cutOff \/ request[r].raises) /\ request[r].at = "sending"
      /\ request = [q \in Requests |-> request[q]]
  BY DEF EndTurn, envVars, HandledInv, InStage
<1>2. /\ request' = [q \in Requests |-> request'[q]]
      /\ \A q \in Requests \ {r} : request'[q] = request[q]
      /\ \/ request[r].raises /\ request'[r] = Idle
         \/ /\ request'[r].at = "turns" /\ request'[r].payload = request[r].payload
            /\ request'[r].queue = request[r].queue \ {Min(request[r].queue)}
            /\ request'[r].refused = request[r].refused
  BY <1>1 DEF EndTurn
<1>3. \A p, refused, i : Settled(p, refused, i) => Settled(p, refused, i)'
  BY <1>1 DEF Settled, IsFresh, Allows
<1>4. \A i \in request[r].queue :
         i = Min(request[r].queue) => request[r].payload.messages[i] = m
  BY DEF Message
<1>5. ASSUME NEW q \in Requests PROVE Remembers(q)'
  <2>1. Remembers(q)
    BY DEF HandledInv
  <2>2. CASE q # r
    BY <1>2, <1>3, <2>1, <2>2 DEF Remembers, InTurns, Parsed, Settled
  <2>3. CASE q = r /\ request'[r] = Idle
    BY <2>3 DEF Remembers, InTurns, Idle
  <2>4. CASE q = r /\ request'[r] # Idle
    <3>1. request'[r].payload \in Payloads
      BY <1>1, <1>2, <2>1, <2>4 DEF Remembers
    <3>2. ASSUME NEW i \in Parsed(request[r].payload)
          PROVE  \/ Settled(request[r].payload, request[r].refused, i)'
                 \/ i \in request'[r].queue
      <4>1. Settled(request[r].payload, request[r].refused, i) \/ i \in request[r].queue
        BY <1>1, <2>1, <2>4, <3>2 DEF Remembers, InTurns
      <4>2. CASE i \in request[r].queue /\ i # Min(request[r].queue)
        BY <1>2, <2>4, <4>2
      <4>3. CASE i \in request[r].queue /\ i = Min(request[r].queue)
        <5>1. request[r].payload.messages[i] = m
          BY <1>4, <4>3
        <5>2. request'[r].payload.messages[i] \in handled'
          BY <1>1, <1>2, <2>4, <5>1
        <5> QED
          BY <1>2, <2>4, <5>2 DEF Settled
      <4>4. CASE Settled(request[r].payload, request[r].refused, i)
        BY <1>2, <1>3, <2>4, <4>4 DEF Settled
      <4> QED
        BY <4>1, <4>2, <4>3, <4>4
    <3> QED
      BY <1>2, <2>4, <3>1, <3>2 DEF Remembers, Parsed, Settled
  <2> QED
    BY <2>2, <2>3, <2>4
<1>6. ASSUME NEW answer \in acked PROVE Kept(answer)'
  <2>1. Kept(answer)
    BY DEF HandledInv
  <2>2. ASSUME NEW i \in Parsed(answer.payload)
        PROVE  \/ Settled(answer.payload, answer.refused, i)'
               \/ ~inline' /\ (cutOff' \/ \E q \in Requests : Waits(q, answer.payload.messages[i])')
    <3> DEFINE n == answer.payload.messages[i]
    <3>1. CASE Settled(answer.payload, answer.refused, i)
      BY <1>3, <3>1
    <3>2. ASSUME ~inline, NEW q \in Requests, Waits(q, n)
          PROVE  n \in handled' \/ cutOff' \/ Waits(q, n)'
      BY <1>1, <1>2, <1>4, <3>2, ZenonT(40) DEF Waits
    <3>3. n \in handled' => Settled(answer.payload, answer.refused, i)'
      BY DEF Settled
    <3> QED
      BY <1>1, <2>1, <2>2, <3>1, <3>2, <3>3 DEF Kept
  <2> QED
    BY <2>1, <2>2 DEF Kept, Parsed
<1> QED
  BY <1>1, <1>2, <1>5, <1>6 DEF HandledInv

\* When the queue is empty everything was handled, and the 200 may say so.
LEMMA FinishHandles ==
  ASSUME HandledInv, NEW r \in Requests, Finish(r)
  PROVE  HandledInv'
<1>1. /\ time' = time /\ time \in Int /\ inline' = inline /\ acked' = acked \cup {Receipt(r)}
      /\ handled' = handled /\ cutOff' = cutOff
      /\ request[r].at = "turns" /\ request[r].queue = {}
      /\ request' = [request EXCEPT ![r] = Idle]
      /\ request = [q \in Requests |-> request[q]]
  BY DEF Finish, envVars, HandledInv, InStage
<1>2. /\ request' = [q \in Requests |-> request'[q]]
      /\ \A q \in Requests : request'[q] = request[q] \/ (q = r /\ request'[q].at = "idle")
  BY <1>1 DEF Idle
<1>3. \A p, refused, i : Settled(p, refused, i) => Settled(p, refused, i)'
  BY <1>1 DEF Settled, IsFresh, Allows
<1>4. ASSUME NEW q \in Requests PROVE Remembers(q)'
  <2>1. Remembers(q)
    BY DEF HandledInv
  <2>2. CASE request'[q] = request[q]
    BY <1>3, <2>1, <2>2 DEF Remembers, InTurns, Parsed, Settled
  <2>3. CASE request'[q].at = "idle"
    BY <2>3 DEF Remembers, InTurns
  <2> QED
    BY <1>2, <2>2, <2>3
<1>5. ASSUME NEW answer \in acked PROVE Kept(answer)'
  <2>1. Kept(answer)
    BY DEF HandledInv
  <2>2. \A m, q : q \in Requests /\ Waits(q, m) => Waits(q, m)'
    BY <1>1, <1>2 DEF Waits
  <2> QED
    BY <1>1, <1>3, <2>1, <2>2 DEF Kept, Parsed, Settled
<1>6. ASSUME NEW answer, answer = Receipt(r) PROVE Kept(answer)'
  <2>1. Remembers(r)
    BY DEF HandledInv
  <2>2. answer.payload = request[r].payload /\ answer.refused = request[r].refused
    BY <1>6 DEF Receipt
  <2>3. /\ answer.payload \in Payloads
        /\ \A i \in Parsed(answer.payload) : Settled(answer.payload, answer.refused, i)
    BY <1>1, <2>1, <2>2 DEF Remembers, InTurns
  <2>4. \A i \in Parsed(answer.payload) : Settled(answer.payload, answer.refused, i)'
    BY <1>3, <2>3
  <2> QED
    BY <2>3, <2>4 DEF Kept, Parsed
<1>7. \A answer \in acked' : answer \in acked \/ answer = Receipt(r)
  BY <1>1
<1> QED
  BY <1>1, <1>2, <1>4, <1>5, <1>6, <1>7 DEF HandledInv

\* A turn and a send leave the request its payload and its queue.
LEMMA SendingHandles ==
  ASSUME ShownInv, HandledInv, NEW r \in Requests, Turn(r) \/ Send(r)
  PROVE  HandledInv'
<1>1. request = [q \in Requests |-> request[q]]
  BY DEF HandledInv
<1>2. /\ time' = time /\ handled' = handled /\ acked' = acked /\ inline' = inline /\ cutOff' = cutOff
      /\ InTurns(r)
  BY DEF Turn, Send, logVars, InStage, InTurns
<1>3. CASE Turn(r)
  <2>1. PICK replies, raises : Sending(r, replies, raises)
    BY <1>3 DEF Turn
  <2>2. request' = [request EXCEPT ![r] =
                      [at |-> "sending", payload |-> request[r].payload, queue |-> request[r].queue,
                       refused |-> request[r].refused, replies |-> replies, attempt |-> 1, raises |-> raises]]
    BY <2>1 DEF Sending
  <2>3. /\ request' = [q \in Requests |-> request'[q]]
        /\ \A q \in Requests \ {r} : request'[q] = request[q]
        /\ InTurns(r)' /\ request'[r].payload = request[r].payload
        /\ request'[r].queue = request[r].queue /\ request'[r].refused = request[r].refused
    BY <1>1, <2>2 DEF InTurns
  <2> QED
    BY <1>2, <2>3, PromiseKept
<1>4. CASE Send(r)
  <2>1. InStage(r, "sending") /\ (Sent(r) \/ SendFailed(r))
    BY <1>4 DEF Send
  <2>2. /\ request' = [q \in Requests |-> request'[q]]
        /\ \A q \in Requests \ {r} : request'[q] = request[q]
        /\ InTurns(r)' /\ request'[r].payload = request[r].payload
        /\ request'[r].queue = request[r].queue /\ request'[r].refused = request[r].refused
    BY <2>1, TriedRequest DEF ShownInv, InTurns
  <2> QED
    BY <1>2, <2>2, PromiseKept
<1> QED
  BY <1>3, <1>4

\* Nothing has been promised to begin with.
LEMMA InitHandled == IntakeInit => HandledInv
BY DEF IntakeInit, HandledInv, Remembers, InTurns, Idle

\* Every step keeps the promises.
LEMMA NextHandled ==
  ASSUME ShownInv, HandledInv, [IntakeNext]_intakeVars
  PROVE  HandledInv'
<1>1. request = [r \in Requests |-> request[r]]
  BY DEF HandledInv
<1>2. CASE Elapse
  BY <1>1, <1>2, PromiseKept DEF Elapse, logVars
<1>3. CASE Crash
  <2>1. /\ request' = [r \in Requests |-> Idle] /\ cutOff' = TRUE
        /\ time' = time /\ handled' = handled /\ acked' = acked /\ inline' = inline
    BY <1>3 DEF Crash
  <2> QED
    BY <2>1, PromiseKept DEF Idle
<1>4. ASSUME NEW r \in Requests, NEW p \in Payloads, Post(r, p) PROVE HandledInv'
  <2>1. /\ request' = [q \in Requests |-> request'[q]]
        /\ \A q \in Requests : \/ request'[q] = request[q]
                               \/ /\ request[q].at = "idle" /\ request'[q].at = "body"
                                  /\ request'[q].payload \in Payloads
    BY <1>1, <1>4 DEF Post, Idle
  <2>2. /\ time' = time /\ handled' = handled /\ acked' = acked /\ inline' = inline /\ cutOff' = cutOff
    BY <1>4 DEF Post, logVars
  <2> QED
    BY <2>1, <2>2, PromiseKept
<1>5. ASSUME NEW send \in late, Land(send) PROVE HandledInv'
  BY <1>1, <1>5, PromiseKept DEF Land, envVars, logVars
<1>6. CASE UNCHANGED intakeVars
  BY <1>1, <1>6, PromiseKept DEF intakeVars, envVars, logVars
<1> QED
  BY <1>2, <1>3, <1>4, <1>5, <1>6, AcceptHandles, SendingHandles, EndTurnHandles, FinishHandles
  DEF IntakeNext

\* The invariant says what the property says.
LEMMA HandledMeans == HandledInv => AcknowledgedIsHandled
BY DEF HandledInv, Kept, Settled, AcknowledgedIsHandled

\* Whatever requests overlap, whichever turns raise and wherever the process dies, a 200 with
\* inline processing means that every message of the payload has been through its turn, save those
\* too old, not listed or over budget: Meta may forget it.  Without inline processing, where the
\* 200 goes out first, a message can only be missing while its request is at its turns, or
\* after one raised or the process died (webhook.py, receive and _process).
THEOREM AcknowledgedMessagesAreHandled == IntakeSpec => []AcknowledgedIsHandled
<1>1. IntakeInit => ShownInv /\ HandledInv
  BY InitShown, InitHandled
<1>2. ShownInv /\ HandledInv /\ [IntakeNext]_intakeVars => ShownInv' /\ HandledInv'
  BY NextShown, NextHandled
<1>3. HandledInv => AcknowledgedIsHandled
  BY HandledMeans
<1> QED
  BY <1>1, <1>2, <1>3, PTL DEF IntakeSpec

-----------------------------------------------------------------------------
\* A set of numbers that is not empty has a least one.
LEMMA LeastNumber ==
  ASSUME NEW T \in SUBSET Nat, T # {}
  PROVE  \E x \in T : \A y \in T : x <= y
<1> DEFINE R == OpToRel(<, Nat)
<1>1. \E x \in T : \A y \in T : ~ (<<y, x>> \in R)
  <2> HIDE DEF R
  <2>1. IsWellFoundedOn(R, Nat)
    BY NatLessThanWellFounded DEF R
  <2> QED
    BY <2>1, WFMin
<1>2. \A x, y \in Nat : <<y, x>> \in R <=> y < x
  BY DEF OpToRel
<1>3. PICK x \in T : \A y \in T : ~ (<<y, x>> \in R)
  BY <1>1
<1> HIDE DEF R
<1>4. ASSUME NEW y \in T PROVE x <= y
  <2>1. x \in Nat /\ y \in Nat /\ ~ (y < x)
    BY <1>2, <1>3
  <2> QED
    BY <2>1
<1> QED
  BY <1>4

-----------------------------------------------------------------------------
(***************************************************************************)
(* What the limiter remembers of a sender.                                 *)
(***************************************************************************)
\* Times that came one after the other, none later than now.
Stamped(stamps, now) ==
    /\ stamps \in Seq(Int)
    /\ \A i \in 1..Len(stamps) : stamps[i] <= now
    /\ \A i, j \in 1..Len(stamps) : i < j => stamps[i] <= stamps[j]

\* The k-th last of them still counts.
Counts(stamps, k, now) == k < Len(stamps) /\ stamps[Len(stamps) - k] >= now - SenderLimit.window

\* What still counts of the one is in the other, at the same place from the end.
AsIn(some, all, now) ==
    \A k \in Nat : Counts(some, k, now) => k < Len(all) /\ all[Len(all) - k] = some[Len(some) - k]

\* What Live keeps are those that count, and they are the last.
LEMMA LiveIsTheTail ==
  ASSUME NEW now \in Int, NEW stamps, Stamped(stamps, now), NEW kept,
         kept = Live(SenderLimit, stamps, now)
  PROVE  /\ Stamped(kept, now) /\ Len(kept) \in Nat /\ Len(kept) <= Len(stamps)
         /\ \A k \in Nat : k < Len(kept) <=> Counts(stamps, k, now)
         /\ \A k \in Nat : k < Len(kept) => kept[Len(kept) - k] = stamps[Len(stamps) - k]
         /\ Cardinality(Counting(SenderLimit, stamps, now)) = Len(kept)
<1> DEFINE C == Counting(SenderLimit, stamps, now)
<1>1. SenderLimit.window \in Nat
  BY IntakeAssumption
<1>2. PICK n \in Nat : n = Len(stamps)
  BY LenProperties DEF Stamped
<1>3. \A i \in 1..n : stamps[i] \in Int
  BY <1>2, LenProperties DEF Stamped
<1>4. C \in SUBSET Nat /\ C = {i \in 1..n : stamps[i] >= now - SenderLimit.window}
  BY <1>2 DEF Counting
<1>5. CASE C = {}
  <2>1. kept = <<>> /\ Len(kept) = 0
    BY <1>5, EmptySeq DEF Live
  <2>2. Stamped(kept, now)
    BY <2>1, EmptySeq DEF Stamped
  <2>3. \A k \in Nat : ~Counts(stamps, k, now)
    <3> SUFFICES ASSUME NEW k \in Nat, Counts(stamps, k, now) PROVE FALSE
      OBVIOUS
    <3>1. n - k \in 1..n /\ stamps[n - k] >= now - SenderLimit.window
      BY <1>2 DEF Counts
    <3> QED
      BY <1>4, <1>5, <3>1
  <2>4. Cardinality(C) = 0
    BY <1>5, FS_EmptySet
  <2> QED
    BY <1>2, <2>1, <2>2, <2>3, <2>4
<1>6. CASE C # {}
  <2>1. PICK m \in C : m = Min(C) /\ \A y \in C : m <= y
    <3> HIDE DEF C
    <3>1. PICK x \in C : \A y \in C : x <= y
      BY <1>4, <1>6, LeastNumber
    <3>2. Min(C) \in C /\ \A y \in C : Min(C) <= y
      BY <3>1 DEF Min
    <3> QED
      BY <3>2
  <2>2. m \in 1..n /\ stamps[m] >= now - SenderLimit.window
    BY <1>4, <2>1
  <2>3. kept = SubSeq(stamps, m, n)
    BY <1>2, <1>6, <2>1 DEF Live
  <2>4. /\ kept \in Seq(Int) /\ Len(kept) = n - m + 1
        /\ \A i \in 1..n - m + 1 : kept[i] = stamps[m + i - 1]
    <3>1. \A i \in m..n : stamps[i] \in Int
      BY <1>3, <2>2
    <3> QED
      BY <2>2, <2>3, <3>1, SubSeqProperties
  <2>5. \A i \in 1..n : m <= i <=> stamps[i] >= now - SenderLimit.window
    <3>1. \A i \in 1..n : stamps[i] >= now - SenderLimit.window => m <= i
      BY <1>4, <2>1
    <3>2. \A i \in 1..n : m < i => stamps[m] <= stamps[i]
      BY <1>2, <2>2 DEF Stamped
    <3>3. \A i \in 1..n : m <= i => stamps[i] >= now - SenderLimit.window
      <4> SUFFICES ASSUME NEW i \in 1..n, m < i PROVE stamps[i] >= now - SenderLimit.window
        BY <2>2
      <4>1. stamps[m] <= stamps[i] /\ stamps[m] \in Int /\ stamps[i] \in Int
        BY <1>3, <2>2, <3>2
      <4> QED
        BY <1>1, <2>2, <4>1
    <3> QED
      BY <3>1, <3>3
  <2>6. C = m..n
    BY <1>4, <2>2, <2>5
  <2>7. Cardinality(C) = n - m + 1
    BY <2>2, <2>6, FS_Interval
  <2>8. \A k \in Nat : k < Len(kept) <=> Counts(stamps, k, now)
    <3> SUFFICES ASSUME NEW k \in Nat PROVE k < Len(kept) <=> Counts(stamps, k, now)
      OBVIOUS
    <3>1. CASE k < n
      <4>1. n - k \in 1..n
        BY <3>1
      <4>2. m <= n - k <=> stamps[n - k] >= now - SenderLimit.window
        BY <2>5, <4>1
      <4>3. k < Len(kept) <=> m <= n - k
        BY <2>2, <2>4
      <4> QED
        BY <1>2, <3>1, <4>2, <4>3 DEF Counts
    <3>2. CASE k >= n
      BY <1>2, <2>2, <2>4, <3>2 DEF Counts
    <3> QED
      BY <3>1, <3>2
  <2>9. \A k \in Nat : k < Len(kept) => kept[Len(kept) - k] = stamps[Len(stamps) - k]
    <3> SUFFICES ASSUME NEW k \in Nat, k < Len(kept) PROVE kept[Len(kept) - k] = stamps[Len(stamps) - k]
      OBVIOUS
    <3>1. Len(kept) - k = n - m + 1 - k /\ Len(stamps) - k = n - k /\ k < n - m + 1
      BY <1>2, <2>2, <2>4
    <3>2. n - m + 1 - k \in 1..n - m + 1 /\ m + (n - m + 1 - k) - 1 = n - k
      BY <2>2, <3>1
    <3>3. kept[n - m + 1 - k] = stamps[n - k]
      BY <2>4, <3>2
    <3> QED
      BY <3>1, <3>3
  <2>10. Stamped(kept, now)
    <3>1. \A i \in 1..Len(kept) : m + i - 1 \in 1..n /\ kept[i] = stamps[m + i - 1]
      BY <2>2, <2>4
    <3>2. \A i, j \in 1..Len(kept) : i < j => m + i - 1 < m + j - 1
      BY <2>2, <2>4
    <3> QED
      BY <1>2, <2>4, <3>1, <3>2 DEF Stamped
  <2>11. Len(kept) \in Nat /\ Len(kept) <= Len(stamps)
    BY <1>2, <2>2, <2>4
  <2> QED
    BY <2>4, <2>7, <2>8, <2>9, <2>10, <2>11
<1> QED
  BY <1>5, <1>6

\* As time goes by fewer count.
LEMMA CountsLess ==
  ASSUME NEW now \in Int, NEW later \in Int, now <= later, NEW stamps \in Seq(Int), NEW k \in Nat,
         Counts(stamps, k, later)
  PROVE  Counts(stamps, k, now)
<1>1. SenderLimit.window \in Nat
  BY IntakeAssumption
<1>2. Len(stamps) \in Nat /\ Len(stamps) - k \in 1..Len(stamps)
  BY LenProperties DEF Counts
<1>3. stamps[Len(stamps) - k] \in Int
  BY <1>2, ElementOfSeq
<1> QED
  BY <1>1, <1>3 DEF Counts

\* Times that came by now came by later.
LEMMA StampedLater ==
  ASSUME NEW now \in Int, NEW later \in Int, now <= later, NEW stamps, Stamped(stamps, now)
  PROVE  Stamped(stamps, later)
<1>1. \A i \in 1..Len(stamps) : stamps[i] \in Int /\ stamps[i] <= now
  BY ElementOfSeq DEF Stamped
<1> QED
  BY <1>1 DEF Stamped

\* What counts of one side is found again when either side forgets what does not count.
LEMMA LiveAsIn ==
  ASSUME NEW now \in Int, NEW later \in Int, now <= later, NEW some, NEW all,
         Stamped(some, now), Stamped(all, now), AsIn(some, all, now)
  PROVE  /\ AsIn(some, all, later)
         /\ AsIn(Live(SenderLimit, some, later), all, later)
         /\ AsIn(some, Live(SenderLimit, all, later), later)
<1>0. Stamped(some, later) /\ Stamped(all, later)
  BY StampedLater
<1>1. AsIn(some, all, later)
  BY CountsLess DEF AsIn, Stamped
<1>2. PICK kept : kept = Live(SenderLimit, some, later)
  OBVIOUS
<1>3. \A k \in Nat : Counts(kept, k, later) => Counts(some, k, later) /\ kept[Len(kept) - k] = some[Len(some) - k]
  BY <1>0, <1>2, LiveIsTheTail DEF Counts
<1>4. AsIn(kept, all, later)
  BY <1>1, <1>3 DEF AsIn
<1>5. PICK rest : rest = Live(SenderLimit, all, later)
  OBVIOUS
<1>6. \A k \in Nat : Counts(all, k, later) => k < Len(rest) /\ rest[Len(rest) - k] = all[Len(all) - k]
  BY <1>0, <1>5, LiveIsTheTail
<1>7. \A k \in Nat : Counts(some, k, later) => Counts(all, k, later)
  BY <1>1 DEF AsIn, Counts
<1>8. AsIn(some, rest, later)
  BY <1>1, <1>6, <1>7 DEF AsIn
<1> QED
  BY <1>1, <1>2, <1>4, <1>5, <1>8

\* A hit now is the last of both sides.
LEMMA AppendAsIn ==
  ASSUME NEW now \in Int, NEW some, NEW all,
         Stamped(some, now), Stamped(all, now), AsIn(some, all, now)
  PROVE  /\ Stamped(Append(some, now), now) /\ Len(Append(some, now)) = Len(some) + 1
         /\ AsIn(Append(some, now), Append(all, now), now)
<1>1. ASSUME NEW x, Stamped(x, now)
      PROVE  /\ Stamped(Append(x, now), now) /\ Len(Append(x, now)) = Len(x) + 1 /\ Len(x) \in Nat
             /\ Append(x, now)[Len(x) + 1] = now
             /\ \A k \in Nat \ {0} : k < Len(x) + 1 => Append(x, now)[Len(x) + 1 - k] = x[Len(x) - (k - 1)]
  <2> DEFINE y == Append(x, now)
  <2>1. x \in Seq(Int) /\ Len(x) \in Nat
    BY <1>1, LenProperties DEF Stamped
  <2>2. /\ y \in Seq(Int) /\ Len(y) = Len(x) + 1
        /\ \A i \in 1..Len(x) : y[i] = x[i]
        /\ y[Len(x) + 1] = now
    BY <2>1, AppendProperties
  <2> HIDE DEF y
  <2>3. \A i \in 1..Len(y) : i \in 1..Len(x) \/ i = Len(x) + 1
    BY <2>1, <2>2
  <2>4. \A i \in 1..Len(y) : y[i] <= now
    <3> SUFFICES ASSUME NEW i \in 1..Len(y) PROVE y[i] <= now
      OBVIOUS
    <3>1. CASE i = Len(x) + 1
      BY <2>2, <3>1
    <3>2. CASE i \in 1..Len(x)
      <4>1. y[i] = x[i] /\ x[i] <= now
        BY <1>1, <2>2, <3>2 DEF Stamped
      <4> QED
        BY <4>1
    <3> QED
      BY <2>3, <3>1, <3>2
  <2>5. \A i, j \in 1..Len(y) : i < j => y[i] <= y[j]
    <3> SUFFICES ASSUME NEW i \in 1..Len(y), NEW j \in 1..Len(y), i < j PROVE y[i] <= y[j]
      OBVIOUS
    <3>1. CASE j = Len(x) + 1
      BY <2>2, <2>4, <3>1
    <3>2. CASE j # Len(x) + 1
      <4>1. i \in 1..Len(x) /\ j \in 1..Len(x)
        <5>1. PICK n \in Nat : n = Len(x) /\ i \in 1..n + 1 /\ j \in 1..n + 1
          BY <2>1, <2>2
        <5>2. i \in 1..n /\ j \in 1..n
          BY <3>2, <5>1
        <5> QED
          BY <5>1, <5>2
      <4> QED
        BY <1>1, <2>2, <4>1 DEF Stamped
    <3> QED
      BY <3>1, <3>2
  <2>6. \A k \in Nat \ {0} : k < Len(x) + 1 => y[Len(x) + 1 - k] = x[Len(x) - (k - 1)]
    <3> SUFFICES ASSUME NEW k \in Nat \ {0}, k < Len(x) + 1 PROVE y[Len(x) + 1 - k] = x[Len(x) - (k - 1)]
      OBVIOUS
    <3>1. PICK n \in Nat : n = Len(x)
      BY <2>1
    <3>2. n + 1 - k \in 1..n /\ n + 1 - k = n - (k - 1)
      BY <3>1
    <3>3. y[n + 1 - k] = x[n + 1 - k]
      BY <2>2, <3>1, <3>2
    <3> QED
      BY <3>1, <3>2, <3>3
  <2>7. Stamped(y, now)
    BY <2>2, <2>4, <2>5 DEF Stamped
  <2> QED
    BY <2>1, <2>2, <2>6, <2>7 DEF y
<1> DEFINE s == Append(some, now)
           a == Append(all, now)
<1>2. ASSUME NEW k \in Nat, Counts(s, k, now)
      PROVE  k < Len(a) /\ a[Len(a) - k] = s[Len(s) - k]
  <2>1. CASE k = 0
    BY <1>1, <2>1
  <2>2. CASE k # 0
    <3>1. /\ k - 1 \in Nat /\ Len(some) \in Nat /\ Len(all) \in Nat
          /\ k < Len(some) + 1 /\ s[Len(s) - k] = some[Len(some) - (k - 1)]
      BY <1>1, <1>2, <2>2 DEF Counts
    <3>2. Counts(some, k - 1, now)
      BY <1>2, <3>1 DEF Counts
    <3>3. k - 1 < Len(all) /\ all[Len(all) - (k - 1)] = some[Len(some) - (k - 1)]
      BY <3>1, <3>2 DEF AsIn
    <3>4. k < Len(all) + 1 /\ a[Len(all) + 1 - k] = all[Len(all) - (k - 1)] /\ Len(a) = Len(all) + 1
      BY <1>1, <2>2, <3>1, <3>3
    <3> QED
      BY <3>1, <3>3, <3>4
  <2> QED
    BY <2>1, <2>2
<1> QED
  BY <1>1, <1>2 DEF AsIn

-----------------------------------------------------------------------------
(***************************************************************************)
(* The budgets of the senders.                                             *)
(***************************************************************************)
\* The limiter may have forgotten times of a sender, and makes up none.
Sound(hits, through, s, now) ==
    /\ Stamped(HitsOf(hits, s), now) /\ Stamped(through[s], now)
    /\ Len(HitsOf(hits, s)) <= SenderLimit.limit
    /\ AsIn(HitsOf(hits, s), through[s], now)

\* It has not forgotten one.
Complete(hits, through, s, now) == AsIn(through[s], HitsOf(hits, s), now)

\* More senders were let through of late than it has keys for.
Full(through) == Cardinality({s \in Senders : through[s] # <<>>}) > SenderLimit.keys

Ledger(hits, through, now, forgets) ==
    /\ through \in [Senders -> Seq(Int)] /\ DOMAIN hits \subseteq Senders
    /\ \A s \in Senders : Sound(hits, through, s, now)
    /\ \A s \in Senders : Complete(hits, through, s, now) \/ forgets \/ Full(through)

BudgetInv ==
    /\ time \in Int
    /\ Ledger(senderHits, accepted, time, crowded)
    /\ Full(accepted) => crowded

\* Nothing of nothing counts.
LEMMA EmptyAsIn ==
  ASSUME NEW all, NEW now
  PROVE  Stamped(<<>>, now) /\ Len(<<>>) = 0 /\ AsIn(<<>>, all, now)
BY EmptySeq DEF Stamped, AsIn, Counts

\* More messages let through leave the limiter as full.
LEMMA FullStays ==
  ASSUME NEW before \in [Senders -> Seq(Int)], NEW after \in [Senders -> Seq(Int)],
         \A s \in Senders : before[s] # <<>> => after[s] # <<>>, Full(before)
  PROVE  Full(after)
<1> DEFINE B == {s \in Senders : before[s] # <<>>}
           A == {s \in Senders : after[s] # <<>>}
<1>1. B \subseteq A /\ IsFiniteSet(A)
  BY IntakeAssumption, FS_Subset
<1>2. /\ Cardinality(B) <= Cardinality(A)
      /\ Cardinality(B) \in Nat /\ Cardinality(A) \in Nat /\ SenderLimit.keys \in Nat
  BY <1>1, FS_Subset, FS_CardinalityType, IntakeAssumption
<1>3. Cardinality(B) > SenderLimit.keys
  BY DEF Full
<1>4. Cardinality(A) > SenderLimit.keys
  <2> HIDE DEF A, B
  <2> QED
    BY <1>2, <1>3
<1> QED
  BY <1>4 DEF Full

\* Eviction forgets keys with nothing that counts, or one of too many.
LEMMA EvictForgets ==
  ASSUME time \in Int, NEW hits, NEW through, NEW key \in Senders, Ledger(hits, through, time, crowded),
         Cardinality(DOMAIN hits) > SenderLimit.keys
  PROVE  Ledger(Evict(SenderLimit, hits, key, time), through, time, crowded)
<1> DEFINE stale == {k \in DOMAIN hits : hits[k] = <<>> \/ Last(hits[k]) < time - SenderLimit.window}
           others == DOMAIN hits \ {key}
           oldest == CHOOSE k \in others : \A j \in others : Last(hits[k]) <= Last(hits[j])
<1>0. SenderLimit.window \in Nat /\ SenderLimit.limit \in Nat /\ SenderLimit.keys \in Nat
  BY IntakeAssumption
<1>1. PICK keys : /\ Evict(SenderLimit, hits, key, time) = Without(hits, keys) \/
                     (stale = {} /\ Evict(SenderLimit, hits, key, time) = hits)
                  /\ stale # {} => keys = stale
  <2>1. CASE stale # {}
    BY <2>1 DEF Evict
  <2>2. CASE stale = {}
    BY <2>2 DEF Evict
  <2> QED
    BY <2>1, <2>2
<1>2. PICK left : left = Evict(SenderLimit, hits, key, time)
  OBVIOUS
<1> DEFINE lost == Without(hits, keys)
<1>10. /\ DOMAIN lost = DOMAIN hits \ keys
       /\ \A k : HitsOf(lost, k) = IF k \in keys THEN <<>> ELSE HitsOf(hits, k)
  BY DEF lost, Without, HitsOf
<1>11. left = lost \/ (stale = {} /\ left = hits)
  BY <1>1, <1>2
<1> HIDE DEF lost
<1>3. DOMAIN left \subseteq Senders
  BY <1>10, <1>11 DEF Ledger
<1>4. \A s \in Senders : HitsOf(left, s) = HitsOf(hits, s) \/ HitsOf(left, s) = <<>>
  BY <1>10, <1>11
<1>5. \A s \in Senders : Sound(left, through, s, time)
  <2> SUFFICES ASSUME NEW s \in Senders PROVE Sound(left, through, s, time)
    OBVIOUS
  <2>1. Sound(hits, through, s, time)
    BY DEF Ledger
  <2>2. CASE HitsOf(left, s) = HitsOf(hits, s)
    BY <2>1, <2>2 DEF Sound
  <2>3. CASE HitsOf(left, s) = <<>>
    BY <1>0, <2>1, <2>3, EmptyAsIn DEF Sound
  <2> QED
    BY <1>4, <2>2, <2>3
<1>6. ASSUME NEW s \in Senders PROVE HitsOf(hits, s) \in Seq(Int) /\ Len(HitsOf(hits, s)) \in Nat
  BY LenProperties DEF Ledger, Sound, Stamped
<1>7. ASSUME stale # {}, NEW s \in Senders, Complete(hits, through, s, time)
      PROVE  Complete(left, through, s, time)
  <2>1. CASE s \notin stale
    BY <1>1, <1>7, <1>10, <1>11, <2>1 DEF Complete
  <2>2. CASE s \in stale
    <3>1. PICK h : h = HitsOf(hits, s) /\ (h = <<>> \/ h[Len(h)] < time - SenderLimit.window)
      BY <2>2 DEF HitsOf, Last
    <3>2. h \in Seq(Int) /\ Len(h) \in Nat /\ Stamped(h, time)
      BY <1>6, <3>1 DEF Ledger, Sound
    <3>3. \A k \in Nat : ~Counts(h, k, time)
      <4> SUFFICES ASSUME NEW k \in Nat, Counts(h, k, time) PROVE FALSE
        OBVIOUS
      <4>1. PICK n \in Nat : n = Len(h) /\ k < n
        BY <3>2 DEF Counts
      <4>2. h # <<>> /\ n \in 1..n /\ n - k \in 1..n
        BY <4>1, EmptySeq
      <4>3. h[n] \in Int /\ h[n - k] \in Int
        BY <3>2, <4>1, <4>2, ElementOfSeq
      <4>4. h[n - k] <= h[n]
        BY <3>2, <4>1, <4>2, <4>3 DEF Stamped
      <4>5. h[n - k] >= time - SenderLimit.window /\ h[n] < time - SenderLimit.window
        BY <3>1, <4>1, <4>2 DEF Counts
      <4> QED
        BY <1>0, <4>3, <4>4, <4>5
    <3>4. \A k \in Nat : ~Counts(through[s], k, time)
      <4> SUFFICES ASSUME NEW k \in Nat, Counts(through[s], k, time) PROVE FALSE
        OBVIOUS
      <4>1. k < Len(h) /\ h[Len(h) - k] = through[s][Len(through[s]) - k]
        BY <1>7, <3>1 DEF Complete, AsIn
      <4> QED
        BY <3>3, <4>1 DEF Counts
    <3> QED
      BY <3>4 DEF Complete, AsIn
  <2> QED
    BY <2>1, <2>2
<1>8. ASSUME stale = {} PROVE Full(through)
  <2> DEFINE T == {s \in Senders : through[s] # <<>>}
  <2>1. ASSUME NEW s \in DOMAIN hits PROVE s \in T
    <3>1. PICK h : h = HitsOf(hits, s) /\ h # <<>> /\ ~(h[Len(h)] < time - SenderLimit.window) /\ s \in Senders
      BY <1>8, <2>1 DEF HitsOf, Last, Ledger
    <3>2. PICK n \in Nat \ {0} : n = Len(h) /\ h[n] \in Int
      <4>1. h \in Seq(Int) /\ Len(h) \in Nat \ {0}
        BY <1>6, <3>1, EmptySeq
      <4> QED
        BY <4>1, ElementOfSeq
    <3>3. Counts(h, 0, time)
      BY <1>0, <3>1, <3>2 DEF Counts
    <3>4. 0 < Len(through[s])
      BY <3>1, <3>3 DEF Ledger, Sound, AsIn
    <3> QED
      BY <3>1, <3>4, EmptySeq
  <2>2. DOMAIN hits \subseteq T /\ IsFiniteSet(T)
    BY <2>1, IntakeAssumption, FS_Subset
  <2>3. Cardinality(DOMAIN hits) <= Cardinality(T) /\ Cardinality(DOMAIN hits) \in Nat /\ Cardinality(T) \in Nat
    BY <2>2, FS_Subset, FS_CardinalityType
  <2> HIDE DEF T
  <2>4. Cardinality(T) > SenderLimit.keys
    BY <1>0, <2>3
  <2> QED
    BY <2>4 DEF Full, T
<1>9. \A s \in Senders : Complete(left, through, s, time) \/ crowded \/ Full(through)
  BY <1>7, <1>8 DEF Ledger
<1> QED
  BY <1>2, <1>3, <1>5, <1>9 DEF Ledger

\* A message within budget is noted on both sides; one over it only makes the limiter forget what
\* does not count.
LEMMA SpendKeeps ==
  ASSUME time \in Int, NEW sofar, NEW i, NEW sender \in Senders, Ledger(sofar.hits, sofar.accepted, time, crowded)
  PROVE  Ledger(Spend(sofar, i, sender).hits, Spend(sofar, i, sender).accepted, time, crowded)
<1>0. SenderLimit.window \in Nat /\ SenderLimit.limit \in Nat \ {0} /\ SenderLimit.keys \in Nat
  BY IntakeAssumption
<1>1. PICK hits, through : hits = sofar.hits /\ through = sofar.accepted /\ Ledger(hits, through, time, crowded)
  OBVIOUS
<1>2. PICK h : h = HitsOf(hits, sender)
  OBVIOUS
<1>3. PICK kept : kept = Live(SenderLimit, h, time)
  OBVIOUS
<1>4. /\ Stamped(h, time) /\ Stamped(through[sender], time) /\ Len(h) <= SenderLimit.limit
      /\ AsIn(h, through[sender], time)
      /\ Complete(hits, through, sender, time) => AsIn(through[sender], h, time)
  BY <1>1, <1>2 DEF Ledger, Sound, Complete
<1>5. /\ Stamped(kept, time) /\ Len(kept) \in Nat /\ Len(kept) <= SenderLimit.limit
      /\ AsIn(kept, through[sender], time)
      /\ Complete(hits, through, sender, time) => AsIn(through[sender], kept, time)
  <2>1. Len(h) \in Nat
    BY <1>4, LenProperties DEF Stamped
  <2>2. Stamped(kept, time) /\ Len(kept) \in Nat /\ Len(kept) <= Len(h)
    BY <1>3, <1>4, LiveIsTheTail
  <2>3. AsIn(kept, through[sender], time)
    BY <1>3, <1>4, LiveAsIn
  <2>4. AsIn(through[sender], h, time) => AsIn(through[sender], kept, time)
    BY <1>3, <1>4, LiveAsIn
  <2> QED
    BY <1>0, <1>4, <2>1, <2>2, <2>3, <2>4
<1>6. CASE Len(kept) >= SenderLimit.limit
  <2>1. PICK after : after = WithHits(hits, sender, kept)
    OBVIOUS
  <2>2. Spend(sofar, i, sender).hits = after /\ Spend(sofar, i, sender).accepted = through
    BY <1>1, <1>2, <1>3, <1>6, <2>1 DEF Spend, Allow
  <2>3. /\ DOMAIN after \subseteq Senders
        /\ \A s \in Senders : HitsOf(after, s) = IF s = sender THEN kept ELSE HitsOf(hits, s)
    <3>1. /\ DOMAIN after = DOMAIN hits \cup {sender}
          /\ \A s : HitsOf(after, s) = IF s = sender THEN kept ELSE HitsOf(hits, s)
      BY <2>1 DEF WithHits, HitsOf
    <3> QED
      BY <1>1, <3>1 DEF Ledger
  <2>4. \A s \in Senders : Sound(after, through, s, time)
    BY <1>1, <1>5, <2>3 DEF Ledger, Sound
  <2>5. \A s \in Senders : Complete(hits, through, s, time) => Complete(after, through, s, time)
    BY <1>5, <2>3 DEF Complete
  <2> QED
    BY <1>1, <2>2, <2>3, <2>4, <2>5 DEF Ledger
<1>7. CASE ~(Len(kept) >= SenderLimit.limit)
  <2>1. PICK longer : longer = Append(kept, time)
    OBVIOUS
  <2>2. PICK counted : counted = WithHits(hits, sender, longer)
    OBVIOUS
  <2>3. PICK more : more = [through EXCEPT ![sender] = Append(through[sender], time)]
    OBVIOUS
  <2>4. Spend(sofar, i, sender).accepted = more
    BY <1>1, <1>2, <1>3, <1>7, <2>3 DEF Spend, Allow
  <2>5. Spend(sofar, i, sender).hits =
           IF Cardinality(DOMAIN counted) > SenderLimit.keys THEN Evict(SenderLimit, counted, sender, time)
           ELSE counted
    BY <1>1, <1>2, <1>3, <1>7, <2>1, <2>2 DEF Spend, Allow
  <2>6. /\ Stamped(longer, time) /\ Len(longer) <= SenderLimit.limit
        /\ Stamped(Append(through[sender], time), time)
        /\ AsIn(longer, Append(through[sender], time), time)
        /\ Complete(hits, through, sender, time) => AsIn(Append(through[sender], time), longer, time)
    <3>1. Stamped(longer, time) /\ Len(longer) = Len(kept) + 1 /\ AsIn(longer, Append(through[sender], time), time)
      BY <1>4, <1>5, <2>1, AppendAsIn
    <3>2. AsIn(through[sender], through[sender], time)
      BY DEF AsIn, Counts
    <3>3. Stamped(Append(through[sender], time), time)
      BY <1>4, <3>2, AppendAsIn
    <3>4. Complete(hits, through, sender, time) => AsIn(Append(through[sender], time), longer, time)
      BY <1>4, <1>5, <2>1, AppendAsIn
    <3>5. Len(longer) <= SenderLimit.limit
      BY <1>0, <1>5, <1>7, <3>1
    <3> QED
      BY <3>1, <3>3, <3>4, <3>5
  <2>7. /\ DOMAIN counted \subseteq Senders
        /\ \A s \in Senders : HitsOf(counted, s) = IF s = sender THEN longer ELSE HitsOf(hits, s)
    <3>1. /\ DOMAIN counted = DOMAIN hits \cup {sender}
          /\ \A s : HitsOf(counted, s) = IF s = sender THEN longer ELSE HitsOf(hits, s)
      BY <2>2 DEF WithHits, HitsOf
    <3> QED
      BY <1>1, <3>1 DEF Ledger
  <2>8. /\ more \in [Senders -> Seq(Int)]
        /\ \A s \in Senders : more[s] = IF s = sender THEN Append(through[sender], time) ELSE through[s]
    BY <1>1, <2>3, <2>6 DEF Ledger, Stamped
  <2>9. \A s \in Senders : Sound(counted, more, s, time)
    BY <1>1, <2>6, <2>7, <2>8 DEF Ledger, Sound
  <2>10. \A s \in Senders : Complete(hits, through, s, time) => Complete(counted, more, s, time)
    BY <2>6, <2>7, <2>8 DEF Complete
  <2>11. Full(through) => Full(more)
    <3>1. more[sender] # <<>>
      BY <1>4, <2>8, AppendProperties DEF Stamped
    <3>2. \A s \in Senders : through[s] # <<>> => more[s] # <<>>
      BY <2>8, <3>1
    <3> QED
      BY <1>1, <2>8, <3>2, FullStays DEF Ledger
  <2>12. Ledger(counted, more, time, crowded)
    BY <1>1, <2>7, <2>8, <2>9, <2>10, <2>11 DEF Ledger
  <2>13. Cardinality(DOMAIN counted) > SenderLimit.keys
            => Ledger(Evict(SenderLimit, counted, sender, time), more, time, crowded)
    BY <2>12, EvictForgets
  <2> QED
    BY <2>4, <2>5, <2>12, <2>13
<1> QED
  BY <1>6, <1>7

\* The places of a payload are gone through one by one.
LEMMA SpendingSteps ==
  ASSUME NEW p, Len(p.messages) \in Nat
  PROVE  /\ Spending(p)[0] = [hits |-> senderHits, accepted |-> accepted, refused |-> {}]
         /\ \A i \in 1..Len(p.messages) :
               Spending(p)[i] = IF i \in Passed(p) THEN Spend(Spending(p)[i - 1], i, p.messages[i].sender)
                                ELSE Spending(p)[i - 1]
<1> DEFINE Step(f, i) ==
             IF i = 0 THEN [hits |-> senderHits, accepted |-> accepted, refused |-> {}]
             ELSE IF i \in Passed(p) THEN Spend(f[i - 1], i, p.messages[i].sender)
             ELSE f[i - 1]
           Exists(n) == \E f : f = [i \in 0..n |-> Step(f, i)]
           Missing == {n \in Nat : ~Exists(n)}
<1>1. Exists(0)
  <2> DEFINE g == [i \in 0..0 |-> Step(<<>>, i)]
  <2>1. g = [i \in 0..0 |-> Step(g, i)]
    OBVIOUS
  <2> QED
    BY <2>1
<1>2. ASSUME NEW n \in Nat, Exists(n) PROVE Exists(n + 1)
  <2>1. PICK f : f = [i \in 0..n |-> Step(f, i)]
    BY <1>2
  <2> DEFINE g == [i \in 0..n + 1 |-> Step(f, i)]
  <2>2. \A i \in 0..n : g[i] = f[i]
    <3>1. \A i \in 0..n : g[i] = Step(f, i) /\ f[i] = Step(f, i)
      <4> HIDE DEF Step
      <4>1. \A i \in 0..n : g[i] = Step(f, i)
        OBVIOUS
      <4>2. \A i \in 0..n : f[i] = Step(f, i)
        BY <2>1
      <4> QED
        BY <4>1, <4>2
    <3> QED
      BY <3>1
  <2>3. \A i \in 0..n + 1 : Step(f, i) = Step(g, i)
    <3> HIDE DEF g
    <3> SUFFICES ASSUME NEW i \in 0..n + 1 PROVE Step(f, i) = Step(g, i)
      OBVIOUS
    <3>1. CASE i = 0
      BY <3>1
    <3>2. CASE i # 0
      <4>1. g[i - 1] = f[i - 1]
        BY <2>2, <3>2
      <4> QED
        BY <3>2, <4>1
    <3> QED
      BY <3>1, <3>2
  <2>4. g = [i \in 0..n + 1 |-> Step(g, i)]
    <3> HIDE DEF Step
    <3> QED
      BY <2>3
  <2> QED
    BY <2>4
<1>3. \A n \in Nat : Exists(n)
  <2> HIDE DEF Exists
  <2>1. SUFFICES ASSUME Missing # {} PROVE FALSE
    OBVIOUS
  <2>2. PICK n \in Missing : \A k \in Missing : n <= k
    BY <2>1, LeastNumber
  <2>3. n # 0 /\ n \in Nat
    BY <1>1, <2>2
  <2>4. n - 1 \in Nat /\ n - 1 \notin Missing
    BY <2>2, <2>3
  <2>5. Exists(n - 1 + 1)
    BY <1>2, <2>4
  <2> QED
    BY <2>2, <2>3, <2>5
<1>4. Spending(p) = [i \in 0..Len(p.messages) |-> Step(Spending(p), i)]
  BY <1>3 DEF Spending
<1>5. \A i \in 0..Len(p.messages) : Spending(p)[i] = Step(Spending(p), i)
  <2> HIDE DEF Step
  <2> QED
    BY <1>4
<1>6. Spending(p)[0] = [hits |-> senderHits, accepted |-> accepted, refused |-> {}]
  <2>1. 0 \in 0..Len(p.messages)
    OBVIOUS
  <2> QED
    BY <1>5, <2>1
<1>7. ASSUME NEW i \in 1..Len(p.messages)
      PROVE  Spending(p)[i] = IF i \in Passed(p) THEN Spend(Spending(p)[i - 1], i, p.messages[i].sender)
                              ELSE Spending(p)[i - 1]
  <2>1. i \in 0..Len(p.messages) /\ i # 0
    OBVIOUS
  <2> QED
    BY <1>5, <2>1
<1> QED
  BY <1>6, <1>7

\* Nothing that is spent on the way through a payload goes unnoted.
LEMMA SpendingKeeps ==
  ASSUME time \in Int, NEW p \in Payloads, Ledger(senderHits, accepted, time, crowded)
  PROVE  LET spent == Spending(p)[Len(p.messages)]
         IN  Ledger(spent.hits, spent.accepted, time, crowded)
<1> DEFINE Noted(n) == Ledger(Spending(p)[n].hits, Spending(p)[n].accepted, time, crowded)
           Missing == {n \in 0..Len(p.messages) : ~Noted(n)}
<1>1. p.messages \in Seq(ToSet(p.messages)) /\ Len(p.messages) \in Nat
  <2>1. p.messages \in Seq(ToSet(p.messages))
    BY IntakeAssumption
  <2> QED
    BY <2>1, LenProperties
<1>2. Noted(0)
  <2>1. Spending(p)[0].hits = senderHits /\ Spending(p)[0].accepted = accepted
    BY <1>1, SpendingSteps
  <2> QED
    BY <2>1
<1>3. ASSUME NEW n \in 1..Len(p.messages), Noted(n - 1) PROVE Noted(n)
  <2>1. Spending(p)[n] = IF n \in Passed(p) THEN Spend(Spending(p)[n - 1], n, p.messages[n].sender)
                         ELSE Spending(p)[n - 1]
    BY <1>1, SpendingSteps
  <2>2. CASE n \notin Passed(p)
    BY <1>3, <2>1, <2>2
  <2>3. CASE n \in Passed(p)
    <3>1. p.messages[n].sender \in Senders
      <4>1. n \in Parsed(p)
        BY <2>3 DEF Passed
      <4> QED
        BY <4>1, InPayload DEF Senders
    <3>2. PICK sofar, after : sofar = Spending(p)[n - 1] /\ after = Spending(p)[n]
      OBVIOUS
    <3>3. after = Spend(sofar, n, p.messages[n].sender)
      BY <2>1, <2>3, <3>2
    <3>4. Ledger(sofar.hits, sofar.accepted, time, crowded)
      BY <1>3, <3>2
    <3>5. Ledger(after.hits, after.accepted, time, crowded)
      BY <3>1, <3>3, <3>4, SpendKeeps
    <3> QED
      BY <3>2, <3>5
  <2> QED
    BY <2>2, <2>3
<1>4. \A n \in 0..Len(p.messages) : Noted(n)
  <2> HIDE DEF Noted
  <2>1. SUFFICES ASSUME Missing # {} PROVE FALSE
    OBVIOUS
  <2>2. PICK n \in Missing : \A k \in Missing : n <= k
    <3>1. Missing \in SUBSET Nat
      BY <1>1
    <3> HIDE DEF Missing
    <3> QED
      BY <2>1, <3>1, LeastNumber
  <2>3. n # 0 /\ n \in 1..Len(p.messages)
    BY <1>1, <1>2, <2>2
  <2>4. n - 1 \in 0..Len(p.messages) /\ n - 1 \notin Missing
    BY <1>1, <2>2, <2>3
  <2> QED
    BY <1>3, <2>2, <2>3, <2>4
<1> QED
  BY <1>1, <1>4

\* A limiter that forgot everything and senders let nothing through agree.
LEMMA NothingSpent ==
  ASSUME NEW now, NEW forgets, NEW through, through = [s \in Senders |-> <<>>]
  PROVE  Ledger(NoHits, through, now, forgets) /\ ~Full(through)
<1>1. \A s \in Senders : HitsOf(NoHits, s) = <<>> /\ through[s] = <<>>
  BY DEF HitsOf, NoHits
<1>2. DOMAIN NoHits = {} /\ SenderLimit.limit \in Nat /\ SenderLimit.keys \in Nat
  BY IntakeAssumption DEF NoHits
<1>3. \A s \in Senders : Sound(NoHits, through, s, now) /\ Complete(NoHits, through, s, now)
  BY <1>1, <1>2, EmptyAsIn DEF Sound, Complete
<1>4. {s \in Senders : through[s] # <<>>} = {}
  BY <1>1
<1>5. ~Full(through)
  <2>1. Cardinality({s \in Senders : through[s] # <<>>}) = 0
    BY <1>4, FS_EmptySet
  <2> QED
    BY <1>2, <2>1 DEF Full
<1>6. through \in [Senders -> Seq(Int)]
  BY EmptySeq
<1> QED
  BY <1>2, <1>3, <1>5, <1>6 DEF Ledger

\* As time goes by both sides forget what does not count any more.
LEMMA ElapseBudget ==
  ASSUME BudgetInv, Elapse
  PROVE  BudgetInv'
<1>1. /\ time \in Int /\ time' = time + 1 /\ senderHits' = senderHits /\ crowded' = crowded
      /\ accepted \in [Senders -> Seq(Int)] /\ DOMAIN senderHits \subseteq Senders
      /\ Full(accepted) => crowded
      /\ accepted' = [s \in Senders |-> Live(SenderLimit, accepted[s], time')]
  BY DEF BudgetInv, Elapse, Ledger
<1>2. PICK later \in Int : later = time' /\ time <= later
  BY <1>1
<1>3. ASSUME NEW s \in Senders
      PROVE  /\ accepted'[s] \in Seq(Int) /\ (accepted'[s] # <<>> => accepted[s] # <<>>)
             /\ Sound(senderHits, accepted', s, later)
             /\ Complete(senderHits, accepted', s, later) \/ crowded
  <2>1. PICK h, a, b : h = HitsOf(senderHits, s) /\ a = accepted[s] /\ b = accepted'[s]
    OBVIOUS
  <2>2. b = Live(SenderLimit, a, later)
    BY <1>1, <1>2, <2>1
  <2>3. /\ Stamped(h, time) /\ Stamped(a, time) /\ Len(h) <= SenderLimit.limit
        /\ AsIn(h, a, time) /\ (AsIn(a, h, time) \/ crowded)
    BY <1>1, <2>1 DEF BudgetInv, Ledger, Sound, Complete
  <2>4. Stamped(h, later) /\ Stamped(a, later)
    BY <1>1, <1>2, <2>3, StampedLater
  <2>5. Stamped(b, later) /\ Len(b) \in Nat /\ Len(b) <= Len(a)
    BY <1>2, <2>2, <2>4, LiveIsTheTail
  <2>6. AsIn(h, b, later) /\ (AsIn(b, h, later) \/ crowded)
    BY <1>1, <1>2, <2>2, <2>3, LiveAsIn
  <2>7. b # <<>> => a # <<>>
    <3>1. b \in Seq(Int) /\ a \in Seq(Int)
      BY <2>4, <2>5 DEF Stamped
    <3> QED
      BY <2>5, <3>1, EmptySeq
  <2>8. b \in Seq(Int)
    BY <2>5 DEF Stamped
  <2> QED
    BY <2>1, <2>3, <2>4, <2>5, <2>6, <2>7, <2>8 DEF Sound, Complete
<1>4. PICK through \in [Senders -> Seq(Int)] : through = accepted'
  BY <1>1, <1>3
<1>5. Full(through) => Full(accepted)
  BY <1>1, <1>3, <1>4, FullStays
<1>6. Ledger(senderHits, through, later, crowded)
  BY <1>1, <1>3, <1>4 DEF Ledger
<1> QED
  BY <1>1, <1>2, <1>4, <1>5, <1>6 DEF BudgetInv, Full

\* A request that is read spends what its messages cost.
LEMMA AcceptBudget ==
  ASSUME BudgetInv, NEW r \in Requests, Accept(r), request[r].payload \in Payloads
  PROVE  BudgetInv'
<1>1. PICK p \in Payloads : p = request[r].payload
  OBVIOUS
<1>2. PICK spent : spent = Spending(p)[Len(p.messages)]
  OBVIOUS
<1>3. time \in Int /\ time' = time /\ Ledger(spent.hits, spent.accepted, time, crowded)
  BY <1>2, SpendingKeeps DEF BudgetInv, Accept, envVars
<1>4. CASE UNCHANGED <<senderHits, accepted, crowded>>
  BY <1>3, <1>4 DEF BudgetInv
<1>5. CASE /\ senderHits' = spent.hits /\ accepted' = spent.accepted
           /\ crowded' = (crowded \/ Cardinality({s \in Senders : accepted'[s] # <<>>}) > SenderLimit.keys)
  <2>1. crowded' = (crowded \/ Full(spent.accepted))
    BY <1>5 DEF Full
  <2>2. Ledger(spent.hits, spent.accepted, time, crowded')
    BY <1>3, <2>1 DEF Ledger
  <2> QED
    BY <1>3, <1>5, <2>1, <2>2 DEF BudgetInv
<1> QED
  BY <1>1, <1>2, <1>4, <1>5 DEF Accept

\* Nothing is spent to begin with.
LEMMA InitBudget == IntakeInit => BudgetInv
<1> SUFFICES ASSUME IntakeInit PROVE BudgetInv
  OBVIOUS
<1>1. /\ time = 0 /\ senderHits = NoHits /\ accepted = [s \in Senders |-> <<>>]
  BY DEF IntakeInit
<1>2. Ledger(senderHits, accepted, time, crowded) /\ ~Full(accepted)
  BY <1>1, NothingSpent
<1> QED
  BY <1>1, <1>2 DEF BudgetInv

\* Every step keeps the budgets.
LEMMA NextBudget ==
  ASSUME HandledInv, BudgetInv, [IntakeNext]_intakeVars
  PROVE  BudgetInv'
<1>1. time \in Int /\ Ledger(senderHits, accepted, time, crowded) /\ (Full(accepted) => crowded)
  BY DEF BudgetInv
<1>2. CASE UNCHANGED <<time, senderHits, accepted, crowded>>
  BY <1>2 DEF BudgetInv
<1>3. CASE Elapse
  BY <1>3, ElapseBudget
<1>4. CASE Crash
  <2>1. /\ time' = time /\ senderHits' = NoHits /\ accepted' = [s \in Senders |-> <<>>] /\ crowded' = FALSE
    BY <1>4 DEF Crash
  <2>2. Ledger(senderHits, accepted, time, crowded)' /\ ~Full(accepted)'
    BY <1>1, <2>1, NothingSpent
  <2> QED
    BY <1>1, <2>1, <2>2 DEF BudgetInv
<1>5. ASSUME NEW r \in Requests, Accept(r) PROVE BudgetInv'
  <2>1. request[r].payload \in Payloads
    BY <1>5 DEF Accept, HandledInv, Remembers
  <2> QED
    BY <1>5, <2>1, AcceptBudget
<1>6. ASSUME ~Elapse, ~Crash, \A r \in Requests : ~Accept(r)
      PROVE  UNCHANGED <<time, senderHits, accepted, crowded>>
  BY <1>6 DEF IntakeNext, intakeVars, envVars, limitVars, Post, Turn, Send, Land, EndTurn, Finish
<1> QED
  BY <1>2, <1>3, <1>4, <1>5, <1>6

\* With the two sides in agreement nobody is given more, or less.
LEMMA BudgetMeans == BudgetInv => BudgetKept
<1> SUFFICES ASSUME BudgetInv, NEW s \in Senders
             PROVE  LET through == Len(Live(SenderLimit, accepted[s], time))
                        left == Remaining(SenderLimit, senderHits, s, time)
                    IN  /\ ~crowded => left + through = SenderLimit.limit
                        /\ left + through >= SenderLimit.limit
                        /\ Allow(SenderLimit, senderHits, s, time).ok <=> left > 0
  BY DEF BudgetKept
<1> DEFINE h == HitsOf(senderHits, s)
           a == accepted[s]
           kept == Live(SenderLimit, h, time)
           rest == Live(SenderLimit, a, time)
           left == Remaining(SenderLimit, senderHits, s, time)
<1>1. /\ time \in Int /\ Stamped(h, time) /\ Stamped(a, time) /\ Len(h) <= SenderLimit.limit
      /\ AsIn(h, a, time) /\ (AsIn(a, h, time) \/ crowded)
  BY DEF BudgetInv, Ledger, Sound, Complete
<1>2. SenderLimit.limit \in Nat \ {0} /\ Len(h) \in Nat
  BY <1>1, IntakeAssumption, LenProperties DEF Stamped
<1>3. /\ Len(kept) \in Nat /\ Len(kept) <= Len(h)
      /\ \A k \in Nat : k < Len(kept) <=> Counts(h, k, time)
      /\ Cardinality(Counting(SenderLimit, h, time)) = Len(kept)
  BY <1>1, LiveIsTheTail
<1>4. /\ Len(rest) \in Nat
      /\ \A k \in Nat : k < Len(rest) <=> Counts(a, k, time)
  BY <1>1, LiveIsTheTail
<1>5. ASSUME NEW x, NEW y, AsIn(x, y, time), NEW k \in Nat, Counts(x, k, time)
      PROVE  Counts(y, k, time)
  BY <1>5 DEF AsIn, Counts
<1>6. left = IF Len(kept) < SenderLimit.limit THEN SenderLimit.limit - Len(kept) ELSE 0
  BY <1>3 DEF Remaining
<1>7. Allow(SenderLimit, senderHits, s, time).ok <=> Len(kept) < SenderLimit.limit
  <2>1. CASE Len(kept) >= SenderLimit.limit
    BY <1>2, <1>3, <2>1 DEF Allow
  <2>2. CASE ~(Len(kept) >= SenderLimit.limit)
    BY <1>2, <1>3, <2>2 DEF Allow
  <2> QED
    BY <2>1, <2>2
<1> HIDE DEF h, a, kept, rest, left
<1>8. Len(kept) <= Len(rest)
  <2> SUFFICES ASSUME Len(rest) < Len(kept) PROVE FALSE
    BY <1>3, <1>4
  <2>1. Counts(h, Len(rest), time)
    BY <1>3, <1>4
  <2>2. Counts(a, Len(rest), time)
    BY <1>1, <1>4, <1>5, <2>1
  <2> QED
    BY <1>4, <2>2
<1>9. ASSUME ~crowded PROVE Len(rest) <= Len(kept)
  <2> SUFFICES ASSUME Len(kept) < Len(rest) PROVE FALSE
    BY <1>3, <1>4
  <2>1. Counts(a, Len(kept), time)
    BY <1>3, <1>4
  <2>2. Counts(h, Len(kept), time)
    BY <1>1, <1>3, <1>5, <1>9, <2>1
  <2> QED
    BY <1>3, <2>2
<1>10. ~crowded => left + Len(rest) = SenderLimit.limit
  BY <1>1, <1>2, <1>3, <1>4, <1>6, <1>8, <1>9
<1>11. left + Len(rest) >= SenderLimit.limit /\ (left > 0 <=> Len(kept) < SenderLimit.limit)
  BY <1>1, <1>2, <1>3, <1>4, <1>6, <1>8
<1> QED
  BY <1>7, <1>10, <1>11 DEF a, rest, left

\* The budget the limiter believes a sender has left is, whatever it evicts and whenever it is asked,
\* what the messages let through in the last window leave of it, so nobody is let through beyond the
\* budget or dropped within it, since the process started; only after more senders at once than it
\* has keys may it give more.  allow() and remaining() of SlidingWindowLimiter agree.
THEOREM BudgetsAreKept == IntakeSpec => []BudgetKept
<1>1. IntakeInit => ShownInv /\ HandledInv /\ BudgetInv
  BY InitShown, InitHandled, InitBudget
<1>2. ShownInv /\ HandledInv /\ BudgetInv /\ [IntakeNext]_intakeVars
         => ShownInv' /\ HandledInv' /\ BudgetInv'
  BY NextShown, NextHandled, NextBudget
<1>3. BudgetInv => BudgetKept
  BY BudgetMeans
<1> QED
  BY <1>1, <1>2, <1>3, PTL DEF IntakeSpec

-----------------------------------------------------------------------------
(***************************************************************************)
(* What the limiters hold.                                                 *)
(***************************************************************************)
\* No more keys than a limiter may hold, and of each the times of events that were.
Holds(l, hits, now) ==
    /\ IsFiniteSet(DOMAIN hits) /\ Cardinality(DOMAIN hits) <= l.keys
    /\ \A key \in DOMAIN hits : hits[key] \in Seq(0..now)

IsLimiter(l) == l.limit \in Nat \ {0} /\ l.window \in Nat /\ l.keys \in Nat \ {0}

LEMMA MinIsLeast ==
  ASSUME NEW T \in SUBSET Nat, T # {}
  PROVE  Min(T) \in T /\ \A y \in T : Min(T) <= y
BY LeastNumber DEF Min

\* What is live of the times of a key are times of it; of none nothing is.
LEMMA LiveTimes ==
  ASSUME NEW l, IsLimiter(l), NEW now \in Nat, NEW stamps \in Seq(0..now)
  PROVE  /\ Live(l, stamps, now) \in Seq(0..now)
         /\ stamps = <<>> => Live(l, stamps, now) = <<>>
<1> DEFINE C == Counting(l, stamps, now)
           n == Len(stamps)
<1>1. n \in Nat /\ C \in SUBSET Nat /\ C \subseteq 1..n
  BY DEF Counting
<1>2. CASE C = {}
  BY <1>2 DEF Live
<1>3. CASE C # {}
  <2>1. Min(C) \in 1..n
    <3> HIDE DEF C
    <3> QED
      BY <1>1, <1>3, MinIsLeast
  <2>2. Live(l, stamps, now) = SubSeq(stamps, Min(C), n)
    BY <1>3 DEF Live
  <2> HIDE DEF C
  <2>3. \A i \in Min(C)..n : stamps[i] \in 0..now
    BY <2>1
  <2>4. SubSeq(stamps, Min(C), n) \in Seq(0..now)
    BY <1>1, <2>1, <2>3, SubSeqProperties
  <2>5. stamps # <<>>
    BY <2>1
  <2> QED
    BY <2>2, <2>4, <2>5
<1> QED
  BY <1>2, <1>3

\* Eviction makes room for one.
LEMMA EvictHolds ==
  ASSUME NEW l, IsLimiter(l), NEW now \in Nat, NEW hits, NEW key,
         IsFiniteSet(DOMAIN hits), Cardinality(DOMAIN hits) = l.keys + 1,
         \A k \in DOMAIN hits : hits[k] \in Seq(0..now)
  PROVE  Holds(l, Evict(l, hits, key, now), now)
<1> DEFINE stale == {k \in DOMAIN hits : hits[k] = <<>> \/ Last(hits[k]) < now - l.window}
           others == DOMAIN hits \ {key}
           Oldest(k) == \A j \in others : Last(hits[k]) <= Last(hits[j])
           oldest == CHOOSE k \in others : Oldest(k)
<1>1. ASSUME NEW gone, gone \subseteq DOMAIN hits, gone # {}
      PROVE  Holds(l, Without(hits, gone), now)
  <2>1. PICK k \in gone : TRUE
    BY <1>1
  <2>2. DOMAIN Without(hits, gone) = DOMAIN hits \ gone
    BY DEF Without
  <2>3. \A x \in DOMAIN hits \ gone : Without(hits, gone)[x] = hits[x]
    BY DEF Without
  <2>4. IsFiniteSet(DOMAIN hits \ {k}) /\ Cardinality(DOMAIN hits \ {k}) = l.keys
    <3>1. PICK keys : keys = DOMAIN hits
      OBVIOUS
    <3>2. IsFiniteSet(keys \ {k}) /\ Cardinality(keys \ {k}) = Cardinality(keys) - 1
      BY <1>1, <2>1, <3>1, FS_RemoveElement
    <3>3. Cardinality(keys) - 1 = l.keys
      BY <3>1 DEF IsLimiter
    <3> QED
      BY <3>1, <3>2, <3>3
  <2>5. DOMAIN hits \ gone \in SUBSET (DOMAIN hits \ {k})
    BY <2>1
  <2>6. IsFiniteSet(DOMAIN hits \ gone) /\ Cardinality(DOMAIN hits \ gone) <= l.keys
    BY <2>4, <2>5, FS_Subset
  <2> QED
    BY <2>2, <2>3, <2>6 DEF Holds
<1>2. CASE stale # {}
  <2>1. Evict(l, hits, key, now) = Without(hits, stale)
    BY <1>2 DEF Evict
  <2>2. stale \subseteq DOMAIN hits
    OBVIOUS
  <2> HIDE DEF stale
  <2> QED
    BY <1>1, <1>2, <2>1, <2>2
<1>3. CASE stale = {}
  <2>1. others # {}
    <3>1. Cardinality({key}) = 1 /\ IsFiniteSet({key})
      BY FS_Singleton
    <3>2. SUFFICES ASSUME others = {} PROVE FALSE
      OBVIOUS
    <3>3. DOMAIN hits \in SUBSET {key}
      BY <3>2
    <3>4. Cardinality(DOMAIN hits) <= 1
      BY <3>1, <3>3, FS_Subset
    <3> QED
      BY <3>4 DEF IsLimiter
  <2>2. \A k \in others : Last(hits[k]) \in Nat
    <3> TAKE k \in others
    <3>1. hits[k] \in Seq(0..now) /\ hits[k] # <<>>
      BY <1>3
    <3>2. Len(hits[k]) \in 1..Len(hits[k])
      BY <3>1
    <3>3. Last(hits[k]) \in 0..now
      BY <3>1, <3>2 DEF Last
    <3> QED
      BY <3>3
  <2> DEFINE T == {Last(hits[k]) : k \in others}
  <2>3. PICK x \in T : \A y \in T : x <= y
    <3>1. T \in SUBSET Nat /\ T # {}
      <4> HIDE DEF others
      <4> QED
        BY <2>1, <2>2
    <3> HIDE DEF T
    <3> QED
      BY <3>1, LeastNumber
  <2>4. PICK k \in others : Oldest(k)
    BY <2>3
  <2>5. oldest \in others
    <3> HIDE DEF Oldest, others
    <3> QED
      BY <2>4
  <2>6. Evict(l, hits, key, now) = Without(hits, {oldest})
    BY <1>3, <2>1 DEF Evict
  <2>7. {oldest} \subseteq DOMAIN hits /\ {oldest} # {}
    BY <2>5
  <2> HIDE DEF oldest
  <2> QED
    BY <1>1, <2>6, <2>7
<1> QED
  BY <1>2, <1>3

\* Whatever is let through or refused: allow() leaves the limiter within its keys.
LEMMA AllowHolds ==
  ASSUME NEW l, IsLimiter(l), NEW now \in Nat, NEW hits, Holds(l, hits, now), NEW key
  PROVE  Holds(l, Allow(l, hits, key, now).hits, now)
<1> DEFINE kept == Live(l, HitsOf(hits, key), now)
           counted == WithHits(hits, key, Append(kept, now))
<1>1. HitsOf(hits, key) \in Seq(0..now)
  <2>1. <<>> \in Seq(0..now)
    BY EmptySeq
  <2> QED
    BY <2>1 DEF Holds, HitsOf
<1>2. kept \in Seq(0..now) /\ (HitsOf(hits, key) = <<>> => kept = <<>>)
  BY <1>1, LiveTimes
<1>3. IsFiniteSet(DOMAIN hits) /\ Cardinality(DOMAIN hits) \in Nat /\ Cardinality(DOMAIN hits) <= l.keys
      /\ l.keys \in Nat
  BY FS_CardinalityType DEF Holds, IsLimiter
<1>4. \A stamps \in Seq(0..now) :
         /\ DOMAIN WithHits(hits, key, stamps) = DOMAIN hits \cup {key}
         /\ \A k \in DOMAIN hits \cup {key} : WithHits(hits, key, stamps)[k] \in Seq(0..now)
  BY DEF WithHits, Holds
<1> HIDE DEF kept
<1>5. CASE Len(kept) >= l.limit
  <2>1. kept # <<>>
    BY <1>5 DEF IsLimiter
  <2>2. key \in DOMAIN hits
    BY <1>2, <2>1 DEF HitsOf
  <2>3. DOMAIN hits \cup {key} = DOMAIN hits
    BY <2>2
  <2>4. Allow(l, hits, key, now).hits = WithHits(hits, key, kept)
    BY <1>5 DEF Allow, kept
  <2> QED
    BY <1>2, <1>3, <1>4, <2>3, <2>4 DEF Holds
<1>6. CASE ~(Len(kept) >= l.limit)
  <2>1. Allow(l, hits, key, now).hits =
           IF Cardinality(DOMAIN counted) > l.keys THEN Evict(l, counted, key, now) ELSE counted
    BY <1>6 DEF Allow, kept
  <2>2. Append(kept, now) \in Seq(0..now)
    <3>1. now \in 0..now
      OBVIOUS
    <3> QED
      BY <1>2, <3>1, AppendProperties
  <2>3. DOMAIN counted = DOMAIN hits \cup {key} /\ \A k \in DOMAIN counted : counted[k] \in Seq(0..now)
    BY <1>4, <2>2
  <2>4. /\ IsFiniteSet(DOMAIN counted) /\ Cardinality(DOMAIN counted) \in Nat
        /\ Cardinality(DOMAIN counted) <= Cardinality(DOMAIN hits) + 1
    <3>1. PICK keys : keys = DOMAIN hits
      OBVIOUS
    <3>2. /\ IsFiniteSet(keys \cup {key})
          /\ Cardinality(keys \cup {key}) = IF key \in keys THEN Cardinality(keys) ELSE Cardinality(keys) + 1
      BY <1>3, <3>1, FS_AddElement
    <3>3. PICK after : after = DOMAIN counted
      OBVIOUS
    <3>4. after = keys \cup {key}
      BY <2>3, <3>1, <3>3
    <3>5. Cardinality(after) <= Cardinality(keys) + 1 /\ Cardinality(after) \in Nat
      BY <1>3, <3>1, <3>2, <3>4
    <3> QED
      BY <3>1, <3>2, <3>3, <3>4, <3>5
  <2> HIDE DEF counted
  <2>5. CASE Cardinality(DOMAIN counted) > l.keys
    <3>1. Cardinality(DOMAIN counted) = l.keys + 1
      BY <1>3, <2>4, <2>5
    <3>2. Holds(l, Evict(l, counted, key, now), now)
      BY <2>3, <2>4, <3>1, EvictHolds
    <3> QED
      BY <2>1, <2>5, <3>2
  <2>6. CASE ~(Cardinality(DOMAIN counted) > l.keys)
    <3>1. Cardinality(DOMAIN counted) <= l.keys
      BY <1>3, <2>4, <2>6
    <3> QED
      BY <2>1, <2>3, <2>4, <2>6, <3>1 DEF Holds
  <2> QED
    BY <2>5, <2>6
<1> QED
  BY <1>5, <1>6

\* What is spent along a payload keeps the senders' limiter within its keys.
LEMMA SpendingHolds ==
  ASSUME time \in Nat, NEW p \in Payloads, Holds(SenderLimit, senderHits, time)
  PROVE  Holds(SenderLimit, Spending(p)[Len(p.messages)].hits, time)
<1> DEFINE Fits(n) == Holds(SenderLimit, Spending(p)[n].hits, time)
           Missing == {n \in 0..Len(p.messages) : ~Fits(n)}
<1>1. Len(p.messages) \in Nat
  <2>1. p.messages \in Seq(ToSet(p.messages))
    BY IntakeAssumption
  <2> QED
    BY <2>1, LenProperties
<1>2. IsLimiter(SenderLimit)
  BY IntakeAssumption DEF IsLimiter
<1>3. Fits(0)
  <2>1. Spending(p)[0].hits = senderHits
    BY <1>1, SpendingSteps
  <2> QED
    BY <2>1
<1>4. ASSUME NEW n \in 1..Len(p.messages), Fits(n - 1) PROVE Fits(n)
  <2>1. Spending(p)[n] = IF n \in Passed(p) THEN Spend(Spending(p)[n - 1], n, p.messages[n].sender)
                         ELSE Spending(p)[n - 1]
    BY <1>1, SpendingSteps
  <2>2. PICK sofar, after : sofar = Spending(p)[n - 1] /\ after = Spending(p)[n]
    OBVIOUS
  <2>3. CASE n \notin Passed(p)
    BY <1>4, <2>1, <2>3
  <2>4. CASE n \in Passed(p)
    <3>1. after.hits = Allow(SenderLimit, sofar.hits, p.messages[n].sender, time).hits
      <4>1. after = Spend(sofar, n, p.messages[n].sender)
        BY <2>1, <2>2, <2>4
      <4> QED
        BY <4>1 DEF Spend
    <3>2. Holds(SenderLimit, sofar.hits, time)
      BY <1>4, <2>2
    <3> QED
      BY <1>2, <2>2, <3>1, <3>2, AllowHolds
  <2> QED
    BY <2>3, <2>4
<1>5. \A n \in 0..Len(p.messages) : Fits(n)
  <2> HIDE DEF Fits
  <2>1. SUFFICES ASSUME Missing # {} PROVE FALSE
    OBVIOUS
  <2>2. PICK n \in Missing : \A k \in Missing : n <= k
    <3>1. Missing \in SUBSET Nat
      BY <1>1
    <3> HIDE DEF Missing
    <3> QED
      BY <2>1, <3>1, LeastNumber
  <2>3. n # 0 /\ n \in 1..Len(p.messages)
    BY <1>1, <1>3, <2>2
  <2>4. n - 1 \in 0..Len(p.messages) /\ n - 1 \notin Missing
    BY <1>1, <2>2, <2>3
  <2> QED
    BY <1>4, <2>2, <2>3, <2>4
<1> QED
  BY <1>1, <1>5

\* What waits for its turn in a request are whole messages of its payload.
Carries(r) ==
    /\ request[r].at \in Stages
    /\ InTurns(r) => request[r].queue \subseteq Parsed(request[r].payload)
    /\ request[r].at = "sending" => request[r].queue # {}

Logged ==
    /\ \A r \in Requests : Carries(r)
    /\ rows \subseteq Messages /\ handled \subseteq Messages

Limited ==
    /\ time \in 0..MaxTime
    /\ Holds(SourceLimit, sourceHits, time) /\ Holds(SenderLimit, senderHits, time)

\* The first in the queue of a request is a message.
LEMMA FirstIsMessage ==
  ASSUME HandledInv, Logged, NEW r \in Requests, InTurns(r), request[r].queue # {}
  PROVE  Message(r) \in Messages
<1>1. request[r].payload \in Payloads /\ request[r].queue \subseteq Parsed(request[r].payload)
  BY DEF HandledInv, Remembers, InTurns, Logged, Carries
<1>2. PICK queue : queue = request[r].queue
  OBVIOUS
<1>3. queue \in SUBSET Nat /\ queue # {}
  BY <1>1, <1>2 DEF Parsed
<1>4. Min(queue) \in queue
  BY <1>3, MinIsLeast
<1> QED
  BY <1>1, <1>2, <1>4, InPayload DEF Message

\* A limiter that has seen nothing.
LEMMA NoHitsHold ==
  ASSUME NEW l, IsLimiter(l), NEW now \in Nat
  PROVE  Holds(l, NoHits, now)
<1>1. DOMAIN NoHits = {}
  BY DEF NoHits
<1> QED
  BY <1>1, FS_EmptySet DEF Holds, IsLimiter

\* Every step leaves both limiters within their keys.
LEMMA NextLimited ==
  ASSUME HandledInv, Limited, [IntakeNext]_intakeVars
  PROVE  Limited'
<1>1. /\ time \in Nat /\ time \in 0..MaxTime /\ MaxTime \in Nat
      /\ Holds(SourceLimit, sourceHits, time) /\ Holds(SenderLimit, senderHits, time)
      /\ IsLimiter(SourceLimit) /\ IsLimiter(SenderLimit)
  BY IntakeAssumption DEF Limited, IsLimiter
<1>2. CASE UNCHANGED <<time, sourceHits, senderHits>>
  BY <1>1, <1>2 DEF Limited
<1>3. CASE Elapse
  <2>1. time' = time + 1 /\ time < MaxTime /\ sourceHits' = sourceHits /\ senderHits' = senderHits
    BY <1>3 DEF Elapse
  <2>2. ASSUME NEW l, NEW hits, Holds(l, hits, time) PROVE Holds(l, hits, time + 1)
    BY <1>1, <2>2 DEF Holds
  <2> QED
    BY <1>1, <2>1, <2>2 DEF Limited
<1>4. CASE Crash
  BY <1>1, <1>4, NoHitsHold DEF Crash, Limited
<1>5. ASSUME NEW r \in Requests, NEW p \in Payloads, Post(r, p) PROVE Limited'
  <2>1. /\ time' = time /\ senderHits' = senderHits
        /\ sourceHits' = Allow(SourceLimit, sourceHits, p.host, time).hits
    BY <1>5 DEF Post
  <2> QED
    BY <1>1, <2>1, AllowHolds DEF Limited
<1>6. ASSUME NEW r \in Requests, Accept(r) PROVE Limited'
  <2>1. request[r].payload \in Payloads
    BY <1>6 DEF Accept, HandledInv, Remembers
  <2>2. PICK p \in Payloads : p = request[r].payload
    BY <2>1
  <2>3. /\ time' = time /\ sourceHits' = sourceHits
        /\ senderHits' = senderHits \/ senderHits' = Spending(p)[Len(p.messages)].hits
    BY <1>6, <2>2 DEF Accept, envVars
  <2>4. Holds(SenderLimit, Spending(p)[Len(p.messages)].hits, time)
    BY <1>1, SpendingHolds
  <2> QED
    BY <1>1, <2>3, <2>4 DEF Limited
<1>7. ASSUME ~Elapse, ~Crash, \A r \in Requests : ~Accept(r) /\ (\A p \in Payloads : ~Post(r, p))
      PROVE  UNCHANGED <<time, sourceHits, senderHits>>
  BY <1>7 DEF IntakeNext, intakeVars, envVars, limitVars, Turn, Send, Land, EndTurn, Finish
<1> QED
  BY <1>2, <1>3, <1>4, <1>5, <1>6, <1>7

\* A step that records and handles nothing, and after which requests still carry messages.
LEMMA StillLogged ==
  ASSUME Logged, UNCHANGED <<rows, handled>>,
         \A r \in Requests :
            \/ request'[r] = request[r]
            \/ request'[r].at \in {"idle", "body"}
            \/ /\ InTurns(r) /\ InTurns(r)' /\ request'[r].payload = request[r].payload
               /\ request'[r].queue = request[r].queue
               /\ request'[r].at = "sending" => request[r].queue # {}
  PROVE  Logged'
<1>1. ASSUME NEW r \in Requests PROVE Carries(r)'
  <2>1. Carries(r)
    BY DEF Logged
  <2>2. CASE request'[r] = request[r]
    BY <2>1, <2>2 DEF Carries, InTurns, Parsed
  <2>3. CASE request'[r].at \in {"idle", "body"}
    BY <2>3 DEF Carries, InTurns, Stages
  <2>4. CASE /\ InTurns(r) /\ InTurns(r)' /\ request'[r].payload = request[r].payload
             /\ request'[r].queue = request[r].queue
             /\ request'[r].at = "sending" => request[r].queue # {}
    BY <2>1, <2>4 DEF Carries, InTurns, Parsed, Stages
  <2> QED
    BY <2>2, <2>3, <2>4
<1> QED
  BY <1>1 DEF Logged

\* Every step records and handles messages.
LEMMA NextLogged ==
  ASSUME ShownInv, HandledInv, Logged, [IntakeNext]_intakeVars
  PROVE  Logged'
<1>1. request = [r \in Requests |-> request[r]]
  BY DEF HandledInv
<1>2. CASE UNCHANGED <<rows, handled, request>>
  BY <1>2, StillLogged
<1>3. CASE Crash
  BY <1>3, StillLogged DEF Crash, Idle
<1>4. ASSUME NEW r \in Requests, NEW p \in Payloads, Post(r, p) PROVE Logged'
  <2>1. \A q \in Requests : request'[q] = request[q] \/ request'[q].at = "body"
    BY <1>1, <1>4 DEF Post
  <2> QED
    BY <1>4, <2>1, StillLogged DEF Post, logVars
<1>5. ASSUME NEW r \in Requests, Accept(r) PROVE Logged'
  <2>1. rows' = rows /\ handled' = handled
    BY <1>5 DEF Accept
  <2>2. CASE request' = [request EXCEPT ![r] = Idle]
    <3>1. \A q \in Requests : request'[q] = request[q] \/ request'[q].at = "idle"
      BY <1>1, <2>2 DEF Idle
    <3> QED
      BY <2>1, <3>1, StillLogged
  <2>3. CASE request' # [request EXCEPT ![r] = Idle]
    <3>1. PICK refused, queue :
             /\ queue = Passed(request[r].payload) \ refused
             /\ request' = [request EXCEPT ![r] =
                   [at |-> "turns", payload |-> request[r].payload, queue |-> queue, refused |-> refused]]
      BY <1>5, <2>3 DEF Accept
    <3>2. /\ \A q \in Requests \ {r} : request'[q] = request[q]
          /\ request'[r].at = "turns" /\ request'[r].payload = request[r].payload /\ request'[r].queue = queue
      BY <1>1, <3>1
    <3>3. queue \subseteq Parsed(request[r].payload)
      BY <3>1 DEF Passed
    <3>4. ASSUME NEW q \in Requests PROVE Carries(q)'
      <4>1. CASE q = r
        BY <3>2, <3>3, <4>1 DEF Carries, InTurns, Parsed, Stages
      <4>2. CASE q # r
        BY <3>2, <4>2 DEF Logged, Carries, InTurns, Parsed
      <4> QED
        BY <4>1, <4>2
    <3> QED
      BY <2>1, <3>4 DEF Logged
  <2> QED
    BY <2>2, <2>3
<1>6. ASSUME NEW r \in Requests, Turn(r) PROVE Logged'
  <2>1. InTurns(r) /\ request[r].queue # {} /\ handled' = handled
    BY <1>6 DEF Turn, InStage, InTurns, logVars
  <2>2. /\ \A q \in Requests \ {r} : request'[q] = request[q]
        /\ request'[r].at = "sending" /\ request'[r].queue = request[r].queue
        /\ request'[r].payload = request[r].payload
        /\ rows' = rows \cup {Message(r)} \/ rows' = rows
    BY <1>6, TurnStep
  <2>3. rows' \subseteq Messages
    BY <2>1, <2>2, FirstIsMessage DEF Logged
  <2>4. ASSUME NEW q \in Requests PROVE Carries(q)'
    <3>1. CASE q = r
      BY <2>1, <2>2, <3>1 DEF Logged, Carries, InTurns, Parsed, Stages
    <3>2. CASE q # r
      BY <2>2, <3>2 DEF Logged, Carries, InTurns, Parsed
    <3> QED
      BY <3>1, <3>2
  <2> QED
    BY <2>1, <2>3, <2>4 DEF Logged
<1>7. ASSUME NEW r \in Requests, Send(r) PROVE Logged'
  <2>1. InStage(r, "sending") /\ (Sent(r) \/ SendFailed(r)) /\ rows' = rows /\ handled' = handled
    BY <1>7 DEF Send, logVars
  <2>2. /\ \A q \in Requests \ {r} : request'[q] = request[q]
        /\ InTurns(r) /\ InTurns(r)' /\ request'[r].payload = request[r].payload
        /\ request'[r].queue = request[r].queue
    BY <2>1, TriedRequest DEF ShownInv, InTurns, InStage
  <2>3. request[r].queue # {}
    BY <2>1 DEF Logged, Carries, InStage
  <2> QED
    BY <2>1, <2>2, <2>3, StillLogged
<1>8. ASSUME NEW r \in Requests, EndTurn(r) PROVE Logged'
  <2>1. /\ rows' = rows /\ handled' = handled \cup {Message(r)}
        /\ request[r].at = "sending" /\ InTurns(r)
    BY <1>8 DEF EndTurn, InStage, InTurns
  <2>2. handled' \subseteq Messages
    BY <2>1, FirstIsMessage DEF Logged, Carries
  <2>3. /\ \A q \in Requests \ {r} : request'[q] = request[q]
        /\ \/ request'[r].at = "idle"
           \/ /\ request'[r].at = "turns" /\ request'[r].payload = request[r].payload
              /\ request'[r].queue \subseteq request[r].queue
    BY <1>1, <1>8 DEF EndTurn, Idle
  <2>4. ASSUME NEW q \in Requests PROVE Carries(q)'
    <3>1. Carries(q)
      BY DEF Logged
    <3>2. CASE q = r
      BY <2>1, <2>3, <3>1, <3>2 DEF Carries, InTurns, Parsed, Stages
    <3>3. CASE q # r
      BY <2>3, <3>1, <3>3 DEF Carries, InTurns, Parsed
    <3> QED
      BY <3>2, <3>3
  <2> QED
    BY <2>1, <2>2, <2>4 DEF Logged
<1>9. ASSUME NEW r \in Requests, Finish(r) PROVE Logged'
  <2>1. \A q \in Requests : request'[q] = request[q] \/ request'[q].at = "idle"
    BY <1>1, <1>9 DEF Finish, Idle
  <2> QED
    BY <1>9, <2>1, StillLogged DEF Finish
<1>10. CASE Elapse
  BY <1>2, <1>10 DEF Elapse, logVars
<1>11. ASSUME NEW send \in late, Land(send) PROVE Logged'
  BY <1>2, <1>11 DEF Land, logVars
<1>12. CASE UNCHANGED intakeVars
  BY <1>2, <1>12 DEF intakeVars, logVars
<1> QED
  BY <1>3, <1>4, <1>5, <1>6, <1>7, <1>8, <1>9, <1>10, <1>11, <1>12 DEF IntakeNext

\* However many hosts and senders there are, whatever is let through, refused or evicted, neither
\* limiter ever holds more keys than it may (max_keys of SlidingWindowLimiter), and what it holds
\* are times that were; a request is in one of its four stages, and only messages Meta posted are
\* recorded or handled.
THEOREM IntakeTypes == IntakeSpec => []IntakeTypeOK
<1>1. IntakeInit => ShownInv /\ HandledInv /\ Logged /\ Limited
  <2> SUFFICES ASSUME IntakeInit PROVE Logged /\ Limited
    BY InitShown, InitHandled
  <2>1. Logged
    BY DEF IntakeInit, Logged, Carries, InTurns, Idle, Stages
  <2>2. time = 0 /\ MaxTime \in Nat /\ sourceHits = NoHits /\ senderHits = NoHits
        /\ IsLimiter(SourceLimit) /\ IsLimiter(SenderLimit)
    BY IntakeAssumption DEF IntakeInit, IsLimiter
  <2>3. Limited
    BY <2>2, NoHitsHold DEF Limited
  <2> QED
    BY <2>1, <2>3
<1>2. ShownInv /\ HandledInv /\ Logged /\ Limited /\ [IntakeNext]_intakeVars
         => ShownInv' /\ HandledInv' /\ Logged' /\ Limited'
  BY NextShown, NextHandled, NextLogged, NextLimited
<1>3. Logged /\ Limited => IntakeTypeOK
  <2> SUFFICES ASSUME Logged, Limited PROVE IntakeTypeOK
    OBVIOUS
  <2>1. \A hits \in {sourceHits, senderHits} : \A key \in DOMAIN hits :
           \A i \in 1..Len(hits[key]) : hits[key][i] \in 0..time
    BY DEF Limited, Holds
  <2> QED
    BY <2>1 DEF Logged, Limited, Holds, Carries, IntakeTypeOK
<1> QED
  BY <1>1, <1>2, <1>3, PTL DEF IntakeSpec
=============================================================================
