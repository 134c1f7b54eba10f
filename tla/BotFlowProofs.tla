--------------------------- MODULE BotFlowProofs ---------------------------
(***************************************************************************)
(* Theorems about BotFlow, for every set of typed messages and of buttons   *)
(* that get tapped, with and without an offer, and for every number of      *)
(* bookings, of attempts and of answers before a prompt.                    *)
(***************************************************************************)
EXTENDS BotFlow, SequenceTheorems, TLAPS

(***************************************************************************)
(* The inductive invariant, as predicates of a conversation c and of k,     *)
(* whether the contact's name is known.                                     *)
(***************************************************************************)
Shape ==
    [state : State, type : {"none", "PRE", "POST"}, course : Course \union {"none"},
     slots : SUBSET Slot, phone : {"none", "own", "other"}, time : {"none", "ahead"},
     flags : SUBSET Flag, qna : 0 .. Threshold, resume : Selling \union {"none"}, moving : Nat,
     tries : [Slot -> 0 .. MAX_ATTEMPTS + 1], prompted : BOOLEAN, heard : SUBSET Told]

Lead == [type : {"PRE", "POST"}, has : SUBSET Slot, contact : {"own", "other"},
         at : {"none", "ahead", "past"}]

\* What holds of a conversation whatever its state: a name it has, and a
\* booking it is moving, are a known contact's, a prompt is remembered, and what the
\* form heard it has.
Sound(c, k) ==
    /\ c \in Shape
    /\ "name" \in c.slots => k
    /\ c.moving # 0 => k
    /\ c.moving <= Len(leads)
    /\ c.prompted => "nudged" \in c.flags
    /\ c.heard \intersect Slot \subseteq c.slots
    /\ "phone" \in c.heard => c.phone # "none"
    /\ "time" \in c.heard => c.time # "none"
    /\ c.tries["name"] <= MAX_ATTEMPTS

\* The states that promise nothing.
Plain == {"START", "MAIN_MENU", "COURSE_GROUP", "COURSE_SELECTION", "ENROLLMENT_TYPE",
          "DISCOVERY", "GENERAL_QNA", "END"}

\* What a state promises of the form: beyond its first question the contact is
\* known, a form that moves a booking asks for nothing but the time, and one
\* that asks for remarks has everything.
FormPromise(c, k) ==
    /\ c.state = "ASK_NAME" => ~k /\ "name" \notin c.slots
    /\ c.state \in (Capture \ {"ASK_NAME"}) \union {"CONFIRM_RESCHEDULE"} => k
    /\ c.state \in {"ASK_NAME", "ASK_EMAIL", "ASK_ENROLLED_COURSE", "ASK_PHONE"} => c.moving = 0
    /\ c.state = "ASK_EMAIL" => "email" \notin c.slots /\ c.type = "POST"
    /\ c.state = "ASK_ENROLLED_COURSE" => "course" \notin c.slots /\ c.type = "POST"
    /\ c.state = "ASK_PHONE" => c.phone = "none"
    /\ c.state = "ASK_CALLBACK_TIME" => "time" \notin c.heard
    /\ c.state = "ASK_REMARKS" => /\ c.time = "ahead"
                                  /\ c.moving = 0 => Required(c.type) \subseteq c.slots

\* What a state promises of the branch: support is support, a course is in
\* scope, and an offered call knows where to go back to.
BranchPromise(c) ==
    /\ c.state \in {"POST_SALES", "SUPPORT_QUERY", "SUPPORT_CALLBACK"} => c.type = "POST"
    /\ c.state = "COURSE_QNA" => c.course # "none"
    /\ c.state = "ASK_CALLBACK" =>
         /\ c.resume # "none"
         /\ c.resume \in {"COURSE_QNA", "DISCOVERY"} => c.course # "none"

Good(c, k) == Sound(c, k) /\ FormPromise(c, k) /\ BranchPromise(c)

LeadsOK ==
    /\ leads \in Seq(Lead)
    /\ Len(leads) <= MaxLeads
    /\ leads # <<>> => named
    /\ BookingsComplete

Inv ==
    /\ named \in BOOLEAN /\ proof \in BOOLEAN
    /\ LeadsOK
    /\ Good(conv, named)

(***************************************************************************)
(* The operators on conversations.                                         *)
(***************************************************************************)
\* What is sent names a course or none.
LEMMA AboutType == ASSUME NEW m \in Message PROVE m.about \in Course \union {"none"}
  BY FlowAssumption DEF Message, TextMessage, OfferTaps, NavTaps, AnswerTaps, Tap, CourseTap, Course

\* The operators that change nothing a promise is about keep a conversation
\* sound.
LEMMA AtSound ==
  ASSUME NEW k \in BOOLEAN, NEW c, Sound(c, k), NEW s \in State
  PROVE  /\ Sound(At(c, s), k) /\ At(c, s).state = s
         /\ At(c, s).type = c.type /\ At(c, s).course = c.course /\ At(c, s).slots = c.slots
         /\ At(c, s).moving = c.moving /\ At(c, s).phone = c.phone /\ At(c, s).time = c.time
         /\ At(c, s).heard = c.heard
  BY DEF At, Sound, Shape

LEMMA TypedSound ==
  ASSUME NEW k \in BOOLEAN, NEW c, Sound(c, k), NEW t \in {"PRE", "POST"}
  PROVE  Sound(Typed(c, t), k) /\ Typed(c, t).state = c.state /\ Typed(c, t).type = t /\ Typed(c, t).course = c.course
  BY DEF Typed, Sound, Shape

LEMMA OnSound ==
  ASSUME NEW k \in BOOLEAN, NEW c, Sound(c, k), NEW x \in Course \union {"none"}
  PROVE  Sound(On(c, x), k) /\ On(c, x).state = c.state /\ On(c, x).course = x /\ On(c, x).type = c.type
  BY DEF On, Sound, Shape

LEMMA PreSound ==
  ASSUME NEW k \in BOOLEAN, NEW c, Sound(c, k)
  PROVE  /\ Sound(PreUnlessSet(c), k) /\ PreUnlessSet(c).state = c.state /\ PreUnlessSet(c).course = c.course
         /\ TypeOrPre(c) \in {"PRE", "POST"}
  BY DEF PreUnlessSet, TypeOrPre, Sound, Shape

LEMMA FlaggedSound ==
  ASSUME NEW k \in BOOLEAN, NEW c, Sound(c, k), NEW f \in Flag
  PROVE  /\ Sound(Flagged(c, f), k) /\ Flagged(c, f).state = c.state /\ Flagged(c, f).course = c.course
         /\ \A s : FormPromise(c, s) <=> FormPromise(Flagged(c, f), s)
         /\ BranchPromise(c) <=> BranchPromise(Flagged(c, f))
<1>1. Sound(Flagged(c, f), k)
  BY DEF Flagged, Sound, Shape
<1>2. Flagged(c, f) = [c EXCEPT !.flags = Flagged(c, f).flags]
  BY DEF Flagged, Sound, Shape
<1> QED
  BY <1>1, <1>2 DEF FormPromise, BranchPromise, Sound, Shape

LEMMA BumpSound ==
  ASSUME NEW k \in BOOLEAN, NEW c, Sound(c, k)
  PROVE  Sound(Bump(c), k) /\ Bump(c).state = c.state /\ Bump(c).course = c.course /\ Bump(c).type = c.type
<1>1. Sound(Bump(c), k)
  BY FlowAssumption, SMTT(30) DEF Bump, Least, Sound, Shape
<1>2. Bump(c).state = c.state /\ Bump(c).course = c.course /\ Bump(c).type = c.type
  BY DEF Bump, Sound, Shape
<1> QED
  BY <1>1, <1>2

LEMMA ResetSound ==
  ASSUME NEW k \in BOOLEAN, NEW c, Sound(c, k)
  PROVE  Sound(ResetFlow(c), k)
<1>1. 0 \in 0 .. Threshold
  BY FlowAssumption
<1>2. ResetFlow(c) \in Shape
  BY <1>1 DEF ResetFlow, Flag, Sound, Shape
<1>3. /\ ResetFlow(c).slots = c.slots /\ ResetFlow(c).moving = c.moving /\ ResetFlow(c).tries = c.tries
      /\ ResetFlow(c).prompted = FALSE
      /\ ResetFlow(c).heard = c.heard /\ ResetFlow(c).phone = c.phone /\ ResetFlow(c).time = c.time
  BY DEF ResetFlow, Sound, Shape
<1> QED
  BY <1>2, <1>3 DEF Sound

\* What a form asks next, and what it has by then.
LEMMA AsksWhat ==
  ASSUME NEW k \in BOOLEAN, NEW c, Sound(c, k)
  PROVE  /\ Asks(c) \in {"ASK_NAME", "ASK_EMAIL", "ASK_ENROLLED_COURSE", "ASK_PHONE", "ASK_CALLBACK_TIME", "complete"}
         /\ Asks(c) # "complete" => c.moving = 0
         /\ Asks(c) = "ASK_NAME" => "name" \notin c.slots
         /\ Asks(c) \in {"ASK_EMAIL", "ASK_ENROLLED_COURSE", "ASK_PHONE", "ASK_CALLBACK_TIME"} => "name" \in c.slots
         /\ Asks(c) = "ASK_EMAIL" => "email" \notin c.slots /\ c.type = "POST"
         /\ Asks(c) = "ASK_ENROLLED_COURSE" => "course" \notin c.slots /\ c.type = "POST"
         /\ Asks(c) = "ASK_PHONE" => c.phone = "none"
         /\ Asks(c) = "ASK_CALLBACK_TIME" => c.time = "none"
         /\ Asks(c) = "complete" /\ c.moving = 0 => Required(c.type) \subseteq c.slots /\ c.time # "none"
  BY DEF Asks, Lacks, Required, Slot, Sound, Shape

\* Asking it keeps the promises.
LEMMA AskNextGood ==
  ASSUME NEW k \in BOOLEAN, NEW c, Sound(c, k), Asks(c) # "complete", Asks(c) = "ASK_NAME" => ~k
  PROVE  Good(AskNext(c), k) /\ AskNext(c).state \in Capture /\ AskNext(c).moving = 0
<1>1. Asks(c) \in Capture /\ Asks(c) \in State
  BY AsksWhat DEF Capture, State
<1>2. /\ Sound(AskNext(c), k) /\ AskNext(c).state = Asks(c)
      /\ AskNext(c).slots = c.slots /\ AskNext(c).type = c.type /\ AskNext(c).phone = c.phone /\ AskNext(c).moving = c.moving
      /\ AskNext(c).heard = c.heard
  <2>1. At(c, Asks(c)) = [c EXCEPT !.state = Asks(c)] /\ Sound(At(c, Asks(c)), k)
    BY <1>1, AtSound DEF At
  <2>2. Sound(Flagged(At(c, "ASK_PHONE"), "asked_phone"), k)
    <3>1. Sound(At(c, "ASK_PHONE"), k)
      BY AtSound DEF State, Capture
    <3> QED
      BY <3>1, FlaggedSound DEF Flag
  <2>3. CASE Asks(c) = "ASK_PHONE"
    <3>1. AskNext(c) = [c EXCEPT !.state = "ASK_PHONE", !.flags = @ \union {"asked_phone"}]
      BY <2>3 DEF AskNext, Flagged, At, Sound, Shape
    <3> QED
      BY <2>2, <2>3, <3>1, ZenonT(40) DEF AskNext, Sound, Shape
  <2>4. CASE Asks(c) # "ASK_PHONE"
    BY <2>1, <2>4, ZenonT(40) DEF AskNext, Sound, Shape
  <2> QED
    BY <2>3, <2>4
<1>3. AskNext(c).state # "ASK_REMARKS" /\ AskNext(c).state \notin {"POST_SALES", "SUPPORT_QUERY", "SUPPORT_CALLBACK", "COURSE_QNA", "ASK_CALLBACK", "CONFIRM_RESCHEDULE"}
  BY <1>2, AsksWhat
<1>4. FormPromise(AskNext(c), k)
  BY <1>1, <1>2, <1>3, AsksWhat DEF FormPromise, Sound
<1>5. BranchPromise(AskNext(c))
  BY <1>3 DEF BranchPromise
<1> QED
  BY <1>1, <1>2, <1>4, <1>5, AsksWhat DEF Good

\* A known contact's name is filled in.
LEMMA KnownName ==
  ASSUME NEW c, Sound(c, named), named \in BOOLEAN
  PROVE  /\ Sound(WithKnownName(c), named) /\ (named => "name" \in WithKnownName(c).slots)
         /\ WithKnownName(c) = [c EXCEPT !.slots = WithKnownName(c).slots]
  BY DEF WithKnownName, Sound, Shape, Slot

\* Asking for the time anew forgets only that it was heard.
LEMMA TimeAnewSound ==
  ASSUME NEW k \in BOOLEAN, NEW c, Sound(c, k)
  PROVE  /\ Sound(TimeAnew(c), k) /\ "time" \notin TimeAnew(c).heard
         /\ TimeAnew(c) = [c EXCEPT !.heard = TimeAnew(c).heard]
  BY DEF TimeAnew, Sound, Shape

\* A form that starts, or starts again, keeps the promises.
LEMMA StartCaptureGood ==
  ASSUME NEW c, Sound(c, named), named \in BOOLEAN, NEW t \in {"PRE", "POST"}
  PROVE  Good(StartCapture(c, t), named) /\ StartCapture(c, t).state \in Capture
<1> DEFINE d == WithKnownName(Typed(c, t))
<1>1. Sound(d, named) /\ (named => "name" \in d.slots)
  <2>1. Sound(Typed(c, t), named)
    BY TypedSound
  <2> QED
    BY <2>1, KnownName
<1> HIDE DEF d
<1>2. CASE Asks(d) # "complete"
  <2>1. Good(AskNext(d), named) /\ AskNext(d).state \in Capture
    BY <1>1, <1>2, AsksWhat, AskNextGood
  <2> QED
    BY <1>2, <2>1 DEF StartCapture, d
<1>3. CASE Asks(d) = "complete"
  <2>1. named
    <3>1. d.moving # 0 \/ Required(d.type) \subseteq d.slots
      BY <1>1, <1>3, AsksWhat
    <3> QED
      BY <1>1, <3>1 DEF Sound, Required, Slot
  <2> DEFINE e == At(d, "ASK_CALLBACK_TIME")
  <2>2. StartCapture(c, t) = TimeAnew(e)
    BY <1>3, <2>1 DEF StartCapture, d
  <2>3. Sound(e, named) /\ e.state = "ASK_CALLBACK_TIME"
    BY <1>1, AtSound DEF State, Capture
  <2> HIDE DEF e
  <2>4. Sound(TimeAnew(e), named) /\ "time" \notin TimeAnew(e).heard
    BY <2>3, TimeAnewSound
  <2>5. TimeAnew(e).state = "ASK_CALLBACK_TIME"
    BY <2>3 DEF TimeAnew, Sound, Shape
  <2> QED
    BY <2>1, <2>2, <2>4, <2>5 DEF Good, FormPromise, BranchPromise, Capture
<1> QED
  BY <1>2, <1>3

\* Asking a known contact for the new time of a booking keeps them.
LEMMA AskForTheNewTimeGood ==
  ASSUME NEW c, Sound(c, named), named, leads \in Seq(Lead), NEW i \in DOMAIN leads
  PROVE  Good(AskForTheNewTime(c, i), named)
<1>1. leads[i] \in Lead /\ i \in Nat /\ i <= Len(leads)
  BY LenProperties, ElementOfSeq
<1> DEFINE d == TimeAnew(c)
<1>2. Sound(d, named) /\ "time" \notin d.heard
  BY TimeAnewSound
<1>3. AskForTheNewTime(c, i) = [d EXCEPT !.moving = i, !.type = leads[i].type, !.state = "ASK_CALLBACK_TIME"]
  BY DEF AskForTheNewTime
<1> DEFINE e == AskForTheNewTime(c, i)
<1> HIDE DEF d, e
<1>4. /\ e \in Shape /\ e.state = "ASK_CALLBACK_TIME" /\ e.moving = i /\ e.slots = d.slots
      /\ e.flags = d.flags /\ e.prompted = d.prompted /\ e.tries = d.tries
      /\ e.heard = d.heard /\ e.phone = d.phone /\ e.time = d.time
  <2>1. leads[i].type \in {"PRE", "POST"} /\ "ASK_CALLBACK_TIME" \in State
    BY <1>1 DEF Lead, State, Capture
  <2> DEFINE t == leads[i].type
  <2>2. e = [d EXCEPT !.moving = i, !.type = t, !.state = "ASK_CALLBACK_TIME"]
    BY <1>3 DEF e
  <2> HIDE DEF t
  <2>3. t \in {"PRE", "POST"}
    BY <2>1 DEF t
  <2>4. e \in Shape
    BY <1>1, <1>2, <2>1, <2>2, <2>3 DEF Sound, Shape
  <2> QED
    BY <1>2, <2>2, <2>4 DEF Sound, Shape
<1>5. Good(e, named)
  BY <1>1, <1>2, <1>4 DEF Good, Sound, FormPromise, BranchPromise
<1> QED
  BY <1>5 DEF e

\* A plain state promises nothing.
LEMMA PlainGood ==
  ASSUME NEW k \in BOOLEAN, NEW c, Sound(c, k), NEW s \in Plain
  PROVE  Good(At(c, s), k) /\ At(c, s).state = s
<1>1. Sound(At(c, s), k) /\ At(c, s).state = s
  BY AtSound DEF Plain, State, Selling
<1> QED
  BY <1>1 DEF Good, FormPromise, BranchPromise, Plain, Capture

\* The branches a conversation is sent into keep the promises.
LEMMA BranchesGood ==
  ASSUME NEW k \in BOOLEAN, NEW c, Sound(c, k)
  PROVE  /\ Good(StartDiscovery(c), k)
         /\ \A x \in Course : Good(SelectCourse(c, x), k)
         /\ Good(AnswerAtMenu(c), k)
         /\ Good(Support(c), k)
<1>1. \A s \in {"DISCOVERY", "COURSE_QNA", "GENERAL_QNA", "POST_SALES"} : Sound(At(c, s), k) /\ At(c, s).state = s
  BY AtSound DEF State, Selling
<1>2. Good(StartDiscovery(c), k)
  <2>1. Sound(Typed(At(c, "DISCOVERY"), "PRE"), k) /\ Typed(At(c, "DISCOVERY"), "PRE").state = "DISCOVERY"
    BY <1>1, TypedSound
  <2>2. Sound(StartDiscovery(c), k) /\ StartDiscovery(c).state = "DISCOVERY"
    BY <2>1, OnSound DEF StartDiscovery
  <2> QED
    BY <2>2 DEF Good, FormPromise, BranchPromise, Capture
<1>3. ASSUME NEW x \in Course PROVE Good(SelectCourse(c, x), k)
  <2>1. Sound(Typed(At(c, "COURSE_QNA"), "PRE"), k) /\ Typed(At(c, "COURSE_QNA"), "PRE").state = "COURSE_QNA"
    BY <1>1, TypedSound
  <2>2. Sound(SelectCourse(c, x), k) /\ SelectCourse(c, x).state = "COURSE_QNA" /\ SelectCourse(c, x).course = x
    BY <2>1, OnSound DEF SelectCourse
  <2> QED
    BY <2>2 DEF Good, FormPromise, BranchPromise, Capture, Course
<1>4. Good(AnswerAtMenu(c), k)
  <2>1. Sound(PreUnlessSet(At(c, "GENERAL_QNA")), k) /\ PreUnlessSet(At(c, "GENERAL_QNA")).state = "GENERAL_QNA"
    BY <1>1, PreSound
  <2>2. Sound(AnswerAtMenu(c), k) /\ AnswerAtMenu(c).state = "GENERAL_QNA"
    BY <2>1, BumpSound DEF AnswerAtMenu
  <2> QED
    BY <2>2 DEF Good, FormPromise, BranchPromise, Capture
<1>5. Good(Support(c), k)
  <2>1. Sound(Support(c), k) /\ Support(c).state = "POST_SALES" /\ Support(c).type = "POST"
    BY <1>1, TypedSound DEF Support
  <2> QED
    BY <2>1 DEF Good, FormPromise, BranchPromise, Capture
<1> QED
  BY <1>2, <1>3, <1>4, <1>5

\* An answer in the support branch, too.
LEMMA SupportReplyGood ==
  ASSUME NEW c, Sound(c, named), named \in BOOLEAN, c.type = "POST", NEW m
  PROVE  Good(SupportReply(c, m), named)
<1>1. CASE Says(m, "human")
  BY <1>1, StartCaptureGood DEF SupportReply
<1>2. CASE ~Says(m, "human")
  <2>1. Sound(Bump(c), named) /\ Bump(c).type = "POST"
    BY BumpSound
  <2>2. /\ Sound(At(Bump(c), "SUPPORT_CALLBACK"), named)
        /\ At(Bump(c), "SUPPORT_CALLBACK").state = "SUPPORT_CALLBACK" /\ At(Bump(c), "SUPPORT_CALLBACK").type = "POST"
    BY <2>1, AtSound DEF State
  <2> QED
    BY <1>2, <2>2 DEF SupportReply, Good, FormPromise, BranchPromise, Capture
<1> QED
  BY <1>1, <1>2

\* So do an answer and the prompt that may follow it, if there is a course
\* where the answer needs one.
LEMMA AnswerGood ==
  ASSUME NEW k \in BOOLEAN, NEW c, Sound(c, k), c.state \in Selling, NEW m, NEW calls,
         c.state \in {"COURSE_QNA", "DISCOVERY"} => c.course # "none"
  PROVE  Good(AnswerAndPrompt(c, m, calls), k)
<1> DEFINE d == Bump(c)
<1>1. Sound(d, k) /\ d.state = c.state /\ d.course = c.course
  BY BumpSound
<1> HIDE DEF d
<1>2. /\ Prompted(d) \in Shape /\ Sound(Prompted(d), k) /\ Prompted(d).state = c.state /\ Prompted(d).course = c.course
  <2> DEFINE e == Prompted(d)
  <2>1. e \in Shape /\ e.flags = d.flags \union {"nudged"} /\ e.state = c.state /\ e.course = c.course
    BY <1>1 DEF Prompted, Sound, Shape, Flag
  <2>2. /\ e.slots = d.slots /\ e.moving = d.moving /\ e.tries = d.tries
        /\ e.heard = d.heard /\ e.phone = d.phone /\ e.time = d.time
    BY <1>1 DEF Prompted, Sound, Shape
  <2> HIDE DEF e
  <2>3. Sound(e, k)
    BY <1>1, <2>1, <2>2 DEF Sound
  <2> QED
    BY <2>1, <2>3 DEF e
<1>3. ASSUME NEW e, Sound(e, k), e.state = c.state, e.course = c.course PROVE Good(e, k)
  BY <1>3 DEF Good, FormPromise, BranchPromise, Selling, Capture
<1>4. Good(d, k)
  BY <1>1, <1>3
<1>5. Good(Offer(d), k)
  <2>1. Sound(Offer(d), k) /\ Offer(d).state = c.state /\ Offer(d).course = c.course
    BY <1>2, FlaggedSound DEF Offer, Flag
  <2> QED
    BY <1>3, <2>1
<1>6. Good(OfferCallback(d), k)
  <2>1. OfferCallback(d) = [Prompted(d) EXCEPT !.resume = c.state, !.state = "ASK_CALLBACK"]
    BY <1>1 DEF OfferCallback
  <2>2. /\ Sound(OfferCallback(d), k) /\ OfferCallback(d).state = "ASK_CALLBACK"
        /\ OfferCallback(d).resume = c.state /\ OfferCallback(d).course = c.course
    <3> DEFINE p == Prompted(d)
               e == OfferCallback(d)
    <3>1. p \in Shape /\ Sound(p, k) /\ p.course = c.course
      BY <1>2
    <3>2. e = [p EXCEPT !.resume = c.state, !.state = "ASK_CALLBACK"]
      BY <2>1
    <3> HIDE DEF p, e
    <3>3. /\ e \in Shape /\ e.state = "ASK_CALLBACK" /\ e.resume = c.state /\ e.course = p.course
          /\ e.slots = p.slots /\ e.moving = p.moving /\ e.prompted = p.prompted /\ e.flags = p.flags
          /\ e.phone = p.phone /\ e.time = p.time /\ e.tries = p.tries /\ e.heard = p.heard
      BY <3>1, <3>2 DEF Shape, State
    <3>4. Sound(e, k)
      BY <3>1, <3>3 DEF Sound
    <3> QED
      BY <3>1, <3>3, <3>4 DEF e
  <2> QED
    BY <2>2 DEF Good, FormPromise, BranchPromise, Selling, Capture
<1> QED
  BY <1>4, <1>5, <1>6 DEF AnswerAndPrompt, d

(***************************************************************************)
(* The messages outside the form.                                          *)
(***************************************************************************)
\* A message that only changes the conversation, and leaves it as promised.
LEMMA ConverseInv == ASSUME Inv, NEW c, Good(c, named), Converse(c) PROVE Inv'
  BY DEF Inv, Converse, Good, Sound, LeadsOK, BookingsComplete

\* The bookings still to come are a known contact's.
LEMMA UpcomingKnown ==
  ASSUME Inv, Upcoming # {}
  PROVE  named
<1>1. PICK i \in Upcoming : TRUE
  OBVIOUS
<1>2. i \in DOMAIN leads
  BY <1>1 DEF Upcoming
<1>3. leads # <<>>
  BY <1>2, EmptySeq, LenProperties DEF Inv, LeadsOK
<1> QED
  BY <1>3 DEF Inv, LeadsOK

\* The offer's buttons, in any state.
LEMMA OfferReplyInv == ASSUME Inv, NEW m \in Message, OfferReply(m) PROVE Inv'
<1>1. Good(conv, named) /\ Sound(conv, named) /\ named \in BOOLEAN
  BY DEF Inv, Good
<1>2. CASE Converse(At(conv, IF conv.course = "none" THEN "DISCOVERY" ELSE "COURSE_QNA"))
  <2>1. /\ Sound(At(conv, "DISCOVERY"), named) /\ At(conv, "DISCOVERY").state = "DISCOVERY"
        /\ Sound(At(conv, "COURSE_QNA"), named) /\ At(conv, "COURSE_QNA").state = "COURSE_QNA"
        /\ At(conv, "COURSE_QNA").course = conv.course
    BY <1>1, AtSound DEF State, Selling
  <2>2. Good(At(conv, IF conv.course = "none" THEN "DISCOVERY" ELSE "COURSE_QNA"), named)
    BY <2>1 DEF Good, FormPromise, BranchPromise, Capture
  <2> QED
    BY <1>2, <2>2, ConverseInv
<1>3. CASE Converse(Flagged(conv, "paylink"))
  <2>1. Good(Flagged(conv, "paylink"), named)
    BY <1>1, FlaggedSound DEF Good, Flag
  <2> QED
    BY <1>3, <2>1, ConverseInv
<1>4. CASE Converse(conv)
  BY <1>1, <1>4, ConverseInv
<1> QED
  BY <1>2, <1>3, <1>4 DEF OfferReply

\* The navigation buttons.
LEMMA NavigateInv == ASSUME Inv, NEW m \in Message, Navigate(m) PROVE Inv'
<1>1. Sound(conv, named) /\ named \in BOOLEAN
  BY DEF Inv, Good
<1>2. ASSUME NEW c, Sound(c, named), NEW s \in Plain, Converse(PreUnlessSet(At(c, s))) PROVE Inv'
  <2>1. Sound(At(c, s), named) /\ At(c, s).state = s
    BY <1>1, <1>2, AtSound DEF Plain, State, Selling
  <2>2. Sound(PreUnlessSet(At(c, s)), named) /\ PreUnlessSet(At(c, s)).state = s
    BY <1>1, <2>1, PreSound
  <2>3. Good(PreUnlessSet(At(c, s)), named)
    BY <2>2 DEF Good, FormPromise, BranchPromise, Plain, Capture
  <2> QED
    BY <1>2, <2>3, ConverseInv
<1>3. ASSUME NEW c, Sound(c, named), NEW s \in Plain, Converse(At(c, s)) PROVE Inv'
  BY <1>1, <1>3, PlainGood, ConverseInv
<1>4. Sound(ResetFlow(conv), named)
  BY <1>1, ResetSound
<1>5. CASE Converse(PreUnlessSet(At(ResetFlow(conv), "COURSE_GROUP")))
  BY <1>2, <1>4, <1>5 DEF Plain
<1>6. CASE Converse(PreUnlessSet(At(conv, "COURSE_SELECTION")))
  BY <1>1, <1>2, <1>6 DEF Plain
<1>7. CASE Converse(StartDiscovery(conv)) \/ Converse(Support(conv))
  BY <1>1, <1>7, BranchesGood, ConverseInv
<1>8. CASE Converse(At(ResetFlow(conv), "ENROLLMENT_TYPE"))
  BY <1>3, <1>4, <1>8 DEF Plain
<1>9. CASE Converse(StartCapture(conv, TypeOrPre(conv)))
  BY <1>1, <1>9, PreSound, StartCaptureGood, ConverseInv
<1>10. CASE Converse(At(conv, "COURSE_SELECTION"))
  BY <1>1, <1>3, <1>10 DEF Plain
<1>11. CASE m.tap = "course:row" /\ Converse(PreUnlessSet(On(At(conv, "COURSE_QNA"), m.about)))
  <2>1. m.about \in Course
    <3>1. m \in NavTaps
      BY DEF Navigate, IsNavigation
    <3>2. m \in {CourseTap(c) : c \in Course}
      BY <1>11, <3>1 DEF NavTaps, Tap
    <3> QED
      BY <3>2 DEF CourseTap
  <2>2. Sound(At(conv, "COURSE_QNA"), named) /\ At(conv, "COURSE_QNA").state = "COURSE_QNA"
    BY <1>1, AtSound DEF State, Selling
  <2> DEFINE d == On(At(conv, "COURSE_QNA"), m.about)
  <2>3. Sound(d, named) /\ d.state = "COURSE_QNA" /\ d.course = m.about
    BY <1>1, <2>1, <2>2, OnSound
  <2> HIDE DEF d
  <2>4. Sound(PreUnlessSet(d), named) /\ PreUnlessSet(d).state = "COURSE_QNA" /\ PreUnlessSet(d).course = m.about
    BY <1>1, <2>3, PreSound
  <2>5. Good(PreUnlessSet(d), named)
    BY <2>1, <2>4 DEF Good, FormPromise, BranchPromise, Capture, Course
  <2> QED
    BY <1>11, <2>5, ConverseInv DEF d
<1> QED
  BY <1>5, <1>6, <1>7, <1>8, <1>9, <1>10, <1>11 DEF Navigate

\* The text commands.
LEMMA CommandInv == ASSUME Inv, NEW m \in Message, Command(m) PROVE Inv'
<1>1. Sound(conv, named) /\ named \in BOOLEAN /\ leads \in Seq(Lead)
  BY DEF Inv, Good, LeadsOK
<1>2. CASE MenuCommand(m)
  <2>1. Good(At(ResetFlow(conv), "MAIN_MENU"), named)
    BY <1>1, ResetSound, PlainGood DEF Plain
  <2> QED
    BY <1>2, <2>1, ConverseInv DEF MenuCommand
<1>3. CASE CatalogueCommand(m)
  <2> DEFINE d == At(conv, "COURSE_GROUP")
  <2>1. Sound(d, named) /\ d.state = "COURSE_GROUP"
    BY <1>1, AtSound DEF State
  <2> HIDE DEF d
  <2>2. Sound(PreUnlessSet(d), named) /\ PreUnlessSet(d).state = "COURSE_GROUP"
    BY <1>1, <2>1, PreSound
  <2>3. Good(PreUnlessSet(d), named)
    BY <2>2 DEF Good, FormPromise, BranchPromise, Capture
  <2> QED
    BY <1>3, <2>3, ConverseInv DEF CatalogueCommand, d
<1>4. Good(StartCapture(conv, TypeOrPre(conv)), named)
  BY <1>1, PreSound, StartCaptureGood
<1>5. CASE RescheduleCommand(m)
  <2>1. ASSUME NEW i \in Upcoming, Converse(AskForTheNewTime(conv, i)) PROVE Inv'
    <3>1. i \in DOMAIN leads /\ named
      BY <2>1, UpcomingKnown DEF Upcoming
    <3> QED
      BY <1>1, <2>1, <3>1, AskForTheNewTimeGood, ConverseInv
  <2> QED
    BY <1>4, <1>5, <2>1, ConverseInv DEF RescheduleCommand
<1>6. CASE HumanCommand(m)
  <2>1. Upcoming # {} => Good(At(conv, "CONFIRM_RESCHEDULE"), named)
    <3>1. Sound(At(conv, "CONFIRM_RESCHEDULE"), named) /\ At(conv, "CONFIRM_RESCHEDULE").state = "CONFIRM_RESCHEDULE"
      BY <1>1, AtSound DEF State
    <3> QED
      BY <3>1, UpcomingKnown DEF Good, FormPromise, BranchPromise, Capture
  <2> QED
    BY <1>4, <1>6, <2>1, ConverseInv DEF HumanCommand
<1> QED
  BY <1>2, <1>3, <1>5, <1>6 DEF Command

\* The answer to a message at the menu.
LEMMA MainMenuReplyGood ==
  ASSUME NEW c, Good(c, named), c.state = "MAIN_MENU", named \in BOOLEAN, NEW m \in Message
  PROVE  Good(MainMenuReply(c, m), named)
<1>1. Sound(c, named) /\ m.about \in Course \union {"none"}
  BY AboutType DEF Good
<1>2. Good(Typed(At(c, "COURSE_SELECTION"), "PRE"), named)
  <2> DEFINE d == At(c, "COURSE_SELECTION")
  <2>1. Sound(d, named) /\ d.state = "COURSE_SELECTION"
    BY <1>1, AtSound DEF State
  <2> HIDE DEF d
  <2>2. Sound(Typed(d, "PRE"), named) /\ Typed(d, "PRE").state = "COURSE_SELECTION"
    BY <2>1, TypedSound
  <2> QED
    BY <2>2 DEF Good, FormPromise, BranchPromise, Capture, d
<1>3. Good(Support(c), named) /\ Good(AnswerAtMenu(c), named) /\ Good(StartCapture(c, "PRE"), named)
  BY <1>1, BranchesGood, StartCaptureGood
<1>4. m.about # "none" => Good(SelectCourse(c, m.about), named)
  BY <1>1, BranchesGood
<1> QED
  BY <1>2, <1>3, <1>4 DEF MainMenuReply

\* The handlers of the menus.
LEMMA MenusInv ==
  ASSUME Inv, NEW m \in Message,
         Start(m) \/ MainMenu(m) \/ CourseGroup(m) \/ CourseSelection(m) \/ EnrollmentType(m)
  PROVE  Inv'
<1>1. Good(conv, named) /\ Sound(conv, named) /\ named \in BOOLEAN /\ m.about \in Course \union {"none"}
  BY AboutType DEF Inv, Good
<1>2. CASE Start(m)
  <2>1. /\ Good(At(conv, "END"), named)
        /\ Good(At(conv, "MAIN_MENU"), named) /\ At(conv, "MAIN_MENU").state = "MAIN_MENU"
    BY <1>1, PlainGood DEF Plain
  <2>2. Good(MainMenuReply(At(conv, "MAIN_MENU"), m), named)
    BY <1>1, <2>1, MainMenuReplyGood
  <2> QED
    BY <1>2, <2>1, <2>2, ConverseInv DEF Start
<1>3. CASE MainMenu(m)
  <2>1. Good(MainMenuReply(conv, m), named)
    BY <1>1, <1>3, MainMenuReplyGood DEF MainMenu, Handles
  <2> QED
    BY <1>3, <2>1, ConverseInv DEF MainMenu
<1>4. /\ Good(StartDiscovery(conv), named) /\ Good(AnswerAtMenu(conv), named) /\ Good(Support(conv), named)
      /\ m.about # "none" => Good(SelectCourse(conv, m.about), named)
  BY <1>1, BranchesGood
<1>5. CASE CourseGroup(m)
  <2>1. Good(Typed(At(conv, "COURSE_SELECTION"), "PRE"), named)
    <3> DEFINE d == At(conv, "COURSE_SELECTION")
    <3>1. Sound(d, named) /\ d.state = "COURSE_SELECTION"
      BY <1>1, AtSound DEF State
    <3> HIDE DEF d
    <3>2. Sound(Typed(d, "PRE"), named) /\ Typed(d, "PRE").state = "COURSE_SELECTION"
      BY <1>1, <3>1, TypedSound
    <3> QED
      BY <3>2 DEF Good, FormPromise, BranchPromise, Capture, d
  <2> QED
    BY <1>1, <1>4, <1>5, <2>1, ConverseInv DEF CourseGroup
<1>6. CASE CourseSelection(m)
  <2>1. Good(At(conv, "COURSE_GROUP"), named)
    BY <1>1, PlainGood DEF Plain
  <2> QED
    BY <1>4, <1>6, <2>1, ConverseInv DEF CourseSelection
<1>7. CASE EnrollmentType(m)
  <2> DEFINE course == [conv EXCEPT !.slots = @ \union {"course"}]
  <2>1. Sound(course, named)
    BY <1>1 DEF Sound, Shape, Slot
  <2>2. Good(StartDiscovery(course), named) /\ Good(Support(course), named)
    BY <1>1, <2>1, BranchesGood
  <2> QED
    BY <1>1, <1>4, <1>7, <2>2, ConverseInv DEF EnrollmentType
<1> QED
  BY <1>2, <1>3, <1>5, <1>6, <1>7

\* The handlers of the sales questions.
LEMMA QuestionsInv ==
  ASSUME Inv, NEW m \in Message, CourseQna(m) \/ GeneralQna(m) \/ Discovery(m) \/ AskCallback(m)
  PROVE  Inv'
<1>1. Good(conv, named) /\ Sound(conv, named) /\ named \in BOOLEAN /\ m.about \in Course \union {"none"}
  BY AboutType DEF Inv, Good
<1>2. CASE CourseQna(m)
  <2> DEFINE c == IF m.about = "none" THEN conv ELSE On(conv, m.about)
  <2>1. Sound(c, named) /\ c.state = "COURSE_QNA" /\ c.course # "none"
    <3>1. conv.state = "COURSE_QNA" /\ conv.course # "none"
      BY <1>1, <1>2 DEF CourseQna, Handles, Good, BranchPromise
    <3> QED
      BY <1>1, <3>1, OnSound
  <2> HIDE DEF c
  <2>2. Good(AnswerAndPrompt(c, m, Upcoming), named)
    BY <1>1, <2>1, AnswerGood DEF Selling
  <2> QED
    BY <1>2, <2>2, ConverseInv DEF CourseQna, c
<1>3. CASE GeneralQna(m)
  <2> DEFINE c == IF m.about = "none" THEN conv ELSE On(At(conv, "COURSE_QNA"), m.about)
  <2>1. Sound(c, named) /\ (c.state = "GENERAL_QNA" \/ (c.state = "COURSE_QNA" /\ c.course # "none"))
    <3>1. conv.state = "GENERAL_QNA"
      BY <1>3 DEF GeneralQna, Handles
    <3> DEFINE d == At(conv, "COURSE_QNA")
    <3>2. Sound(d, named) /\ d.state = "COURSE_QNA"
      BY <1>1, AtSound DEF State, Selling
    <3> HIDE DEF d
    <3>3. /\ Sound(On(d, m.about), named)
          /\ On(d, m.about).state = "COURSE_QNA" /\ On(d, m.about).course = m.about
      BY <1>1, <3>2, OnSound
    <3>4. m.about = "none" => c = conv
      OBVIOUS
    <3>5. m.about # "none" => c = On(d, m.about)
      BY DEF d
    <3> HIDE DEF c
    <3>6. CASE m.about = "none"
      BY <1>1, <3>1, <3>4, <3>6
    <3>7. CASE m.about # "none"
      BY <3>3, <3>5, <3>7
    <3> QED
      BY <3>6, <3>7
  <2> HIDE DEF c
  <2>2. Good(AnswerAndPrompt(c, m, Upcoming), named)
    BY <1>1, <2>1, AnswerGood DEF Selling
  <2> QED
    BY <1>3, <2>2, ConverseInv DEF GeneralQna, c
<1>4. CASE Discovery(m)
  <2> DEFINE x == IF m.about # "none" THEN m.about ELSE IF conv.course = "none" THEN "upsell" ELSE conv.course
  <2>1. x \in Course
    BY <1>1 DEF Course, Sound, Shape
  <2>2. conv.state = "DISCOVERY" /\ Converse(AnswerAndPrompt(On(conv, x), m, {}))
    BY <1>4 DEF Discovery, Handles
  <2> HIDE DEF x
  <2>3. Sound(On(conv, x), named) /\ On(conv, x).state = "DISCOVERY" /\ On(conv, x).course = x
    BY <1>1, <2>1, <2>2, OnSound
  <2>4. Good(AnswerAndPrompt(On(conv, x), m, {}), named)
    BY <1>1, <2>1, <2>3, AnswerGood DEF Selling, Course
  <2> QED
    BY <2>2, <2>4, ConverseInv
<1>5. CASE AskCallback(m)
  <2>1. /\ conv.resume \in Selling /\ conv.resume \in State
        /\ conv.resume \in {"COURSE_QNA", "DISCOVERY"} => conv.course # "none"
    BY <1>1, <1>5 DEF AskCallback, Handles, Good, BranchPromise, Sound, Shape, State
  <2>2. Good(StartCapture(conv, TypeOrPre(conv)), named)
    BY <1>1, PreSound, StartCaptureGood
  <2>3. /\ Sound(At(conv, conv.resume), named)
        /\ At(conv, conv.resume).state = conv.resume /\ At(conv, conv.resume).course = conv.course
    BY <1>1, <2>1, AtSound
  <2>4. /\ Sound(Bump(At(conv, conv.resume)), named)
        /\ Bump(At(conv, conv.resume)).state = conv.resume /\ Bump(At(conv, conv.resume)).course = conv.course
    BY <1>1, <2>3, BumpSound
  <2>5. Good(At(conv, conv.resume), named) /\ Good(Bump(At(conv, conv.resume)), named)
    BY <2>1, <2>3, <2>4 DEF Good, FormPromise, BranchPromise, Selling, Capture
  <2> QED
    BY <1>5, <2>2, <2>5, ConverseInv DEF AskCallback
<1> QED
  BY <1>2, <1>3, <1>4, <1>5

\* The handlers of the support branch, and the question whether to move a call.
LEMMA SupportInv ==
  ASSUME Inv, NEW m \in Message,
         PostSales(m) \/ SupportQuery(m) \/ SupportCallback(m) \/ ConfirmReschedule(m)
  PROVE  Inv'
<1>1. Good(conv, named) /\ Sound(conv, named) /\ named \in BOOLEAN /\ leads \in Seq(Lead)
  BY DEF Inv, Good, LeadsOK
<1>2. ASSUME NEW c, Sound(c, named), c.type = "POST"
      PROVE  /\ Sound(At(c, "SUPPORT_QUERY"), named) /\ At(c, "SUPPORT_QUERY").type = "POST"
             /\ Good(At(c, "SUPPORT_QUERY"), named)
             /\ Good(SupportReply(At(c, "SUPPORT_QUERY"), m), named)
             /\ Good(SupportReply(c, m), named)
  <2>1. /\ Sound(At(c, "SUPPORT_QUERY"), named) /\ At(c, "SUPPORT_QUERY").type = "POST"
        /\ At(c, "SUPPORT_QUERY").state = "SUPPORT_QUERY"
    BY <1>1, <1>2, AtSound DEF State
  <2>2. Good(At(c, "SUPPORT_QUERY"), named)
    BY <2>1 DEF Good, FormPromise, BranchPromise, Capture
  <2> QED
    BY <1>1, <1>2, <2>1, <2>2, SupportReplyGood
<1>3. CASE PostSales(m)
  <2> DEFINE c == Typed(conv, "POST")
  <2>1. Sound(c, named) /\ c.state = "POST_SALES" /\ c.type = "POST"
    BY <1>1, <1>3, TypedSound DEF PostSales, Handles
  <2>2. \/ Converse(At(c, "SUPPORT_QUERY"))
        \/ Converse(SupportReply(At(c, "SUPPORT_QUERY"), m))
        \/ Converse(c)
    BY <1>3 DEF PostSales
  <2> HIDE DEF c
  <2>3. Good(c, named)
    BY <2>1 DEF Good, FormPromise, BranchPromise, Capture
  <2> QED
    BY <1>2, <2>1, <2>2, <2>3, ConverseInv
<1>4. CASE SupportQuery(m)
  <2>1. conv.type = "POST"
    BY <1>1, <1>4 DEF SupportQuery, Handles, Good, BranchPromise
  <2> QED
    BY <1>1, <1>2, <1>4, <2>1, ConverseInv DEF SupportQuery
<1>5. CASE SupportCallback(m)
  <2>1. conv.type = "POST"
    BY <1>1, <1>5 DEF SupportCallback, Handles, Good, BranchPromise
  <2>2. Good(StartCapture(conv, "POST"), named)
    BY <1>1, StartCaptureGood
  <2> QED
    BY <1>1, <1>2, <1>5, <2>1, <2>2, ConverseInv DEF SupportCallback
<1>6. CASE ConfirmReschedule(m)
  <2>1. conv.state = "CONFIRM_RESCHEDULE" /\ named
    BY <1>1, <1>6 DEF ConfirmReschedule, Handles, Good, FormPromise
  <2>2. Good([TimeAnew(At(conv, "ASK_CALLBACK_TIME")) EXCEPT !.moving = 0], named)
    <3> DEFINE a == At(conv, "ASK_CALLBACK_TIME")
               d == TimeAnew(a)
    <3>1. Sound(d, named) /\ d.state = "ASK_CALLBACK_TIME" /\ "time" \notin d.heard
      <4>1. Sound(a, named) /\ a.state = "ASK_CALLBACK_TIME"
        BY <1>1, AtSound DEF State, Capture
      <4> HIDE DEF a
      <4>2. Sound(TimeAnew(a), named) /\ "time" \notin TimeAnew(a).heard
        BY <1>1, <4>1, TimeAnewSound
      <4>3. TimeAnew(a).state = "ASK_CALLBACK_TIME"
        BY <4>1 DEF TimeAnew, Sound, Shape
      <4> QED
        BY <4>2, <4>3
    <3> HIDE DEF d
    <3>2. /\ Sound([d EXCEPT !.moving = 0], named) /\ [d EXCEPT !.moving = 0].state = "ASK_CALLBACK_TIME"
          /\ "time" \notin [d EXCEPT !.moving = 0].heard
      <4>1. Len(leads) \in Nat
        BY <1>1, LenProperties
      <4> DEFINE e == [d EXCEPT !.moving = 0]
      <4>2. /\ e \in Shape /\ e.state = "ASK_CALLBACK_TIME" /\ e.moving = 0 /\ e.slots = d.slots
            /\ e.flags = d.flags /\ e.tries = d.tries /\ e.prompted = d.prompted
            /\ e.heard = d.heard /\ e.phone = d.phone /\ e.time = d.time
        BY <3>1 DEF Sound, Shape
      <4> HIDE DEF e
      <4>3. Sound(e, named) /\ e.state = "ASK_CALLBACK_TIME" /\ "time" \notin e.heard
        BY <3>1, <4>1, <4>2 DEF Sound
      <4> QED
        BY <4>3 DEF e
    <3> QED
      BY <2>1, <3>2 DEF Good, FormPromise, BranchPromise, d, a
  <2>3. \A i \in Upcoming : Good(AskForTheNewTime(conv, i), named)
    BY <1>1, <2>1, AskForTheNewTimeGood DEF Upcoming
  <2> QED
    BY <1>1, <1>6, <2>2, <2>3, ConverseInv DEF ConfirmReschedule
<1> QED
  BY <1>3, <1>4, <1>5, <1>6

(***************************************************************************)
(* The form.                                                               *)
(***************************************************************************)
\* A conversation nobody has written in yet.
LEMMA FreshGood == ASSUME leads \in Seq(Lead) PROVE \A k \in BOOLEAN : Good(Fresh, k)
<1>1. Len(leads) \in Nat
  BY LenProperties
<1>2. Fresh \in Shape /\ [s \in Slot |-> 0]["name"] = 0
  BY FlowAssumption DEF Fresh, Shape, State, Slot
<1>3. \A k \in BOOLEAN : Sound(Fresh, k)
  BY <1>1, <1>2, FlowAssumption DEF Sound, Fresh
<1>4. Fresh.state = "START"
  BY DEF Fresh
<1> QED
  BY <1>3, <1>4 DEF Good, FormPromise, BranchPromise, Capture

\* A booking is made, or moved, from a conversation that has all it takes: by a
\* known contact, complete, and a move adds none.
LEMMA CreateLeadOK ==
  ASSUME LeadsOK, NEW k \in BOOLEAN, NEW c, Sound(c, k), c.time = "ahead",
         c.moving = 0 => Required(c.type) \subseteq c.slots,
         CreateLead(c), named' = (named \/ k), named \in BOOLEAN
  PROVE  /\ LeadsOK' /\ k /\ conv' = Fresh
         /\ c.moving # 0 => Len(leads') = Len(leads) /\ leads'[c.moving].at = c.time
         /\ c.moving = 0 => Len(leads') > Len(leads)
<1>1. leads \in Seq(Lead) /\ Len(leads) \in Nat /\ Len(leads) <= MaxLeads /\ DOMAIN leads = 1 .. Len(leads)
  BY LenProperties DEF LeadsOK
<1>2. c.moving # 0 \/ "name" \in c.slots
  BY DEF Required, Slot
<1>3. k /\ named'
  BY <1>2 DEF Sound
<1>4. CASE c.moving # 0
  <2>1. c.moving \in 1 .. Len(leads)
    BY <1>1, <1>4 DEF Sound, Shape
  <2>2. leads' = [leads EXCEPT ![c.moving].at = c.time] /\ conv' = Fresh
    BY <1>4 DEF CreateLead
  <2> DEFINE new == [leads[c.moving] EXCEPT !.at = c.time]
  <2>3. leads[c.moving] \in Lead
    BY <1>1, <2>1, ElementOfSeq
  <2>4. new \in Lead /\ new.at = "ahead" /\ new.type = leads[c.moving].type /\ new.has = leads[c.moving].has
    BY <2>3 DEF Lead
  <2>5. leads' = [leads EXCEPT ![c.moving] = new]
    BY <2>2
  <2> HIDE DEF new
  <2>6. /\ leads' \in Seq(Lead) /\ Len(leads') = Len(leads)
        /\ \A j \in 1 .. Len(leads) : leads'[j] = IF j = c.moving THEN new ELSE leads[j]
    BY <1>1, <2>1, <2>4, <2>5, ExceptSeq
  <2>7. DOMAIN leads' = 1 .. Len(leads)
    BY <2>6, LenProperties
  <2>8. BookingsComplete'
    BY <1>1, <2>1, <2>4, <2>6, <2>7 DEF LeadsOK, BookingsComplete
  <2> QED
    BY <1>1, <1>3, <1>4, <2>1, <2>2, <2>4, <2>6, <2>8 DEF LeadsOK
<1>5. CASE c.moving = 0
  <2>1. leads' = Append(leads, Booking(c)) /\ Len(leads) < MaxLeads /\ conv' = Fresh
    BY <1>5 DEF CreateLead
  <2>2. /\ Booking(c) \in Lead /\ Booking(c).at = "ahead"
        /\ Required(Booking(c).type) \subseteq Booking(c).has
    <3>1. Required(IF c.type = "POST" THEN "POST" ELSE "PRE") = Required(c.type)
      BY DEF Required
    <3>2. /\ Booking(c).type = (IF c.type = "POST" THEN "POST" ELSE "PRE")
          /\ Booking(c).has = c.slots \intersect Required(c.type) /\ Booking(c).at = "ahead"
      BY <3>1 DEF Booking
    <3>3. Booking(c) \in Lead
      BY DEF Booking, Lead, Sound, Shape
    <3> QED
      BY <1>5, <3>1, <3>2, <3>3
  <2> DEFINE b == Booking(c)
  <2> HIDE DEF b
  <2>3. /\ leads' \in Seq(Lead) /\ Len(leads') = Len(leads) + 1
        /\ leads'[Len(leads) + 1] = Booking(c)
        /\ \A j \in 1 .. Len(leads) : leads'[j] = leads[j]
    BY <1>1, <2>1, <2>2, AppendProperties
  <2>4. DOMAIN leads' = 1 .. (Len(leads) + 1)
    BY <2>3, LenProperties
  <2>5. BookingsComplete'
    <3>1. ASSUME NEW j \in DOMAIN leads' PROVE Required(leads'[j].type) \subseteq leads'[j].has /\ leads'[j].at # "none"
      <4>1. CASE j = Len(leads) + 1
        BY <2>2, <2>3, <4>1
      <4>2. CASE j # Len(leads) + 1
        BY <1>1, <2>3, <2>4, <4>2 DEF LeadsOK, BookingsComplete
      <4> QED
        BY <4>1, <4>2
    <3> QED
      BY <3>1 DEF BookingsComplete
  <2> QED
    BY <1>1, <1>3, <1>5, <2>1, <2>3, <2>5, FlowAssumption DEF LeadsOK
<1> QED
  BY <1>4, <1>5

\* What a message gives in passing.
LEMMA ListenSound ==
  ASSUME NEW c, NEW k \in BOOLEAN, Sound(c, k) \/ Sound(c, TRUE), NEW m
  PROVE  /\ Sound(Listen(c, m), TRUE)
         /\ Listen(c, m).moving = c.moving /\ Listen(c, m).state = c.state /\ Listen(c, m).type = c.type
         /\ Listen(c, m).time = c.time
         /\ k => Sound(Listen(c, m), k)
<1> DEFINE d == Absorb(c, m)
<1>1. /\ d \in Shape /\ c.slots \subseteq d.slots
      /\ Hears(m) \intersect Slot \subseteq d.slots
      /\ (c.phone # "none" \/ "phone" \in Hears(m)) => d.phone # "none"
  <2>1. c \in Shape
    BY DEF Sound
  <2>2. /\ d.slots = c.slots \union (m.gives \intersect {"name", "email"})
                            \union (IF m.about # "none" THEN {"course"} ELSE {})
        /\ d.phone = (IF c.phone = "none" /\ "phone" \in m.gives THEN "other" ELSE c.phone)
    BY <2>1 DEF Absorb, Shape
  <2>3. d \in Shape
    BY <2>1 DEF Absorb, Shape, Slot
  <2> HIDE DEF d
  <2>4. c.slots \subseteq d.slots /\ Hears(m) \intersect Slot \subseteq d.slots
    BY <2>2 DEF Hears, Slot
  <2>5. c.phone # "none" \/ "phone" \in Hears(m) => d.phone # "none"
    BY <2>2 DEF Hears
  <2> QED
    BY <2>3, <2>4, <2>5
<1>2. /\ d.moving = c.moving /\ d.state = c.state /\ d.type = c.type /\ d.time = c.time
      /\ d.tries = c.tries /\ d.flags = c.flags /\ d.prompted = c.prompted /\ d.heard = c.heard
  BY DEF Absorb, Sound, Shape
<1>3. Hears(m) \subseteq Told \ {"time"}
  BY DEF Hears, Told, Slot
<1>4. Listen(c, m) = [d EXCEPT !.heard = c.heard \union Hears(m)]
  BY <1>2 DEF Listen
<1> DEFINE e == Listen(c, m)
<1> HIDE DEF d, e
<1>5. /\ e \in Shape /\ e.heard = c.heard \union Hears(m)
      /\ e.moving = c.moving /\ e.state = c.state /\ e.type = c.type /\ e.time = c.time /\ e.tries = c.tries
      /\ e.flags = c.flags /\ e.prompted = c.prompted /\ e.slots = d.slots /\ e.phone = d.phone
  <2>1. c.heard \union Hears(m) \in SUBSET Told
    BY <1>3 DEF Sound, Shape
  <2> QED
    BY <1>1, <1>2, <1>4, <2>1 DEF e, Shape
<1>6. Sound(e, TRUE)
  BY <1>1, <1>3, <1>5 DEF Sound
<1> QED
  BY <1>5, <1>6 DEF e, Sound

\* Filling in a known contact's name, except in a reschedule, changes nothing
\* else.
LEMMA NextQuestionSound ==
  ASSUME NEW c, NEW k \in BOOLEAN, Sound(c, k), named \in BOOLEAN, named => k
  PROVE  /\ Sound(NextQuestion(c), k)
         /\ NextQuestion(c).moving = c.moving /\ NextQuestion(c).time = c.time /\ NextQuestion(c).state = c.state
         /\ NextQuestion(c).phone = c.phone
         /\ c.moving = 0 /\ named => "name" \in NextQuestion(c).slots
  BY DEF NextQuestion, WithKnownName, Sound, Shape, Slot

\* The tail of a capture handler: the next question, or the booking.
LEMMA ContinueInv ==
  ASSUME Inv, NEW k \in BOOLEAN, NEW c, Sound(c, k), named => k, k => named \/ "name" \in c.slots,
         c.moving = 0, Continue(c), named' = k, UNCHANGED proof
  PROVE  /\ Inv'
         /\ \/ conv'.state \in Capture /\ leads' = leads
            \/ conv' = Fresh /\ Len(leads') > Len(leads)
<1> DEFINE d == NextQuestion(c)
<1>1. named \in BOOLEAN /\ LeadsOK /\ leads \in Seq(Lead) /\ proof \in BOOLEAN
  BY DEF Inv, LeadsOK
<1>2. Sound(d, k) /\ d.moving = 0 /\ (k => "name" \in d.slots)
  <2>1. Sound(d, k) /\ d.moving = 0 /\ (named => "name" \in d.slots)
    BY <1>1, NextQuestionSound
  <2>2. c.slots \subseteq d.slots
    BY DEF NextQuestion, WithKnownName, Sound, Shape
  <2> QED
    BY <2>1, <2>2
<1> HIDE DEF d
<1>3. CASE Asks(d) # "complete" /\ conv' = AskNext(d) /\ UNCHANGED leads
  <2>1. Asks(d) = "ASK_NAME" => ~k
    BY <1>2, AsksWhat
  <2>2. Good(AskNext(d), k) /\ AskNext(d).state \in Capture
    BY <1>2, <1>3, <2>1, AskNextGood
  <2> QED
    <3>1. Good(conv, named)'
      BY <1>3, <2>2 DEF Good, Sound
    <3>2. LeadsOK'
      <4>1. leads # <<>> => k
        BY <1>1 DEF LeadsOK
      <4> QED
        BY <1>1, <1>3, <4>1 DEF LeadsOK, BookingsComplete
    <3> QED
      BY <1>1, <1>3, <2>2, <3>1, <3>2 DEF Inv
<1>4. CASE Asks(d) = "complete" /\ CreateLead(d)
  <2>1. d.time = "ahead" /\ Required(d.type) \subseteq d.slots
    BY <1>2, <1>4, AsksWhat DEF Sound, Shape
  <2>2. LeadsOK' /\ conv' = Fresh /\ Len(leads') > Len(leads)
    BY <1>1, <1>2, <1>4, <2>1, CreateLeadOK
  <2>3. \A j \in BOOLEAN : Good(conv, j)'
    <3>1. leads' \in Seq(Lead)
      BY <2>2 DEF LeadsOK
    <3>2. Len(leads') \in Nat
      BY <3>1, LenProperties
    <3>3. \A j \in BOOLEAN : Good(Fresh, j)
      BY <1>1, FreshGood
    <3>4. Fresh.moving = 0
      BY DEF Fresh
    <3> QED
      BY <2>2, <3>2, <3>3, <3>4 DEF Good, Sound
  <2> QED
    BY <1>1, <2>2, <2>3 DEF Inv
<1> QED
  BY <1>3, <1>4 DEF Continue, d

\* Where a step of the form leads: on in the form, to a booking made or moved, or
\* to the explanation of why an email or course is needed.
FormStep ==
    /\ \/ conv'.state \in Capture /\ leads' = leads
       \/ conv' = Fresh /\ (Len(leads') > Len(leads) \/ leads'[conv.moving].at = conv.time)
       \/ conv.state \in {"ASK_EMAIL", "ASK_ENROLLED_COURSE"} /\ conv'.state = "SUPPORT_QUERY"
    /\ conv.moving # 0 => Len(leads') = Len(leads)

\* A good conversation is put in place, and no booking touched.
LEMMA StayInv ==
  ASSUME Inv, named' = named, UNCHANGED <<leads, proof>>, Good(conv', named)
  PROVE  Inv'
  BY DEF Inv, LeadsOK, BookingsComplete, Good, Sound

LEMMA AskNameInv == ASSUME Inv, NEW m \in Message, AskName(m) PROVE Inv' /\ FormStep
<1> DEFINE c == Listen(conv, m)
           got == [c EXCEPT !.slots = @ \union {"name"}, !.tries["name"] = 0]
           again == [c EXCEPT !.tries["name"] = @ + 1]
<1>1. conv.state = "ASK_NAME" /\ Good(conv, named) /\ Sound(conv, named) /\ named \in BOOLEAN
  BY DEF AskName, Handles, Inv, Good
<1>2. ~named /\ conv.moving = 0
  BY <1>1 DEF Good, FormPromise
<1>3. Sound(c, TRUE) /\ c.moving = 0 /\ c.state = "ASK_NAME"
  BY <1>1, <1>2, ListenSound
<1>4. \/ Continue(got) /\ named' = TRUE /\ UNCHANGED proof
      \/ /\ "name" \notin c.slots /\ ~GivesUpOnName(c) /\ conv' = again
         /\ UNCHANGED <<leads, named, proof>>
  BY DEF AskName
<1> HIDE DEF c
<1>5. CASE Continue(got) /\ named' = TRUE /\ UNCHANGED proof
  <2>1. Sound(got, TRUE) /\ "name" \in got.slots /\ got.moving = 0
    <3> DEFINE t == [c.tries EXCEPT !["name"] = 0]
    <3>1. got = [c EXCEPT !.slots = c.slots \union {"name"}, !.tries = t]
      BY <1>3 DEF Sound, Shape
    <3>2. t \in [Slot -> 0 .. MAX_ATTEMPTS + 1] /\ t["name"] = 0 /\ 0 <= MAX_ATTEMPTS
      BY <1>3, FlowAssumption DEF Sound, Shape, Slot
    <3> HIDE DEF t, got
    <3>3. /\ got \in Shape /\ got.moving = c.moving /\ got.flags = c.flags /\ got.prompted = c.prompted
          /\ got.heard = c.heard /\ got.phone = c.phone /\ got.time = c.time
          /\ got.tries = t /\ got.slots = c.slots \union {"name"}
      BY <1>3, <3>1, <3>2 DEF Sound, Shape, Slot
    <3> QED
      BY <1>3, <3>2, <3>3 DEF Sound
  <2> HIDE DEF got
  <2>2. Inv' /\ ((conv'.state \in Capture /\ leads' = leads) \/ (conv' = Fresh /\ Len(leads') > Len(leads)))
    BY <1>5, <2>1, ContinueInv
  <2> QED
    BY <1>2, <2>2 DEF FormStep
<1>6. CASE "name" \notin c.slots /\ ~GivesUpOnName(c) /\ conv' = again /\ UNCHANGED <<leads, named, proof>>
  <2>1. c.tries["name"] \in 0 .. MAX_ATTEMPTS /\ c.tries["name"] # MAX_ATTEMPTS
    BY <1>3, <1>6, FlowAssumption DEF GivesUpOnName, Sound, Shape, Slot
  <2>2. /\ again \in Shape /\ again.state = "ASK_NAME" /\ again.moving = 0 /\ again.slots = c.slots
        /\ again.flags = c.flags /\ again.prompted = c.prompted /\ again.tries["name"] = c.tries["name"] + 1
        /\ again.heard = c.heard /\ again.phone = c.phone /\ again.time = c.time
    BY <1>3, <2>1, FlowAssumption, SMTT(30) DEF Sound, Shape, Slot
  <2>3. Sound(again, named)
    BY <1>3, <1>6, <2>1, <2>2, FlowAssumption DEF Sound
  <2>4. Good(again, named)
    BY <1>2, <1>6, <2>2, <2>3 DEF Good, FormPromise, BranchPromise
  <2> HIDE DEF again
  <2> QED
    BY <1>2, <1>6, <2>2, <2>4, StayInv DEF FormStep, Capture
<1> QED
  BY <1>4, <1>5, <1>6

LEMMA AskDetailInv ==
  ASSUME Inv, NEW m \in Message,
         NEW state, NEW slot,
         \/ state = "ASK_EMAIL" /\ slot = "email"
         \/ state = "ASK_ENROLLED_COURSE" /\ slot = "course",
         AskDetail(state, slot, m)
  PROVE  Inv' /\ FormStep
<1> DEFINE c == Listen(conv, m)
           had == [c EXCEPT !.tries[slot] = 0]
           missed == [c EXCEPT !.tries[slot] = Least(@ + 1, MAX_ATTEMPTS + 1)]
           told == At(WithKnownName(missed), "SUPPORT_QUERY")
<1>1. conv.state = state /\ Good(conv, named) /\ Sound(conv, named) /\ named \in BOOLEAN
  BY DEF AskDetail, Handles, Inv, Good
<1>2. named /\ conv.moving = 0 /\ conv.type = "POST" /\ slot \in Slot \ {"name"}
  BY <1>1 DEF Good, FormPromise, Capture, Slot
<1>3. Sound(c, TRUE) /\ c.moving = 0 /\ c.type = "POST"
  BY <1>1, <1>2, ListenSound
<1>4. \/ Continue(had) \/ Continue(missed)
      \/ conv' = told /\ UNCHANGED leads
  BY DEF AskDetail
<1>5. UNCHANGED <<named, proof>>
  BY DEF AskDetail
<1> HIDE DEF c
<1>6. ASSUME NEW d, Sound(d, TRUE), d.moving = 0, Continue(d) PROVE Inv' /\ FormStep
  <2>1. Inv' /\ ((conv'.state \in Capture /\ leads' = leads) \/ (conv' = Fresh /\ Len(leads') > Len(leads)))
    BY <1>2, <1>5, <1>6, ContinueInv
  <2> QED
    BY <1>2, <2>1 DEF FormStep
<1>7. c.tries[slot] \in 0 .. (MAX_ATTEMPTS + 1) /\ c.tries \in [Slot -> 0 .. (MAX_ATTEMPTS + 1)] /\ c.tries["name"] <= MAX_ATTEMPTS
  BY <1>2, <1>3 DEF Sound, Shape
<1>8. ASSUME NEW n \in 0 .. (MAX_ATTEMPTS + 1)
      PROVE  /\ Sound([c EXCEPT !.tries[slot] = n], TRUE)
             /\ [c EXCEPT !.tries[slot] = n].moving = 0 /\ [c EXCEPT !.tries[slot] = n].type = "POST"
  <2>1. [c.tries EXCEPT ![slot] = n] \in [Slot -> 0 .. (MAX_ATTEMPTS + 1)] /\ [c.tries EXCEPT ![slot] = n]["name"] = c.tries["name"]
    BY <1>2, <1>7 DEF Slot
  <2> DEFINE t == [c.tries EXCEPT ![slot] = n]
  <2>2. [c EXCEPT !.tries[slot] = n] = [c EXCEPT !.tries = t]
    OBVIOUS
  <2> HIDE DEF t
  <2> QED
    BY <1>3, <2>1, <2>2 DEF Sound, Shape, t
<1>9. 0 \in 0 .. (MAX_ATTEMPTS + 1) /\ Least(c.tries[slot] + 1, MAX_ATTEMPTS + 1) \in 0 .. (MAX_ATTEMPTS + 1)
  BY <1>7, FlowAssumption DEF Least
<1>10. missed = [c EXCEPT !.tries[slot] = Least(c.tries[slot] + 1, MAX_ATTEMPTS + 1)]
  BY <1>2, <1>3 DEF Sound, Shape
<1>11. Sound(had, TRUE) /\ had.moving = 0
  BY <1>8, <1>9
<1>12. Sound(missed, TRUE) /\ missed.moving = 0 /\ missed.type = "POST"
  BY <1>8, <1>9, <1>10
<1> HIDE DEF had, missed
<1>13. CASE conv' = told /\ UNCHANGED leads
  <2> DEFINE d == WithKnownName(missed)
  <2>1. Sound(d, named) /\ d.type = "POST"
    <3>1. Sound(missed, named)
      BY <1>1, <1>2, <1>12
    <3>2. d.type = missed.type
      BY <1>12 DEF WithKnownName, Sound, Shape
    <3> QED
      BY <1>1, <1>12, <3>1, <3>2, KnownName
  <2> HIDE DEF d
  <2>2. /\ Sound(At(d, "SUPPORT_QUERY"), named) /\ At(d, "SUPPORT_QUERY").state = "SUPPORT_QUERY"
        /\ At(d, "SUPPORT_QUERY").type = "POST"
    BY <1>1, <2>1, AtSound DEF State
  <2>3. told = At(d, "SUPPORT_QUERY")
    BY DEF d
  <2> HIDE DEF told
  <2>4. Good(told, named) /\ told.state = "SUPPORT_QUERY"
    BY <2>2, <2>3 DEF Good, FormPromise, BranchPromise, Capture
  <2> QED
    BY <1>1, <1>5, <1>13, <2>4, StayInv DEF FormStep
<1> QED
  BY <1>4, <1>6, <1>11, <1>12, <1>13

\* A message that may hold the time.
LEMMA TakeTimeInv ==
  ASSUME Inv, NEW m \in Message, NEW c, Sound(c, named), named, c.state = "ASK_CALLBACK_TIME",
         "time" \notin c.heard, TakeTime(c, m), UNCHANGED proof
  PROVE  Inv' /\ conv'.state \in Capture /\ leads' = leads
<1> DEFINE d == IF "intro" \in m.gives
                THEN [c EXCEPT !.slots = @ \union {"name"}, !.heard = @ \union {"name"}] ELSE c
           g == [d EXCEPT !.time = "ahead", !.heard = @ \union {"time"}]
           f == Listen(g, m)
           e == NextQuestion(f)
<1>1. named \in BOOLEAN
  BY DEF Inv
<1>2. /\ named' = (named \/ "intro" \in m.gives) /\ UNCHANGED leads
      /\ conv' = IF "time" \notin m.gives THEN d
                 ELSE IF Asks(e) # "complete" THEN AskNext(e)
                 ELSE At(e, "ASK_REMARKS")
  BY DEF TakeTime
<1>3. named' = named
  BY <1>1, <1>2
<1>4. Sound(d, named) /\ d.state = "ASK_CALLBACK_TIME" /\ "time" \notin d.heard
  <2>1. CASE "intro" \in m.gives
    <3> DEFINE h == [c EXCEPT !.slots = @ \union {"name"}, !.heard = @ \union {"name"}]
    <3>1. h \in Shape /\ h.slots = c.slots \union {"name"} /\ h.heard = c.heard \union {"name"}
      BY DEF Sound, Shape, Slot, Told
    <3>2. /\ h.state = c.state /\ h.moving = c.moving /\ h.prompted = c.prompted /\ h.flags = c.flags
          /\ h.phone = c.phone /\ h.time = c.time /\ h.tries = c.tries
      BY DEF Sound, Shape
    <3>3. d = h
      BY <2>1
    <3> HIDE DEF h, d
    <3> QED
      BY <3>1, <3>2, <3>3 DEF Sound
  <2>2. CASE "intro" \notin m.gives
    BY <2>2
  <2> QED
    BY <2>1, <2>2
<1> HIDE DEF d
<1>5. Sound(g, named) /\ g.time = "ahead"
  <2>1. g \in Shape /\ g.time = "ahead" /\ g.heard = d.heard \union {"time"}
    BY <1>4 DEF Sound, Shape, Told
  <2>2. /\ g.slots = d.slots /\ g.moving = d.moving /\ g.prompted = d.prompted /\ g.flags = d.flags
        /\ g.phone = d.phone /\ g.tries = d.tries
    BY <1>4 DEF Sound, Shape
  <2>3. "time" \notin Slot
    BY DEF Slot
  <2> HIDE DEF g
  <2> QED
    BY <1>4, <2>1, <2>2, <2>3 DEF Sound
<1> HIDE DEF g
<1>6. Sound(f, named) /\ f.time = "ahead"
  BY <1>1, <1>5, ListenSound
<1> HIDE DEF f
<1>7. Sound(e, named) /\ e.time = "ahead" /\ (e.moving = 0 => "name" \in e.slots)
  BY <1>1, <1>6, NextQuestionSound
<1> HIDE DEF e
<1>8. Good(d, named) /\ d.state \in Capture
  BY <1>4 DEF Good, FormPromise, BranchPromise, Capture
<1>9. Asks(e) # "complete" => Good(AskNext(e), named) /\ AskNext(e).state \in Capture
  BY <1>1, <1>7, AsksWhat, AskNextGood
<1>10. Asks(e) = "complete" => Good(At(e, "ASK_REMARKS"), named) /\ At(e, "ASK_REMARKS").state \in Capture
  <2> SUFFICES ASSUME Asks(e) = "complete" PROVE Good(At(e, "ASK_REMARKS"), named) /\ At(e, "ASK_REMARKS").state \in Capture
    OBVIOUS
  <2>1. e.moving = 0 => Required(e.type) \subseteq e.slots
    BY <1>1, <1>7, AsksWhat
  <2>2. /\ Sound(At(e, "ASK_REMARKS"), named) /\ At(e, "ASK_REMARKS").state = "ASK_REMARKS"
        /\ At(e, "ASK_REMARKS").time = "ahead" /\ At(e, "ASK_REMARKS").moving = e.moving
        /\ At(e, "ASK_REMARKS").type = e.type /\ At(e, "ASK_REMARKS").slots = e.slots
    <3>1. "ASK_REMARKS" \in State
      BY DEF State, Capture
    <3> QED
      BY <1>1, <1>7, <3>1, AtSound, ZenonT(40)
  <2> QED
    BY <2>1, <2>2 DEF Good, FormPromise, BranchPromise, Capture
<1>11. Good(conv', named) /\ conv'.state \in Capture
  BY <1>2, <1>8, <1>9, <1>10
<1> QED
  BY <1>2, <1>3, <1>11, StayInv

\* The rest of the form.
LEMMA AskTimeInv == ASSUME Inv, NEW m \in Message, AskCallbackTime(m) PROVE Inv' /\ FormStep
<1>1. /\ Sound(conv, named) /\ named /\ conv.state = "ASK_CALLBACK_TIME" /\ "time" \notin conv.heard
      /\ TakeTime(conv, m) /\ UNCHANGED proof
  BY DEF AskCallbackTime, Handles, Inv, Good, FormPromise, Capture
<1> QED
  BY <1>1, TakeTimeInv DEF FormStep

LEMMA AskPhoneInv == ASSUME Inv, NEW m \in Message, AskPhone(m) PROVE Inv' /\ FormStep
<1> DEFINE c == Listen(conv, m)
           own == [c EXCEPT !.phone = "own"]
<1>1. /\ Sound(conv, named) /\ named \in BOOLEAN /\ named
      /\ conv.state = "ASK_PHONE" /\ conv.moving = 0 /\ UNCHANGED proof
  BY DEF AskPhone, Handles, Inv, Good, FormPromise, Capture
<1>2. Sound(c, named) /\ c.moving = 0
  BY <1>1, ListenSound
<1>3. \/ (\/ Continue([conv EXCEPT !.phone = "own"]) \/ Continue(conv) \/ Continue(c) \/ Continue(own)) /\ UNCHANGED named
      \/ c.time = "none" /\ TakeTime(At(own, "ASK_CALLBACK_TIME"), m)
  BY DEF AskPhone
<1> HIDE DEF c
<1>4. Sound(own, named) /\ own.moving = 0 /\ own.time = c.time
  BY <1>2 DEF Sound, Shape
<1>5. Sound([conv EXCEPT !.phone = "own"], named) /\ [conv EXCEPT !.phone = "own"].moving = 0
  BY <1>1 DEF Sound, Shape
<1> HIDE DEF own
<1>6. ASSUME NEW d, Sound(d, named), d.moving = 0, Continue(d), UNCHANGED named PROVE Inv' /\ FormStep
  <2>1. Inv' /\ ((conv'.state \in Capture /\ leads' = leads) \/ (conv' = Fresh /\ Len(leads') > Len(leads)))
    BY <1>1, <1>6, ContinueInv
  <2> QED
    BY <1>1, <2>1 DEF FormStep
<1>7. CASE c.time = "none" /\ TakeTime(At(own, "ASK_CALLBACK_TIME"), m)
  <2>1. /\ Sound(At(own, "ASK_CALLBACK_TIME"), named) /\ At(own, "ASK_CALLBACK_TIME").state = "ASK_CALLBACK_TIME"
        /\ At(own, "ASK_CALLBACK_TIME").time = "none"
    <3>1. "ASK_CALLBACK_TIME" \in State
      BY DEF State, Capture
    <3> QED
      BY <1>1, <1>4, <1>7, <3>1, AtSound
  <2>2. "time" \notin At(own, "ASK_CALLBACK_TIME").heard
    BY <2>1 DEF Sound
  <2> QED
    BY <1>1, <1>7, <2>1, <2>2, TakeTimeInv DEF FormStep
<1> QED
  BY <1>1, <1>2, <1>3, <1>4, <1>5, <1>6, <1>7

LEMMA AskRemarksInv == ASSUME Inv, NEW m \in Message, AskRemarks(m) PROVE Inv' /\ FormStep
<1>1. /\ Sound(conv, named) /\ named \in BOOLEAN /\ LeadsOK /\ CreateLead(conv) /\ UNCHANGED <<named, proof>>
      /\ conv.time = "ahead" /\ (conv.moving = 0 => Required(conv.type) \subseteq conv.slots)
  BY DEF AskRemarks, Handles, Inv, Good, FormPromise
<1>2. /\ LeadsOK' /\ conv' = Fresh
      /\ conv.moving # 0 => Len(leads') = Len(leads) /\ leads'[conv.moving].at = conv.time
      /\ conv.moving = 0 => Len(leads') > Len(leads)
  BY <1>1, CreateLeadOK
<1>3. Good(conv, named)'
  <2>1. leads' \in Seq(Lead) /\ leads \in Seq(Lead)
    BY <1>1, <1>2 DEF LeadsOK
  <2>2. Len(leads') \in Nat
    BY <2>1, LenProperties
  <2>3. Good(Fresh, named) /\ Fresh.moving = 0
    BY <1>1, <2>1, FreshGood DEF Fresh
  <2> QED
    BY <1>1, <1>2, <2>2, <2>3 DEF Good, Sound
<1> QED
  BY <1>1, <1>2, <1>3 DEF Inv, FormStep

\* A conversation nobody has changed stays good, whatever becomes of the calls.
LEMMA SameConversation ==
  ASSUME Inv, UNCHANGED conv, UNCHANGED named, Len(leads') = Len(leads)
  PROVE  Good(conv, named)'
  BY DEF Inv, Good, Sound

LEMMA ImageInv == ASSUME Inv, Image PROVE Inv'
  BY SameConversation DEF Image, Inv, LeadsOK, BookingsComplete

\* The time of a call that comes.
LEMMA CallPassesInv == ASSUME Inv, CallPasses PROVE Inv' /\ Len(leads') = Len(leads) /\ UNCHANGED <<conv, named>>
<1>1. leads \in Seq(Lead) /\ DOMAIN leads = 1 .. Len(leads) /\ UNCHANGED <<conv, named, proof>>
  BY LenProperties DEF Inv, LeadsOK, CallPasses
<1>2. PICK i \in Upcoming : leads' = [leads EXCEPT ![i].at = "past"]
  BY DEF CallPasses
<1> DEFINE new == [leads[i] EXCEPT !.at = "past"]
<1>3. i \in 1 .. Len(leads) /\ leads[i] \in Lead
  BY <1>1, <1>2, ElementOfSeq DEF Upcoming
<1>4. new \in Lead /\ new.at = "past" /\ new.type = leads[i].type /\ new.has = leads[i].has
  BY <1>3 DEF Lead
<1>5. leads' = [leads EXCEPT ![i] = new]
  BY <1>2
<1> HIDE DEF new
<1>6. /\ leads' \in Seq(Lead) /\ Len(leads') = Len(leads)
      /\ \A j \in 1 .. Len(leads) : leads'[j] = IF j = i THEN new ELSE leads[j]
  BY <1>1, <1>3, <1>4, <1>5, ExceptSeq
<1>7. DOMAIN leads' = 1 .. Len(leads)
  BY <1>6, LenProperties
<1>8. BookingsComplete'
  BY <1>1, <1>3, <1>4, <1>6, <1>7 DEF Inv, LeadsOK, BookingsComplete
<1>9. LeadsOK'
  <2>1. leads # <<>>
    BY <1>1, <1>3, EmptySeq
  <2> QED
    BY <1>1, <1>6, <1>8, <2>1 DEF Inv, LeadsOK
<1> QED
  BY <1>1, <1>6, <1>9, SameConversation DEF Inv

(***************************************************************************)
(* The invariant, and what follows from it.                                *)
(***************************************************************************)
LEMMA InitInv == Init => Inv
<1> SUFFICES ASSUME Init PROVE Inv
  OBVIOUS
<1>1. leads \in Seq(Lead) /\ Len(leads) = 0 /\ DOMAIN leads = {}
  BY EmptySeq DEF Init
<1>2. LeadsOK
  BY <1>1, FlowAssumption DEF LeadsOK, BookingsComplete, Init
<1>3. Good(conv, named)
  BY <1>1, FreshGood DEF Init
<1> QED
  BY <1>2, <1>3 DEF Inv, Init

\* A message in the form.
FormHandler(m) ==
    AskName(m) \/ AskEmail(m) \/ AskEnrolledCourse(m) \/ AskPhone(m) \/ AskCallbackTime(m) \/ AskRemarks(m)

\* What a message outside the form may be.
Menus(m) == Start(m) \/ MainMenu(m) \/ CourseGroup(m) \/ CourseSelection(m) \/ EnrollmentType(m)
Questions(m) == CourseQna(m) \/ GeneralQna(m) \/ Discovery(m) \/ AskCallback(m)
SupportMessage(m) == PostSales(m) \/ SupportQuery(m) \/ SupportCallback(m) \/ ConfirmReschedule(m)

LEMMA FormInv == ASSUME Inv, NEW m \in Message, FormHandler(m) PROVE Inv' /\ FormStep
<1>1. CASE AskEmail(m)
  BY <1>1, AskDetailInv DEF AskEmail
<1>2. CASE AskEnrolledCourse(m)
  BY <1>2, AskDetailInv DEF AskEnrolledCourse
<1> QED
  BY <1>1, <1>2, AskNameInv, AskPhoneInv, AskTimeInv, AskRemarksInv DEF FormHandler

\* A step is one of these.
LEMMA Steps ==
  ASSUME Next
  PROVE  \/ \E m \in Message : \/ OfferReply(m) \/ Navigate(m) \/ Command(m)
                               \/ Menus(m) \/ Questions(m) \/ SupportMessage(m) \/ FormHandler(m)
         \/ Image \/ CallPasses
  BY DEF Next, Handler, Menus, Questions, SupportMessage, FormHandler

LEMMA NextInv == Inv /\ [Next]_vars => Inv'
<1> SUFFICES ASSUME Inv, [Next]_vars PROVE Inv'
  OBVIOUS
<1>1. ASSUME NEW m \in Message,
             OfferReply(m) \/ Navigate(m) \/ Command(m) \/ Menus(m) \/ Questions(m) \/ SupportMessage(m)
      PROVE  Inv'
  BY <1>1, OfferReplyInv, NavigateInv, CommandInv, MenusInv, QuestionsInv, SupportInv
     DEF Menus, Questions, SupportMessage
<1>2. CASE Next
  BY <1>1, <1>2, Steps, FormInv, ImageInv, CallPassesInv
<1>3. CASE UNCHANGED vars
  BY <1>3, SameConversation DEF vars, Inv, LeadsOK, BookingsComplete
<1> QED
  BY <1>2, <1>3

LEMMA AlwaysInv == Spec => []Inv
  BY InitInv, NextInv, PTL DEF Spec

\* In every state the conversation, the bookings and the contact's name have
\* their shape: a name is asked for no more often than MAX_ATTEMPTS allows, and a
\* reschedule points at a booking there is.
THEOREM TypeCorrect == Spec => []TypeOK
<1>1. Inv => TypeOK
  <2> SUFFICES ASSUME Inv PROVE TypeOK
    OBVIOUS
  <2>1. Len(leads) \in Nat /\ leads \in Seq(Lead)
    BY LenProperties DEF Inv, LeadsOK
  <2>2. conv \in Shape /\ conv.moving \in 0 .. Len(leads)
    BY <2>1 DEF Inv, Good, Sound, Shape
  <2>3. conv \in [state : State, type : {"none", "PRE", "POST"}, course : Course \union {"none"},
                  slots : SUBSET Slot, phone : {"none", "own", "other"},
                  time : {"none", "ahead"}, flags : SUBSET Flag, qna : 0 .. Threshold,
                  resume : Selling \union {"none"}, moving : 0 .. Len(leads),
                  tries : [Slot -> 0 .. MAX_ATTEMPTS + 1], prompted : BOOLEAN, heard : SUBSET Told]
    BY <2>2 DEF Shape
  <2> QED
    BY <2>1, <2>3 DEF Inv, LeadsOK, Good, Sound, TypeOK, Lead
<1> QED
  BY <1>1, AlwaysInv, PTL

\* Every booking ever made has the details its type requires and a time: no way
\* through menus, detours, stray buttons and forms left half-way makes another.
THEOREM BookingsAreComplete == Spec => []BookingsComplete
<1>1. Inv => BookingsComplete
  BY DEF Inv, LeadsOK
<1> QED
  BY <1>1, AlwaysInv, PTL

\* A form never asks a known contact for the name, nor anybody for what a message
\* told it while it was listening for that, in whatever order it was told.
THEOREM FormsAskWhatIsMissing == Spec => []AsksOnlyWhatIsMissing
<1>1. Inv => AsksOnlyWhatIsMissing
  BY DEF Inv, Good, Sound, FormPromise, AsksOnlyWhatIsMissing, Slot
<1> QED
  BY <1>1, AlwaysInv, PTL

\* Whoever is in the support branch is filed as a support case, by whatever way
\* they came in.
THEOREM SupportIsFiled == Spec => []SupportIsSupport
<1>1. Inv => SupportIsSupport
  BY DEF Inv, Good, BranchPromise, SupportIsSupport
<1> QED
  BY <1>1, AlwaysInv, PTL

\* A question about a course has a course in scope, also after the offer of a
\* call was passed over.
THEOREM CourseStaysInScope == Spec => []CourseInScope
<1>1. Inv => CourseInScope
  BY DEF Inv, Good, BranchPromise, CourseInScope
<1> QED
  BY <1>1, AlwaysInv, PTL

(***************************************************************************)
(* What a step may not do.                                                 *)
(***************************************************************************)
\* Outside the form no message makes or moves a booking.
LEMMA OthersKeepBookings ==
  ASSUME NEW m \in Message,
         OfferReply(m) \/ Navigate(m) \/ Command(m) \/ Menus(m) \/ Questions(m) \/ SupportMessage(m)
  PROVE  UNCHANGED leads
<1>1. OfferReply(m) \/ Navigate(m) \/ Command(m) => UNCHANGED leads
  BY DEF OfferReply, Navigate, Command, MenuCommand, CatalogueCommand, RescheduleCommand, HumanCommand, Converse
<1>2. Menus(m) => UNCHANGED leads
  BY DEF Menus, Start, MainMenu, CourseGroup, CourseSelection, EnrollmentType, Converse
<1>3. Questions(m) => UNCHANGED leads
  BY DEF Questions, CourseQna, GeneralQna, Discovery, AskCallback, Converse
<1>4. SupportMessage(m) => UNCHANGED leads
  BY DEF SupportMessage, PostSales, SupportQuery, SupportCallback, ConfirmReschedule, Converse
<1> QED
  BY <1>1, <1>2, <1>3, <1>4

\* Moving a call never makes a second one, whatever is tapped or said between
\* the wish to move it and the new time.
THEOREM MovesAddNothing == Spec => MoveNeverDuplicates
<1>1. Inv /\ [Next]_vars => [conv.moving # 0 => Len(leads') = Len(leads)]_vars
  <2> SUFFICES ASSUME Inv, Next, conv.moving # 0 PROVE Len(leads') = Len(leads)
    BY DEF vars
  <2>1. CASE \E m \in Message : FormHandler(m)
    BY <2>1, FormInv DEF FormStep
  <2>2. CASE Image
    BY <2>2 DEF Image
  <2>3. CASE CallPasses
    BY <2>3, CallPassesInv
  <2> QED
    BY <2>1, <2>2, <2>3, Steps, OthersKeepBookings
<1> QED
  BY <1>1, AlwaysInv, PTL DEF Spec, MoveNeverDuplicates

\* A form that was begun is left only for a booking made or moved, for the
\* explanation of why an email or course is needed, or by the offer's question
\* button, where that is tapped at all.
THEOREM FormsAreKept == Spec => FormKept
<1> DEFINE Kept ==
      \/ conv' = Fresh /\ (Len(leads') > Len(leads) \/ leads'[conv.moving].at = conv.time)
      \/ conv.state \in {"ASK_EMAIL", "ASK_ENROLLED_COURSE"} /\ conv'.state = "SUPPORT_QUERY"
      \/ "offer:question" \in Tapped /\ conv'.state \in {"DISCOVERY", "COURSE_QNA"}
<1>1. Inv /\ [Next]_vars => [InForm /\ ~InForm' => Kept]_vars
  <2> SUFFICES ASSUME Inv, Next, InForm, ~InForm' PROVE Kept
    BY DEF vars
  <2>1. conv.state \in Capture /\ conv'.state \notin Capture /\ conv \in Shape
    BY DEF InForm, Inv, Good, Sound
  <2>2. ASSUME NEW m \in Message, OfferReply(m) PROVE Kept
    <3>1. m.tap = "offer:question" => "offer:question" \in Tapped
      BY <2>2, FlowAssumption DEF Message, TextMessage
    <3>2. CASE m.tap = "offer:question"
      BY <2>1, <2>2, <3>1, <3>2 DEF OfferReply, Converse, At, Shape
    <3>3. CASE m.tap # "offer:question"
      BY <2>1, <2>2, <3>3 DEF OfferReply, Converse, Flagged, Shape
    <3> QED
      BY <3>2, <3>3
  <2>3. ASSUME NEW m \in Message PROVE ~Navigate(m) /\ ~Command(m)
    BY DEF Navigate, IsNavigation, Command, MenuCommand, CatalogueCommand, RescheduleCommand, HumanCommand,
           IsCommand, Asked
  <2>4. ASSUME NEW m \in Message PROVE ~Menus(m) /\ ~Questions(m) /\ ~SupportMessage(m)
    <3>1. ~Menus(m)
      BY <2>1 DEF Menus, Start, MainMenu, CourseGroup, CourseSelection, EnrollmentType, Handles, Capture
    <3>2. ~Questions(m)
      BY <2>1 DEF Questions, CourseQna, GeneralQna, Discovery, AskCallback, Handles, Capture
    <3>3. ~SupportMessage(m)
      BY <2>1 DEF SupportMessage, PostSales, SupportQuery, SupportCallback, ConfirmReschedule, Handles, Capture
    <3> QED
      BY <3>1, <3>2, <3>3
  <2>5. ASSUME NEW m \in Message, FormHandler(m) PROVE Kept
    BY <2>1, <2>5, FormInv DEF FormStep
  <2>6. ~Image /\ ~CallPasses
    BY <2>1 DEF Image, CallPasses
  <2> QED
    BY <2>2, <2>3, <2>4, <2>5, <2>6, Steps
<1> QED
  BY <1>1, AlwaysInv, PTL DEF Spec, FormKept

\* Where the branches lead.
LEMMA BranchStates ==
  ASSUME NEW c \in Shape
  PROVE  /\ StartDiscovery(c).state = "DISCOVERY"
         /\ \A x \in Course : SelectCourse(c, x).state = "COURSE_QNA"
         /\ AnswerAtMenu(c).state = "GENERAL_QNA"
         /\ Support(c).state = "POST_SALES"
         /\ ResetFlow(c) \in Shape
         /\ \A s \in State : At(c, s).state = s /\ At(c, s) \in Shape
         /\ \A s \in State : PreUnlessSet(At(c, s)).state = s
         /\ \A x \in Course : On(c, x).state = c.state
<1>1. StartDiscovery(c).state = "DISCOVERY" /\ Support(c).state = "POST_SALES"
  BY DEF StartDiscovery, Support, On, Typed, At, Shape
<1>2. \A x \in Course : SelectCourse(c, x).state = "COURSE_QNA" /\ On(c, x).state = c.state
  BY DEF SelectCourse, On, Typed, At, Shape
<1>3. AnswerAtMenu(c).state = "GENERAL_QNA"
  BY DEF AnswerAtMenu, Bump, PreUnlessSet, At, Shape
<1>4. \A s \in State : At(c, s).state = s /\ At(c, s) \in Shape
  BY DEF At, Shape
<1>5. \A s \in State : PreUnlessSet(At(c, s)).state = s
  BY DEF PreUnlessSet, At, Shape
<1>6. ResetFlow(c) \in Shape
  <2>1. 0 \in 0 .. Threshold
    BY FlowAssumption
  <2> QED
    BY <2>1 DEF ResetFlow, Shape, Flag
<1> QED
  BY <1>1, <1>2, <1>3, <1>4, <1>5, <1>6

\* Only an answer to a sales question offers a call, and only where no prompt was
\* sent yet.
LEMMA PromptsOnce ==
  ASSUME NEW c \in Shape, c.state \in Selling, c.prompted => "nudged" \in c.flags, NEW m, NEW calls,
         AnswerAndPrompt(c, m, calls).state = "ASK_CALLBACK"
  PROVE  ~c.prompted
<1>1. Bump(c).state = c.state /\ Bump(c).flags = c.flags /\ DOMAIN Bump(c) = DOMAIN c
  BY DEF Bump, Shape
<1>2. Offer(Bump(c)).state = c.state
  BY <1>1 DEF Offer, Flagged, Prompted, Shape
<1>3. ShouldNudge(Bump(c))
  BY <1>1, <1>2 DEF AnswerAndPrompt, Selling
<1> QED
  BY <1>1, <1>3 DEF ShouldNudge

LEMMA OthersDoNotOffer ==
  ASSUME Inv, NEW m \in Message,
         OfferReply(m) \/ Navigate(m) \/ Command(m) \/ Menus(m) \/ SupportMessage(m)
  PROVE  conv'.state = conv.state \/ conv'.state # "ASK_CALLBACK"
<1> DEFINE Quiet(c) == c.state = conv.state \/ c.state # "ASK_CALLBACK"
<1>1. Sound(conv, named) /\ conv \in Shape /\ named \in BOOLEAN /\ m.about \in Course \union {"none"}
  BY AboutType DEF Inv, Good, Sound
<1>2. \A t \in {"PRE", "POST"} : \A c : Sound(c, named) => Quiet(StartCapture(c, t))
  BY <1>1, StartCaptureGood DEF Capture
<1>3. TypeOrPre(conv) \in {"PRE", "POST"}
  BY <1>1, PreSound
<1>4. Quiet(StartCapture(conv, TypeOrPre(conv)))
  BY <1>1, <1>2, <1>3
<1>5. \A c \in Shape : /\ Quiet(StartDiscovery(c)) /\ Quiet(Support(c)) /\ Quiet(AnswerAtMenu(c))
                       /\ \A x \in Course : Quiet(SelectCourse(c, x))
  BY BranchStates
<1>6. \A c \in Shape, s \in State \ {"ASK_CALLBACK"} : Quiet(At(c, s)) /\ Quiet(PreUnlessSet(At(c, s)))
  <2> SUFFICES ASSUME NEW c \in Shape, NEW s \in State \ {"ASK_CALLBACK"}
               PROVE  Quiet(At(c, s)) /\ Quiet(PreUnlessSet(At(c, s)))
    OBVIOUS
  <2>1. At(c, s).state = s /\ PreUnlessSet(At(c, s)).state = s
    BY BranchStates
  <2> QED
    BY <2>1
<1>7. ResetFlow(conv) \in Shape
  BY <1>1, BranchStates
<1>8. /\ {"DISCOVERY", "COURSE_QNA", "COURSE_GROUP", "COURSE_SELECTION", "ENROLLMENT_TYPE", "MAIN_MENU", "END",
          "CONFIRM_RESCHEDULE", "ASK_CALLBACK_TIME", "SUPPORT_QUERY", "SUPPORT_CALLBACK"}
         \subseteq State \ {"ASK_CALLBACK"}
  BY DEF State, Selling, Capture
<1>9. \A c \in Shape, s \in State \ {"ASK_CALLBACK"} : \A t \in {"PRE", "POST"} : Quiet(Typed(At(c, s), t))
  BY DEF Typed, At, Shape
<1>10. \A i \in Upcoming : Quiet(AskForTheNewTime(conv, i))
  BY <1>1 DEF AskForTheNewTime, TimeAnew, Shape
<1> HIDE DEF Quiet
<1>11. CASE OfferReply(m)
  <2>1. Quiet(Flagged(conv, "paylink")) /\ Quiet(conv)
    BY <1>1 DEF Quiet, Flagged, Shape
  <2>2. Quiet(conv')
    BY <1>1, <1>6, <1>8, <1>11, <2>1 DEF OfferReply, Converse
  <2> QED
    BY <2>2 DEF Quiet
<1>12. CASE Navigate(m)
  <2>1. m.tap = "course:row" => Quiet(PreUnlessSet(On(At(conv, "COURSE_QNA"), m.about)))
    BY <1>1 DEF Quiet, PreUnlessSet, On, At, Shape
  <2>2. Quiet(conv')
    BY <1>1, <1>4, <1>5, <1>6, <1>7, <1>8, <1>12, <2>1 DEF Navigate, Converse
  <2> QED
    BY <2>2 DEF Quiet
<1>13. CASE Command(m)
  <2>1. Quiet(conv')
    BY <1>1, <1>4, <1>6, <1>7, <1>8, <1>10, <1>13
       DEF Command, MenuCommand, CatalogueCommand, RescheduleCommand, HumanCommand, Converse
  <2> QED
    BY <2>1 DEF Quiet
<1>14. ASSUME NEW c, Sound(c, named) PROVE Quiet(MainMenuReply(c, m))
  <2>1. c \in Shape
    BY <1>14 DEF Sound
  <2> QED
    BY <1>1, <1>2, <1>5, <1>8, <1>9, <1>14, <2>1 DEF MainMenuReply
<1>15. CASE Menus(m)
  <2>1. Sound(At(conv, "MAIN_MENU"), named) /\ Quiet(conv)
    BY <1>1, AtSound DEF State, Quiet
  <2> DEFINE course == [conv EXCEPT !.slots = @ \union {"course"}]
  <2>2. course \in Shape
    BY <1>1 DEF Shape, Slot
  <2>3. Quiet(conv')
    BY <1>1, <1>5, <1>6, <1>8, <1>9, <1>14, <1>15, <2>1, <2>2
       DEF Menus, Start, MainMenu, CourseGroup, CourseSelection, EnrollmentType, Converse
  <2> QED
    BY <2>3 DEF Quiet
<1>16. CASE SupportMessage(m)
  <2> DEFINE post == Typed(conv, "POST")
             query(c) == At(c, "SUPPORT_QUERY")
  <2>1. Sound(post, named) /\ post.state = conv.state
    BY <1>1, TypedSound
  <2>2. Quiet(conv) /\ Quiet(post)
    BY <2>1 DEF Quiet
  <2>3. ASSUME NEW c, Sound(c, named) PROVE Quiet(SupportReply(c, m)) /\ Sound(query(c), named) /\ Quiet(query(c))
    <3>1. Sound(Bump(c), named) /\ Sound(query(c), named)
      BY <1>1, <2>3, BumpSound, AtSound DEF State
    <3>2. c \in Shape /\ Bump(c) \in Shape
      BY <2>3, <3>1 DEF Sound
    <3> QED
      BY <1>2, <1>6, <1>8, <2>3, <3>1, <3>2 DEF SupportReply
  <2>4. Quiet([TimeAnew(At(conv, "ASK_CALLBACK_TIME")) EXCEPT !.moving = 0])
    BY <1>1 DEF Quiet, TimeAnew, At, Shape
  <2> HIDE DEF post
  <2>5. PostSales(m) => Quiet(conv')
    BY <2>1, <2>2, <2>3 DEF PostSales, Converse, post
  <2>6. SupportQuery(m) \/ SupportCallback(m) => Quiet(conv')
    BY <1>1, <1>2, <2>2, <2>3 DEF SupportQuery, SupportCallback, Converse
  <2>7. ConfirmReschedule(m) => Quiet(conv')
    BY <1>10, <2>2, <2>4 DEF ConfirmReschedule, Converse
  <2> QED
    BY <1>16, <2>5, <2>6, <2>7 DEF SupportMessage, Quiet
<1> QED
  BY <1>11, <1>12, <1>13, <1>15, <1>16

\* Between a visit to the menu and the next, a call is offered only before the
\* first prompt: neither the discount nor an earlier offer of a call went before.
THEOREM PromptedOnce == Spec => NoSecondPrompt
<1>1. Inv /\ [Next]_vars => [conv'.state = "ASK_CALLBACK" /\ conv.state # "ASK_CALLBACK" => ~conv.prompted]_vars
  <2> SUFFICES ASSUME Inv, Next, conv'.state = "ASK_CALLBACK", conv.state # "ASK_CALLBACK"
               PROVE  ~conv.prompted
    BY DEF vars
  <2>1. Sound(conv, named) /\ conv \in Shape /\ (conv.prompted => "nudged" \in conv.flags)
    BY DEF Inv, Good, Sound
  <2>2. ASSUME NEW m \in Message, Questions(m) PROVE ~conv.prompted
    <3>1. m.about \in Course \union {"none"}
      BY AboutType
    <3>2. ASSUME NEW c \in Shape, c.state \in Selling, c.flags = conv.flags, c.prompted = conv.prompted,
                 NEW calls, conv' = AnswerAndPrompt(c, m, calls)
          PROVE  ~conv.prompted
      BY <2>1, <3>2, PromptsOnce
    <3>3. \A x \in Course : /\ On(conv, x) \in Shape /\ On(conv, x).flags = conv.flags
                            /\ On(conv, x).prompted = conv.prompted /\ On(conv, x).state = conv.state
      BY <2>1 DEF On, Shape
    <3>4. \A x \in Course : LET d == On(At(conv, "COURSE_QNA"), x)
                            IN  d \in Shape /\ d.flags = conv.flags /\ d.prompted = conv.prompted /\ d.state = "COURSE_QNA"
      BY <2>1 DEF On, At, Shape, State, Selling
    <3>5. CASE CourseQna(m)
      BY <2>1, <3>1, <3>2, <3>3, <3>5 DEF CourseQna, Handles, Converse, Selling
    <3>6. CASE GeneralQna(m)
      BY <2>1, <3>1, <3>2, <3>4, <3>6 DEF GeneralQna, Handles, Converse, Selling
    <3>7. CASE Discovery(m)
      <4> DEFINE x == IF m.about # "none" THEN m.about ELSE IF conv.course = "none" THEN "upsell" ELSE conv.course
      <4>1. x \in Course
        BY <2>1, <3>1 DEF Course, Shape
      <4>2. conv.state = "DISCOVERY" /\ conv' = AnswerAndPrompt(On(conv, x), m, {})
        BY <3>7 DEF Discovery, Handles, Converse
      <4> HIDE DEF x
      <4> QED
        BY <3>2, <3>3, <4>1, <4>2 DEF Selling
    <3>8. ~AskCallback(m)
      BY DEF AskCallback, Handles
    <3> QED
      BY <2>2, <3>5, <3>6, <3>7, <3>8 DEF Questions
  <2>3. ASSUME NEW m \in Message PROVE ~FormHandler(m)
    <3>1. Fresh.state # "ASK_CALLBACK" /\ "ASK_CALLBACK" \notin Capture
      BY DEF Fresh, Capture
    <3> QED
      BY <3>1, FormInv DEF FormStep
  <2>4. ~Image /\ ~CallPasses
    BY DEF Image, CallPasses
  <2> QED
    BY <2>2, <2>3, <2>4, Steps, OthersDoNotOffer
<1> QED
  BY <1>1, AlwaysInv, PTL DEF Spec, NoSecondPrompt
=============================================================================
