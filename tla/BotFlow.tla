------------------------------ MODULE BotFlow ------------------------------
(***************************************************************************)
(* The conversation state machine: what one message does to a contact's    *)
(* conversation and bookings.  A message is a tap on a button - any button *)
(* ever sent, in any state, for WhatsApp messages do not expire - or typed *)
(* text, or an image.  The machine tries, in this order, the offer buttons *)
(* and the navigation buttons; the text commands; and the handler of the   *)
(* current state.                                                          *)
(*                                                                         *)
(* Turns of a contact are taken one at a time here (TurnTransaction is     *)
(* about their interleaving).  Words are abstracted to what the intent and *)
(* slot patterns find in them, answers of the model to nothing at all.     *)
(***************************************************************************)
EXTENDS Naturals, Sequences

CONSTANTS
    Texts,       \* typed messages considered, see TextMessage
    Tapped,      \* ids of the buttons that get tapped
    Images,      \* whether images arrive
    OfferLive,   \* offers.json has an enabled offer
    Threshold,   \* settings.qna_nudge_threshold
    MAX_ATTEMPTS, \* times a name, or a required slot, is asked for again
    MaxLeads     \* bound: bookings made

Capture == {"ASK_NAME", "ASK_EMAIL", "ASK_ENROLLED_COURSE", "ASK_PHONE",
            "ASK_CALLBACK_TIME", "ASK_REMARKS"}
Selling == {"DISCOVERY", "COURSE_QNA", "GENERAL_QNA"}
State == Capture \union Selling \union
         {"START", "MAIN_MENU", "COURSE_GROUP", "COURSE_SELECTION", "ENROLLMENT_TYPE",
          "POST_SALES", "SUPPORT_QUERY", "SUPPORT_CALLBACK", "ASK_CALLBACK",
          "CONFIRM_RESCHEDULE", "END"}

Course == {"upsell", "other", "free"}     \* the discounted course, a paid and a free one
OFFER_AFTER_EXCHANGES == 2

(***************************************************************************)
(* Messages.  means: the intents recognised in the text; gives: the details*)
(* that extraction finds in it; about: the course it names.                *)
(***************************************************************************)
Meaning == {"menu", "greeting", "catalogue", "reschedule", "human", "yes", "no",
            "closing", "undecided", "refuses", "buy", "price", "paid", "free",
            "courses", "enrolled", "talk", "group", "topic", "long"}
Detail == {"name", "email", "phone", "time", "intro"}

TextMessage == [tap : {"none"}, means : SUBSET Meaning, gives : SUBSET Detail,
                about : Course \union {"none"}]

ASSUME FlowAssumption ==
    /\ Texts \subseteq TextMessage
    /\ Images \in BOOLEAN /\ OfferLive \in BOOLEAN
    /\ Threshold \in Nat /\ (OfferLive => Threshold >= OFFER_AFTER_EXCHANGES)
    /\ MAX_ATTEMPTS \in Nat /\ MaxLeads \in Nat

\* A tapped button carries its title as text, and a title reads like a name.
Tap(id, meant) == [tap |-> id, means |-> meant, gives |-> {"name"}, about |-> "none"]
CourseTap(c) == [tap |-> "course:row", means |-> {}, gives |-> {"name"}, about |-> c]

OfferTaps == {Tap("offer:question", {}), Tap("offer:pay", {"yes"}), Tap("offer:done", {})}
NavTaps == {Tap("menu:courses", {"no"}), Tap("group", {"group"}), Tap("course:others", {}),
            Tap("course:unsure", {"no", "undecided"}), Tap("menu:enrolled", {}),
            Tap("enrolled:paid", {"paid"}), Tap("enrolled:free", {"free"}),
            Tap("menu:counselor", {"human"})} \union {CourseTap(c) : c \in Course}
AnswerTaps == {Tap("confirm:yes", {"yes"}), Tap("confirm:no", {"no"}),
               Tap("confirm:no", {"human", "yes", "long"}), Tap("support", {"topic"}),
               Tap("phone:confirm", {"yes", "long"}), Tap("phone:other", {}),
               Tap("reschedule:move", {}), Tap("reschedule:new", {})}
Message == Texts \union {m \in OfferTaps \union NavTaps \union AnswerTaps : m.tap \in Tapped}

VARIABLES
    conv,    \* the active conversation: its columns and its context
    named,   \* users.name is known
    leads,   \* the bookings, in the order they were made
    proof    \* users.payment_proof_at

vars == <<conv, named, leads, proof>>

Slot == {"name", "email", "course"}
Told == Slot \union {"phone", "time"}     \* what a form may be told
Flag == {"asked_phone", "nudged", "offered", "paylink"}

\* A conversation nobody has written in yet.  Ghosts: prompted - a prompt was sent
\* since the menu; heard - what messages gave that the form was listening to.
Fresh == [state |-> "START", type |-> "none", course |-> "none", slots |-> {},
          phone |-> "none", time |-> "none", flags |-> {}, qna |-> 0,
          resume |-> "none", moving |-> 0, tries |-> [s \in Slot |-> 0],
          prompted |-> FALSE, heard |-> {}]

Init ==
    /\ conv = Fresh
    /\ named \in BOOLEAN
    /\ leads = <<>>
    /\ proof = FALSE

\* find_upcoming_callback: bookings whose time has not passed.  The earliest is
\* taken; the order of the times is not modelled, so it may be any of them.
Upcoming == {i \in DOMAIN leads : leads[i].at = "ahead"}

At(c, state) == [c EXCEPT !.state = state]
PreUnlessSet(c) == [c EXCEPT !.type = IF @ = "none" THEN "PRE" ELSE @]
Typed(c, type) == [c EXCEPT !.type = type]
On(c, course) == [c EXCEPT !.course = course]
Flagged(c, flag) == [c EXCEPT !.flags = @ \union {flag}]
Least(a, b) == IF a < b THEN a ELSE b
Bump(c) == [c EXCEPT !.qna = Least(@ + 1, Threshold)]

\* _reset_flow: back at the menu the branch's scratch state is cleared.
ResetFlow(c) == [c EXCEPT !.course = "none", !.qna = 0, !.flags = @ \ {"nudged"},
                          !.prompted = FALSE]

(***************************************************************************)
(* Slots: what a form has, what it lacks, what it asks next.               *)
(***************************************************************************)
Required(type) == IF type = "POST" THEN Slot ELSE {"name"}

\* Mutant: the message is not searched on once it was read as a name.
AbsorbNameFirst(c, m) ==
    IF "name" \in m.gives \ c.slots THEN [c EXCEPT !.slots = @ \union {"name"}]
    ELSE [c EXCEPT !.slots = @ \union (m.gives \intersect {"email"})
                              \union (IF m.about # "none" THEN {"course"} ELSE {}),
                   !.phone = IF @ = "none" /\ "phone" \in m.gives THEN "other" ELSE @]

\* absorb_slots: every empty slot the message has something for.
Absorb(c, m) ==
    [c EXCEPT !.slots = @ \union (m.gives \intersect {"name", "email"})
                          \union (IF m.about # "none" THEN {"course"} ELSE {}),
              !.phone = IF @ = "none" /\ "phone" \in m.gives THEN "other" ELSE @]

\* What absorb_slots looks for and m gives, whether or not it is taken.
Hears(m) == (m.gives \intersect {"name", "email", "phone"})
            \union (IF m.about # "none" THEN {"course"} ELSE {})
Listen(c, m) == [Absorb(c, m) EXCEPT !.heard = @ \union Hears(m)]

\* Mutant: a slot is not insisted on.
LacksUntried(c, slot) == slot \in Required(c.type) \ c.slots /\ c.tries[slot] < MAX_ATTEMPTS

\* missing_slots takes the name of a returning contact from the user.
WithKnownName(c) ==
    [c EXCEPT !.slots = IF named THEN @ \union {"name"} ELSE @]

Lacks(c, slot) == slot \in Required(c.type) \ c.slots

\* The state of next_question, or "complete".
Asks(c) ==
    IF c.moving # 0 THEN "complete"
    ELSE IF Lacks(c, "name") THEN "ASK_NAME"
    ELSE IF Lacks(c, "email") THEN "ASK_EMAIL"
    ELSE IF Lacks(c, "course") THEN "ASK_ENROLLED_COURSE"
    ELSE IF c.phone = "none" /\ "asked_phone" \notin c.flags THEN "ASK_PHONE"
    ELSE IF c.time = "none" THEN "ASK_CALLBACK_TIME"
    ELSE "complete"

AskNext(c) ==
    IF Asks(c) = "ASK_PHONE" THEN Flagged(At(c, "ASK_PHONE"), "asked_phone")
    ELSE At(c, Asks(c))

\* A reschedule asks nothing, so the name is not looked up either.
NextQuestion(c) == IF c.moving # 0 THEN c ELSE WithKnownName(c)

\* The time is asked for anew, also of who gave one.
TimeAnew(c) == [c EXCEPT !.heard = @ \ {"time"}]

\* start_callback_capture; with nothing left to ask it asks for the time anew.
StartCapture(c, type) ==
    LET d == WithKnownName(Typed(c, type))
    IN  IF Asks(d) # "complete" THEN AskNext(d)
        ELSE TimeAnew(At(d, IF named THEN "ASK_CALLBACK_TIME" ELSE "ASK_NAME"))

\* _ask_for_the_new_time.
AskForTheNewTime(c, i) ==
    [TimeAnew(c) EXCEPT !.moving = i, !.type = leads[i].type, !.state = "ASK_CALLBACK_TIME"]

\* Of the details the lead is given those that its type requires matter here.
Booking(c) ==
    LET type == IF c.type = "POST" THEN "POST" ELSE "PRE"
    IN  [type |-> type, has |-> c.slots \intersect Required(type), at |-> c.time,
         contact |-> IF c.phone = "none" THEN "own" ELSE c.phone]

\* Mutant: a move adds a booking.
CreateAnother(c) ==
    /\ Len(leads) < MaxLeads
    /\ leads' = Append(leads, Booking(c))
    /\ conv' = Fresh

\* _create_lead: moves the booking a reschedule started from, or makes one;
\* both close the conversation, and the next message opens a fresh one.
CreateLead(c) ==
    /\ IF c.moving # 0 /\ c.time # "none"
       THEN leads' = [leads EXCEPT ![c.moving].at = c.time]
       ELSE /\ Len(leads) < MaxLeads
            /\ leads' = Append(leads, Booking(c))
    /\ conv' = Fresh

Converse(c) ==
    /\ conv' = c
    /\ UNCHANGED <<named, leads, proof>>

\* The tail of every capture handler: ask for what is missing, or book.
Continue(c) ==
    LET d == NextQuestion(c)
    IN  \/ /\ Asks(d) # "complete"
           /\ conv' = AskNext(d)
           /\ UNCHANGED leads
        \/ /\ Asks(d) = "complete"
           /\ CreateLead(d)

(***************************************************************************)
(* Answers and the prompts that may follow them.                           *)
(***************************************************************************)
MayOffer(c, m) ==
    /\ OfferLive /\ "offered" \notin c.flags
    /\ c.type # "POST"
    /\ c.course = "upsell" \/ (c.course = "none" /\ c.state = "DISCOVERY")
    /\ c.state \in Selling
    /\ m.means \intersect {"buy", "price"} # {} \/ c.qna >= OFFER_AFTER_EXCHANGES

Prompted(c) == [c EXCEPT !.flags = @ \union {"nudged"}, !.prompted = TRUE]
OfferUnmarked(c) == [Flagged(c, "offered") EXCEPT !.prompted = TRUE]   \* mutant
Offer(c) == Flagged(Prompted(c), "offered")
OfferCallback(c) == [Prompted(c) EXCEPT !.resume = c.state, !.state = "ASK_CALLBACK"]
ShouldNudge(c) == "nudged" \notin c.flags /\ c.qna >= Threshold

\* answer_with_optional_nudge; discovery does the same without asking whether a
\* call is booked already.
AnswerAndPrompt(c, m, calls) ==
    LET d == Bump(c)
    IN  IF MayOffer(d, m) THEN Offer(d)
        ELSE IF ShouldNudge(d) /\ calls = {} THEN OfferCallback(d)
        ELSE d

StartDiscovery(c) == On(Typed(At(c, "DISCOVERY"), "PRE"), "none")
SelectCourse(c, course) == On(Typed(At(c, "COURSE_QNA"), "PRE"), course)
AnswerAtMenu(c) == Bump(PreUnlessSet(At(c, "GENERAL_QNA")))
TypeOrPre(c) == PreUnlessSet(c).type
SupportUnfiled(c) == PreUnlessSet(At(c, "POST_SALES"))   \* mutant
Support(c) == Typed(At(c, "POST_SALES"), "POST")

(***************************************************************************)
(* Where a message goes.                                                   *)
(***************************************************************************)
InForm == conv.state \in Capture
Says(m, meaning) == meaning \in m.means
IsText(m) == m.tap = "none"
IsNavigation(m) == ~InForm /\ m \in NavTaps
AskedAnywhere(m) == IsText(m)   \* mutant
Asked(m) == IsText(m) /\ ~InForm

IsCommand(m) ==
    /\ Asked(m)
    /\ \/ m.means \intersect {"menu", "greeting", "catalogue", "reschedule"} # {}
       \/ /\ Says(m, "human")
          /\ conv.state \notin {"ASK_CALLBACK", "SUPPORT_CALLBACK", "CONFIRM_RESCHEDULE"}

Handles(state, m) ==
    /\ conv.state = state
    /\ m \notin OfferTaps
    /\ ~IsNavigation(m)
    /\ ~IsCommand(m)

\* handle_offer_reply: in any state, also in the middle of a form.
OfferReply(m) ==
    /\ m \in OfferTaps
    /\ \/ m.tap = "offer:question"
          /\ Converse(At(conv, IF conv.course = "none" THEN "DISCOVERY" ELSE "COURSE_QNA"))
       \/ /\ m.tap = "offer:pay"
          /\ Converse(Flagged(conv, "paylink"))
       \/ m.tap = "offer:done" /\ Converse(conv)

\* _handle_media.
Image ==
    /\ Images
    /\ proof' = (proof \/ "paylink" \in conv.flags)
    /\ UNCHANGED <<conv, named, leads>>

\* _tapped_navigation.
Navigate(m) ==
    /\ IsNavigation(m)
    /\ \/ m.tap = "menu:courses" /\ Converse(PreUnlessSet(At(ResetFlow(conv), "COURSE_GROUP")))
       \/ m.tap = "group" /\ Converse(PreUnlessSet(At(conv, "COURSE_SELECTION")))
       \/ m.tap \in {"course:unsure", "enrolled:free"} /\ Converse(StartDiscovery(conv))
       \/ m.tap = "menu:enrolled" /\ Converse(At(ResetFlow(conv), "ENROLLMENT_TYPE"))
       \/ m.tap = "enrolled:paid" /\ Converse(Support(conv))
       \/ m.tap = "menu:counselor" /\ Converse(StartCapture(conv, TypeOrPre(conv)))
       \/ m.tap = "course:others" /\ Converse(At(conv, "COURSE_SELECTION"))
       \/ m.tap = "course:row" /\ Converse(PreUnlessSet(On(At(conv, "COURSE_QNA"), m.about)))

(***************************************************************************)
(* The text commands, in the order they are tried.                         *)
(***************************************************************************)
MenuCommand(m) ==
    /\ Asked(m) /\ m.means \intersect {"menu", "greeting"} # {}
    /\ Converse(At(ResetFlow(conv), "MAIN_MENU"))

CatalogueCommand(m) ==
    /\ Asked(m) /\ Says(m, "catalogue")
    /\ m.means \intersect {"menu", "greeting"} = {}
    /\ Converse(PreUnlessSet(At(conv, "COURSE_GROUP")))

\* start_reschedule.
RescheduleCommand(m) ==
    /\ Asked(m) /\ Says(m, "reschedule")
    /\ m.means \intersect {"menu", "greeting", "catalogue"} = {}
    /\ \/ Upcoming = {} /\ Converse(StartCapture(conv, TypeOrPre(conv)))
       \/ \E i \in Upcoming : Converse(AskForTheNewTime(conv, i))

\* _start_or_offer_move.
HumanCommand(m) ==
    /\ IsCommand(m) /\ Says(m, "human")
    /\ m.means \intersect {"menu", "greeting", "catalogue", "reschedule"} = {}
    /\ Converse(IF Upcoming = {} THEN StartCapture(conv, TypeOrPre(conv))
                                 ELSE At(conv, "CONFIRM_RESCHEDULE"))

(***************************************************************************)
(* The handlers outside the form.                                          *)
(***************************************************************************)
MainMenuReply(c, m) ==
    IF Says(m, "courses") THEN Typed(At(c, "COURSE_SELECTION"), "PRE")
    ELSE IF Says(m, "enrolled") THEN Support(c)
    ELSE IF m.means \intersect {"talk", "human"} # {} THEN StartCapture(c, "PRE")
    ELSE IF m.about # "none" THEN SelectCourse(c, m.about)
    ELSE AnswerAtMenu(c)

MainMenu(m) ==
    /\ Handles("MAIN_MENU", m)
    /\ Converse(MainMenuReply(conv, m))

\* handle_start, also for a conversation that ended with a goodbye.
Start(m) ==
    /\ Handles("START", m) \/ Handles("END", m)
    /\ Converse(IF Says(m, "closing") THEN At(conv, "END")
                ELSE MainMenuReply(At(conv, "MAIN_MENU"), m))

CourseGroup(m) ==
    /\ Handles("COURSE_GROUP", m)
    /\ \/ Says(m, "undecided") /\ Converse(StartDiscovery(conv))
       \/ /\ ~Says(m, "undecided") /\ Says(m, "group")
          /\ Converse(Typed(At(conv, "COURSE_SELECTION"), "PRE"))
       \/ /\ m.means \intersect {"undecided", "group"} = {}
          /\ Converse(IF m.about # "none" THEN SelectCourse(conv, m.about)
                      ELSE IF Says(m, "long") THEN AnswerAtMenu(conv) ELSE conv)

CourseSelection(m) ==
    /\ Handles("COURSE_SELECTION", m)
    /\ Converse(IF Says(m, "undecided") THEN StartDiscovery(conv)
                ELSE IF m.about # "none" THEN SelectCourse(conv, m.about)
                ELSE IF Says(m, "long") THEN AnswerAtMenu(conv)
                ELSE At(conv, "COURSE_GROUP"))

CourseQna(m) ==
    /\ Handles("COURSE_QNA", m)
    /\ Converse(AnswerAndPrompt(IF m.about = "none" THEN conv ELSE On(conv, m.about), m, Upcoming))

GeneralQna(m) ==
    /\ Handles("GENERAL_QNA", m)
    /\ Converse(AnswerAndPrompt(IF m.about = "none" THEN conv
                                ELSE On(At(conv, "COURSE_QNA"), m.about), m, Upcoming))

\* Mutant: the upsell is argued from, and not kept.
DiscoveryUnscoped(m) ==
    /\ Handles("DISCOVERY", m)
    /\ Converse(AnswerAndPrompt(IF m.about = "none" THEN conv ELSE On(conv, m.about), m, {}))

\* Without a course the upsell is what discovery argues from, and keeps.
Discovery(m) ==
    /\ Handles("DISCOVERY", m)
    /\ LET course == IF m.about # "none" THEN m.about
                     ELSE IF conv.course = "none" THEN "upsell" ELSE conv.course
       IN  Converse(AnswerAndPrompt(On(conv, course), m, {}))

EnrollmentType(m) ==
    /\ Handles("ENROLLMENT_TYPE", m)
    /\ LET course == [conv EXCEPT !.slots = @ \union {"course"}]
       IN  \/ Says(m, "paid") /\ Converse(Support(conv))
           \/ ~Says(m, "paid") /\ Says(m, "free") /\ Converse(StartDiscovery(conv))
           \/ /\ m.means \intersect {"paid", "free"} = {}
              /\ Converse(IF m.about = "none" THEN conv
                          ELSE IF m.about = "free" THEN StartDiscovery(course)
                          ELSE Support(course))

SupportReply(c, m) ==
    IF Says(m, "human") THEN StartCapture(c, "POST")
    ELSE At(Bump(c), "SUPPORT_CALLBACK")

PostSales(m) ==
    /\ Handles("POST_SALES", m)
    /\ LET c == Typed(conv, "POST")
       IN  Converse(IF Says(m, "topic") THEN At(c, "SUPPORT_QUERY")
                    ELSE IF Says(m, "long") THEN SupportReply(At(c, "SUPPORT_QUERY"), m)
                    ELSE c)

SupportQuery(m) ==
    /\ Handles("SUPPORT_QUERY", m)
    /\ Converse(SupportReply(conv, m))

\* "That helped" is the yes button, "Please call me" the no button.
SupportCallback(m) ==
    /\ Handles("SUPPORT_CALLBACK", m)
    /\ LET escalate == m.tap = "confirm:no"
                       \/ (IsText(m) /\ m.means \intersect {"no", "human"} # {})
           resolved == m.tap = "confirm:yes" \/ (IsText(m) /\ Says(m, "yes"))
       IN  Converse(IF escalate THEN StartCapture(conv, "POST")
                    ELSE IF resolved THEN At(conv, "SUPPORT_QUERY")
                    ELSE SupportReply(At(conv, "SUPPORT_QUERY"), m))

\* Declining and asking something else both go back to where the offer came.
AskCallback(m) ==
    /\ Handles("ASK_CALLBACK", m)
    /\ LET accepted == m.tap = "confirm:yes"
                       \/ (IsText(m) /\ m.means \intersect {"yes", "human"} # {})
           declined == m.tap = "confirm:no" \/ (IsText(m) /\ Says(m, "no"))
       IN  Converse(IF accepted THEN StartCapture(conv, TypeOrPre(conv))
                    ELSE IF declined THEN At(conv, conv.resume)
                    ELSE Bump(At(conv, conv.resume)))

ConfirmReschedule(m) ==
    /\ Handles("CONFIRM_RESCHEDULE", m)
    /\ LET another == m.tap = "reschedule:new" \/ Says(m, "no")
           move == m.tap = "reschedule:move" \/ Says(m, "yes")
       IN  \/ another /\ Converse([TimeAnew(At(conv, "ASK_CALLBACK_TIME")) EXCEPT !.moving = 0])
           \/ /\ ~another /\ move
              /\ \E i \in Upcoming : Converse(AskForTheNewTime(conv, i))
           \/ ~another /\ (move => Upcoming = {}) /\ Converse(conv)

(***************************************************************************)
(* The form.                                                               *)
(***************************************************************************)
NameOnceMore(c) == c.tries["name"] > MAX_ATTEMPTS   \* mutant
GivesUpOnName(c) == c.tries["name"] = MAX_ATTEMPTS

AskName(m) ==
    /\ Handles("ASK_NAME", m)
    /\ LET c == Listen(conv, m)
           got == [c EXCEPT !.slots = @ \union {"name"}, !.tries["name"] = 0]
       IN  IF "name" \in c.slots \/ GivesUpOnName(c)
           THEN Continue(got) /\ named' = TRUE
           ELSE /\ conv' = [c EXCEPT !.tries["name"] = @ + 1]
                /\ UNCHANGED <<leads, named>>
    /\ UNCHANGED <<proof>>

\* _capture_turn.  A refusal, or one attempt too many, ends the form.
AskDetail(state, slot, m) ==
    /\ Handles(state, m)
    /\ LET c == Listen(conv, m)
           missed == [c EXCEPT !.tries[slot] = Least(@ + 1, MAX_ATTEMPTS + 1)]
           refused == (IsText(m) /\ Says(m, "refuses")) \/ missed.tries[slot] > MAX_ATTEMPTS
       IN  \/ slot \in c.slots /\ Continue([c EXCEPT !.tries[slot] = 0])
           \/ slot \notin c.slots /\ ~refused /\ Continue(missed)
           \/ /\ slot \notin c.slots /\ refused
              /\ conv' = At(WithKnownName(missed), "SUPPORT_QUERY")
              /\ UNCHANGED leads
    /\ UNCHANGED <<named, proof>>

AskEmail(m) == AskDetail("ASK_EMAIL", "email", m)
AskEnrolledCourse(m) == AskDetail("ASK_ENROLLED_COURSE", "course", m)

\* handle_ask_callback_time on conversation c.  Only a message that holds a
\* valid time is searched for other details.
TakeTime(c, m) ==
    LET introduced == "intro" \in m.gives
        d == IF introduced
             THEN [c EXCEPT !.slots = @ \union {"name"}, !.heard = @ \union {"name"}] ELSE c
        e == NextQuestion(Listen([d EXCEPT !.time = "ahead", !.heard = @ \union {"time"}], m))
    IN  /\ named' = (named \/ introduced)
        /\ conv' = IF "time" \notin m.gives THEN d
                   ELSE IF Asks(e) # "complete" THEN AskNext(e)
                   ELSE At(e, "ASK_REMARKS")
        /\ UNCHANGED leads

AskCallbackTime(m) ==
    /\ Handles("ASK_CALLBACK_TIME", m)
    /\ TakeTime(conv, m)
    /\ UNCHANGED <<proof>>

\* An answer that is neither a confirmation nor a number accepts the WhatsApp
\* number, and is taken for the time if there is none yet.
AskPhone(m) ==
    /\ Handles("ASK_PHONE", m)
    /\ LET confirmed == m.tap = "phone:confirm" \/ (IsText(m) /\ Says(m, "yes"))
           different == m.tap = "phone:other"
           c == Listen(conv, m)
           own == [c EXCEPT !.phone = "own"]
       IN  \/ confirmed /\ Continue([conv EXCEPT !.phone = "own"]) /\ UNCHANGED named
           \/ different /\ Continue(conv) /\ UNCHANGED named
           \/ /\ ~confirmed /\ ~different /\ c.phone = "other"
              /\ Continue(c) /\ UNCHANGED named
           \/ /\ ~confirmed /\ ~different /\ c.phone = "none"
              /\ IF c.time = "none" THEN TakeTime(At(own, "ASK_CALLBACK_TIME"), m)
                                    ELSE (Continue(own) /\ UNCHANGED named)
    /\ UNCHANGED <<proof>>

\* Whatever comes is the remark, or says there is none.
AskRemarks(m) ==
    /\ Handles("ASK_REMARKS", m)
    /\ CreateLead(conv)
    /\ UNCHANGED <<named, proof>>

(***************************************************************************)
(* Time.                                                                   *)
(***************************************************************************)
\* The time of a call comes - maybe before it is booked, which is as good as
\* right after.
CallPasses ==
    /\ \E i \in Upcoming : leads' = [leads EXCEPT ![i].at = "past"]
    /\ UNCHANGED <<conv, named, proof>>

Handler(m) ==
    \/ Start(m) \/ MainMenu(m) \/ CourseGroup(m) \/ CourseSelection(m)
    \/ CourseQna(m) \/ GeneralQna(m) \/ Discovery(m) \/ EnrollmentType(m)
    \/ PostSales(m) \/ SupportQuery(m) \/ SupportCallback(m)
    \/ AskCallback(m) \/ ConfirmReschedule(m)
    \/ AskName(m) \/ AskEmail(m) \/ AskEnrolledCourse(m) \/ AskPhone(m)
    \/ AskCallbackTime(m) \/ AskRemarks(m)

Command(m) ==
    MenuCommand(m) \/ CatalogueCommand(m) \/ RescheduleCommand(m) \/ HumanCommand(m)

Next ==
    \/ \E m \in Message : OfferReply(m) \/ Navigate(m) \/ Command(m) \/ Handler(m)
    \/ Image
    \/ CallPasses

Spec == Init /\ [][Next]_vars

-----------------------------------------------------------------------------
\* Every variable has its shape.
TypeOK ==
    /\ conv \in [state : State, type : {"none", "PRE", "POST"}, course : Course \union {"none"},
                  slots : SUBSET Slot, phone : {"none", "own", "other"},
                  time : {"none", "ahead"}, flags : SUBSET Flag, qna : 0 .. Threshold,
                  resume : Selling \union {"none"}, moving : 0 .. Len(leads),
                  tries : [Slot -> 0 .. MAX_ATTEMPTS + 1],
                  prompted : BOOLEAN, heard : SUBSET Told]
    /\ conv.tries["name"] <= MAX_ATTEMPTS
    /\ named \in BOOLEAN
    /\ leads \in Seq([type : {"PRE", "POST"}, has : SUBSET Slot, contact : {"own", "other"},
                      at : {"none", "ahead", "past"}])
    /\ Len(leads) <= MaxLeads
    /\ proof \in BOOLEAN

\* No way through the menus, the detours, the stray taps and the forms left
\* half-way books a call without a name and a time, or a support call without
\* the account's email and course (capture.py: "a post-sales booking impossible
\* without an email").
BookingsComplete ==
    \A i \in DOMAIN leads : Required(leads[i].type) \subseteq leads[i].has /\ leads[i].at # "none"

\* A form asks only for what it has not been told while it was listening: not for
\* the name of a contact we know, nor for a detail that came along with another
\* answer or in another order than asked (capture.py: "every turn absorbs whatever
\* the message happens to contain, then asks only for what is still missing").
\* It listens at the name, email and course questions; at the number question
\* unless the answer confirms the number or wants another; and at the time
\* question, for a name that is announced and, beside a time that is accepted, for
\* everything.  What else is said it may ask for again: a detail beside a refused
\* time, a time given at an earlier question or beside a number, a remark; and who
\* has told everything, left the form and asks for a call again, or asks for
\* another call or a move, is asked for the time again.
AsksOnlyWhatIsMissing ==
    /\ conv.state = "ASK_NAME" => ~named /\ "name" \notin conv.slots \union conv.heard
    /\ conv.state = "ASK_EMAIL" => "email" \notin conv.slots \union conv.heard
    /\ conv.state = "ASK_ENROLLED_COURSE" => "course" \notin conv.slots \union conv.heard
    /\ conv.state = "ASK_PHONE" => conv.phone = "none" /\ "phone" \notin conv.heard
    /\ conv.state = "ASK_CALLBACK_TIME" => "time" \notin conv.heard

\* Moving a call never adds a second one (context.py: "the lead is UPDATED rather
\* than a second one created").
MoveNeverDuplicates ==
    [][conv.moving # 0 => Len(leads') = Len(leads)]_vars

\* A form that was begun ends in a booking, or with the explanation of why an
\* email or course is needed, or by tapping the offer's question button; no word
\* and no other old button throws the customer out of it.
FormKept ==
    [][InForm /\ ~InForm' =>
        \/ conv' = Fresh /\ (Len(leads') > Len(leads) \/ leads'[conv.moving].at = conv.time)
        \/ conv.state \in {"ASK_EMAIL", "ASK_ENROLLED_COURSE"} /\ conv'.state = "SUPPORT_QUERY"
        \/ "offer:question" \in Tapped /\ conv'.state \in {"DISCOVERY", "COURSE_QNA"}]_vars

\* After a prompt - the discount, or the offer of a call - the offer of a call is
\* not made again before the customer went back to the menu (context.py: "a bot
\* that asks ... after every answer is the thing users complain about").
NoSecondPrompt ==
    [][conv'.state = "ASK_CALLBACK" /\ conv.state # "ASK_CALLBACK" => ~conv.prompted]_vars

\* Who is in the support branch is filed as a support case, however it was
\* reached: the request for a human is answered by the machine before the support
\* handlers see it, and books a sales call for whom the type says nothing of.
SupportIsSupport ==
    conv.state \in {"POST_SALES", "SUPPORT_QUERY", "SUPPORT_CALLBACK"} => conv.type = "POST"

\* A question about a course, or asked instead of taking the call offered in the
\* midst of such questions, has a course in scope (discovery.py: "left unset ...
\* 'what is the fees' was answered with no course in scope at all").
CourseInScope ==
    /\ conv.state = "COURSE_QNA" => conv.course # "none"
    /\ conv.state = "ASK_CALLBACK" /\ conv.resume \in {"COURSE_QNA", "DISCOVERY"}
            => conv.course # "none"
=============================================================================
