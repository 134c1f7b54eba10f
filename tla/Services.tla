------------------------------ MODULE Services ------------------------------
(***************************************************************************)
(* The components beside the conversation, which share no state: a         *)
(* behaviour belongs to one of them, and the others stay as they are.      *)
(***************************************************************************)
EXTENDS CallbackTime, Answering, Intake

VARIABLE component   \* the one this behaviour belongs to

CallbackOff ==
    /\ now = CHOOSE t \in Clock : TRUE
    /\ pendingDate = NoDate /\ spoken = NoDate
    /\ last = Unasked

ServicesInit ==
    /\ component \in {"callback", "answering", "intake"}
    /\ IF component = "callback" THEN Init ELSE CallbackOff
    /\ AnswerInit /\ (component = "answering" \/ provider = "openai")
    /\ IntakeInit /\ (component = "intake" \/ inline)

Callback(step) == component = "callback" /\ step /\ UNCHANGED <<component, answerVars, intakeVars>>
Answers(step) == component = "answering" /\ step /\ UNCHANGED <<component, callbackVars, intakeVars>>
Takes(step) == component = "intake" /\ step /\ UNCHANGED <<component, callbackVars, answerVars>>
ServicesNext ==
    \/ \E text \in Texts : Callback(Say(text))
    \/ Callback(Move)
    \/ Callback(Tick)
    \/ \E directory \in Directories : Answers(Start(directory))
    \/ \E question \in Questions : Answers(Ask(question))
    \/ \E response \in Responses : Answers(Generate(response))
    \/ Answers(Reply)
    \/ Takes(Elapse)
    \/ Takes(Crash)
    \/ \E r \in Requests, p \in Payloads : Takes(Post(r, p))
    \/ \E r \in Requests : Takes(Accept(r))
    \/ \E r \in Requests : Takes(Turn(r))
    \/ \E r \in Requests : Takes(Send(r))
    \/ \E r \in Requests : Takes(EndTurn(r))
    \/ \E r \in Requests : Takes(Finish(r))
    \/ \E send \in late : Takes(Land(send))

servicesVars == <<component, callbackVars, answerVars, intakeVars>>
ServicesSpec == ServicesInit /\ [][ServicesNext]_servicesVars

\* The types of the component under way.
ServicesTypeOK ==
    /\ component = "callback" => TypeOK
    /\ component = "answering" => AnswerTypeOK
    /\ component = "intake" => IntakeTypeOK
=============================================================================
