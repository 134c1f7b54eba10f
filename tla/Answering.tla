----------------------------- MODULE Answering ------------------------------
(***************************************************************************)
(* A question put to the model: AnswerService.answer                       *)
(* (app/services/llm/answer_service.py) behind TopicGuard (guardrails.py), *)
(* in front of the client of the provider configured (openai.py,           *)
(* gemini.py, groq.py), with the course the conversation is about, which   *)
(* discovery and the menus take from what the customer writes.             *)
(***************************************************************************)
EXTENDS Knowledge

CONSTANTS
    Directories,  \* knowledge directories the service may start with
    Questions     \* what customers write

\* A course entry is left alone only when it has no name: else it has a slug, at least the name's.
IsCourse(c) ==
    c.words # {} =>
        /\ c.slug # None
        /\ IdentityTerms(c) \subseteq DOMAIN TermLength \ {""}
        /\ IsFiniteSet(c.keywords) /\ c.keywords \subseteq DOMAIN TermLength
IsList(s) == s \in Seq(ToSet(s))
\* What can be read is a list of entries, or of what is under each key, which is there once.
IsDirectory(d) ==
    /\ d.courses.state # "broken" =>
          LET courses == Body(d.courses)
          IN  IsList(courses) /\ \A i \in 1..Len(courses) : IsCourse(courses[i])
    /\ \A file \in {d.faqs, d.policies} : file.state # "broken" =>
          LET groups == Body(file)
          IN  /\ IsList(groups)
              /\ \A g \in 1..Len(groups) : IsList(groups[g].entries)
              /\ \A g, h \in 1..Len(groups) : groups[g].key = groups[h].key => g = h
\* A text that is the name of a course, and nothing else, says it too.
IsQuestion(q) ==
    /\ q.state # None
    /\ IsFiniteSet(q.text.words)
    /\ q.text.whole \in {""} \cup q.text.says
ASSUME AnsweringAssumption ==
    /\ \A directory \in Directories : IsDirectory(directory)
    /\ \A question \in Questions : IsQuestion(question)

MaxCalls == 3

-----------------------------------------------------------------------------
(* The guard.  A text tells which patterns it matches, its words and how   *)
(* many there are.                                                         *)

ShortAnswerWords == 5
Generic == {"for", "everyone", "complete", "guide"}
BaseTerms == {"course", "fees", "placement", "analytics"}
\* Words of two letters are no evidence, and titles drag in filler; Short is told by TermLength.
DomainTerms(kb) ==
    LET words == BaseTerms \cup UNION {kb.courses[i].words \cup kb.courses[i].keywords : i \in DOMAIN kb.courses}
    IN  {w \in words : TermLength[w] > 2} \ Generic

IsOffTopic(kb, text, selfDescription) ==
    \/ text.injection
    \/ /\ text.offDomain
       /\ ~text.describesSelf
       /\ ~(selfDescription /\ text.length <= ShortAnswerWords /\ ~text.asks)
       /\ text.words \cap DomainTerms(kb) = {}

-----------------------------------------------------------------------------
(* The model.  What a POST to it comes back with: no key to send it with;  *)
(* nothing in time; a status that may pass (408, 429, 5xx) or will not;    *)
(* no JSON, or none that is an object; a text, whole, cut off or marked as *)
(* declined or withheld; nothing; or null where its parts should be.       *)

Lost == {"no answer", "busy", "no json", "nothing"}
Hopeless == {"no key", "rejected", "no object"}
Usable == {"whole", "cut off"}
Marked == {"declined", "null"}
Responses == Lost \cup Hopeless \cup Usable \cup Marked

\* What generate() makes of it: a text, an LLMError, which is tried again, or another error.
Common(response) ==
    IF response \in Usable THEN "text" ELSE IF response \in Lost THEN "retry" ELSE "give up"
OpenAI(response) == IF response \in Marked THEN "retry" ELSE Common(response)
\* Where content is null the next look-up raises.
Gemini(response) == IF response = "declined" THEN "retry" ELSE Common(response)
\* Groq's mark is not looked for.
Groq(response) ==
    IF response = "declined" THEN "text" ELSE IF response = "null" THEN "retry" ELSE Common(response)

Providers == {"openai", "gemini", "groq"}
Verdict(provider, response) ==
    IF provider = "openai" THEN OpenAI(response)
    ELSE IF provider = "gemini" THEN Gemini(response) ELSE Groq(response)

VARIABLES
    kb,        \* the knowledge base
    provider,  \* LLM_PROVIDER
    scope,     \* current_course of the conversation
    asked,     \* the question being answered
    context,   \* the snippets in its prompt
    attempts,  \* calls made for it
    result     \* the kind of text answer() returned

answerVars == <<kb, provider, scope, asked, context, attempts, result>>

Nothing == [state |-> None]

AnswerInit ==
    /\ kb = NotLoaded
    /\ provider \in Providers
    /\ scope = None
    /\ asked = Nothing
    /\ context = <<>> /\ attempts = 0
    /\ result = None

\* load_knowledge_base at startup; a directory that cannot be loaded stops it.
Start(directory) ==
    /\ ~kb.loaded
    /\ kb' = Load(directory)
    /\ UNCHANGED <<provider, scope, asked, context, attempts, result>>

\* The course a question is about: the one it names, else the one in scope, in discovery the upsell.
Scope(question) ==
    LET named == IF question.state = "SUPPORT_QUERY" THEN None ELSE MatchCourse(kb, question.text)
    IN  IF named # None THEN named
        ELSE IF question.state = "DISCOVERY" /\ scope = None /\ UpsellCourse(kb) # Absent THEN UpsellCourse(kb).slug
        ELSE scope

Audience(question) == IF question.state = "SUPPORT_QUERY" THEN "post_sales" ELSE "pre_sales"

\* answer(), up to the first call: a refusal costs none.
Ask(question) ==
    LET refused == IsOffTopic(kb, question.text, question.state = "DISCOVERY")
    IN  /\ kb.loaded
        /\ asked = Nothing
        /\ scope' = Scope(question)
        /\ asked' = question
        /\ context' = IF refused THEN <<>> ELSE Retrieve(kb, question.text.words, scope', Audience(question))
        /\ result' = IF refused THEN "refused" ELSE None
        /\ UNCHANGED <<kb, provider, attempts>>

\* One attempt of generate(): three at most.  Whatever it raises in the end, answer() has the
\* fallback.
Generate(response) ==
    LET verdict == Verdict(provider, response)
    IN  /\ asked # Nothing /\ result = None
        /\ attempts' = attempts + 1
        /\ result' = IF verdict = "text" THEN "text"
                     ELSE IF verdict = "retry" /\ attempts' < MaxCalls THEN None
                     ELSE "fallback"
        /\ UNCHANGED <<kb, provider, scope, asked, context>>

\* The turn goes on with the text it got.
Reply ==
    /\ result # None
    /\ asked' = Nothing
    /\ context' = <<>> /\ attempts' = 0
    /\ result' = None
    /\ UNCHANGED <<kb, provider, scope>>

AnswerNext ==
    \/ \E directory \in Directories : Start(directory)
    \/ \E question \in Questions : Ask(question)
    \/ \E response \in Responses : Generate(response)
    \/ Reply

AnswerSpec == AnswerInit /\ [][AnswerNext]_answerVars

-----------------------------------------------------------------------------
(* Properties. *)

AnswerTypeOK ==
    /\ kb = NotLoaded \/ \E directory \in Directories : kb = Load(directory)
    /\ scope \in {None} \cup {kb.courses[i].slug : i \in DOMAIN kb.courses}
    /\ asked \in Questions \cup {Nothing}
    /\ Len(context) <= Limit
    /\ attempts \in 0..MaxCalls
    /\ result \in {None, "refused", "fallback", "text"}

Prompted == asked # Nothing /\ result # "refused"

\* No question reaches the model with nothing to answer from, however large the snippets and
\* whatever the question shares with them, as long as company.json says who or where we are.
NeverEmptyHanded ==
    Prompted /\ GetSnippet(kb, <<"company", "about">>) # Absent => context # <<>>

\* No snippet for the other side of the funnel is in a prompt.
ForWhoAsks == \A i \in 1..Len(context) : context[i].audience \in {"all", Audience(asked)}

\* An entry of faqs.json with question and answer, in either layout and whatever is left out
\* around it, is in the prompt of a customer it is not kept from who asks just that question of no
\* course, unless the prompt is full, of snippets or because what fits the question no worse would
\* make it too long; and none for the other side of the funnel is in it.
EntriesAnswerable ==
    LET score(s) == Score(kb, s, asked.text.words, scope)
        tooLong(s) == Chars(context, Len(context)) + s.size > MaxChars
    IN  /\ ForWhoAsks
        /\ \A directory \in Directories : Prompted /\ kb = Load(directory) =>
            \A e \in UNION {ToSet(g.entries) : g \in {g \in ToSet(Body(directory.faqs)) : g.list}} :
                (/\ scope = None /\ e.question # {} /\ e.answer # {}
                 /\ e.audience \notin {"pre_sales", "post_sales"} \ {Audience(asked)}
                 /\ asked.text.words # {} /\ asked.text.words \subseteq e.question)
                => \/ \E i \in 1..Len(context) : context[i].body = e.answer
                   \/ Len(context) = Limit
                   \/ \E own, s \in kb.snippets :
                        /\ own.body = e.answer /\ e.question \subseteq own.title
                        /\ score(s) >= score(own)
                        /\ s \notin ToSet(context) /\ tooLong(s)

\* A question that names a course in full is about that course, whatever keywords of others it
\* says too; and what is known of the course asked about, and is for who asks, is ahead of what
\* fits another's as well.
NamedCourseFirst ==
    /\ \A i \in DOMAIN kb.courses :
        LET c == kb.courses[i]
        IN  (/\ Prompted /\ asked.state # "SUPPORT_QUERY"
             /\ c.name \in asked.text.says
             /\ \A j \in DOMAIN kb.courses \ {i} : IdentityTerms(kb.courses[j]) \cap asked.text.says = {})
            => scope = c.slug
    /\ \A own \in {s \in kb.snippets : s.course = scope /\ scope # None /\ s.audience \in {"all", Audience(asked)}} :
        \A i \in {i \in 1..Len(context) : context[i].course \notin {None, scope}} :
            Lexical(kb, own, asked.text.words) >= Lexical(kb, context[i], asked.text.words)
            => \E j \in 1..i - 1 : context[j] = own
=============================================================================
