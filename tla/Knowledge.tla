----------------------------- MODULE Knowledge ------------------------------
(***************************************************************************)
(* What the model is given to answer from: KnowledgeLoader and             *)
(* KnowledgeBase (app/services/knowledge/loader.py) and KeywordRetriever   *)
(* (retriever.py).                                                         *)
(*                                                                         *)
(* Text is the set of the words in it; a tag set is the section or field   *)
(* it is about.  BM25 is a count of the words shared, three for each in    *)
(* the title and the tags, one for each in the body; weights are in        *)
(* twentieths.  What a hand-edited file can get wrong is kept: files       *)
(* missing or broken, both layouts, sections, fields and answers left out. *)
(***************************************************************************)
EXTENDS Integers, Sequences, FiniteSetsExt, SequencesExt

CONSTANTS
    Limit,       \* snippets in a prompt
    MaxChars,    \* and their length
    TermLength   \* letters of the names and keywords of courses

\* A prompt has room for a snippet, and what has a length has letters.
ASSUME KnowledgeAssumption ==
    /\ Limit \in Nat \ {0} /\ MaxChars \in Nat
    /\ TermLength \in [DOMAIN TermLength -> Nat \ {0}]

None == "none"
Absent == [slug |-> None, id |-> <<None>>]
NotLoaded == [loaded |-> FALSE, courses |-> <<>>, snippets |-> {}]

-----------------------------------------------------------------------------
(* Snippets from the files.  A file is missing, broken (no JSON, or no     *)
(* object) or read; a missing one is an empty document.                    *)

Body(file) == IF file.state = "missing" THEN file.empty ELSE file.body

\* Titles and tags index three times, so they are kept apart from the body.  The place is that in
\* the list of snippets: the file, and where in it.
Snippet(place, id, title, body, course, audience, weight, size) ==
    [place |-> place, id |-> id, title |-> title, body |-> body, course |-> course,
     audience |-> audience, weight |-> weight, size |-> size]

Before(p, q) ==
    \/ p[1] < q[1]
    \/ p[1] = q[1] /\ p[2] < q[2]
    \/ p[1] = q[1] /\ p[2] = q[2] /\ p[3] < q[3]

Audiences == {"all", "pre_sales", "post_sales"}
AudienceOf(written) == IF written \in Audiences THEN written ELSE "all"

CourseFields == <<"duration", "effort", "mode", "eligibility", "fees", "tools", "curriculum",
                  "projects", "batches", "certification", "career_outcomes", "career_support",
                  "mentors", "url">>

\* For each course a snippet for the overview, always, and one for each field that says something.
CourseSnippets(courses) ==
    LET tags(c) == c.words \cup c.keywords \cup {c.slug}
        overview(c, i) == Snippet(<<1, i, 0>>, <<"course", c.slug, "overview">>, tags(c) \cup {"overview", "course"},
                                  {}, c.slug, "all", 24, c.size)
        of(c, i, k) == Snippet(<<1, i, k>>, <<"course", c.slug, CourseFields[k]>>, tags(c) \cup {CourseFields[k]},
                               {}, c.slug, "all", 20, c.size)
        present(c) == {k \in 1..Len(CourseFields) : CourseFields[k] \in c.fields}
    IN  UNION {{overview(courses[i], i)} \cup {of(courses[i], i, k) : k \in present(courses[i])} : i \in DOMAIN courses}

\* Mutant: only the flat layout.
GroupedFlat(document, listKey) == {g \in 1..Len(document) : document[g].key = listKey /\ document[g].list}

\* A flat list under its own key, or every key that holds a list; what holds none is skipped.
Grouped(document, listKey) ==
    LET flat == {g \in 1..Len(document) : document[g].key = listKey /\ document[g].list}
    IN  IF flat # {} THEN flat ELSE {g \in 1..Len(document) : document[g].list}

\* An entry without question or answer is left out, but counts for the number of the next.
FaqSnippets(document) ==
    LET category(g) == {document[g].key} \ {"faqs"}
        id(e, g, i) == IF e.id # None THEN <<"given", e.id>> ELSE <<"faq", category(g), i - 1>>
        of(e, g, i) == Snippet(<<2, g, i>>, id(e, g, i), e.question \cup e.keywords \cup category(g), e.answer, e.course,
                               AudienceOf(e.audience), 22, e.size)
        valid(es) == {i \in 1..Len(es) : es[i].question # {} /\ es[i].answer # {}}
    IN  UNION {{of(document[g].entries[i], g, i) : i \in valid(document[g].entries)} : g \in Grouped(document, "faqs")}

\* Either a list under "policies" or a section for each key; empty ones are left out.
PolicySnippets(document) ==
    LET flat == {g \in 1..Len(document) : document[g].key = "policies" /\ document[g].list}
        listed == document[Min(flat)].entries
        entry(e, i) == Snippet(<<3, i, 0>>, <<"policy", i - 1>>, e.question, e.answer, None, "all", 23, e.size)
        section(key, e, g) ==
            Snippet(<<3, g, 0>>, <<"policy", key>>, {key, "policy", "rule"}, e.answer, None, "all", 23, e.size)
    IN  IF flat # {} THEN {entry(listed[i], i) : i \in {i \in 1..Len(listed) : listed[i].answer # {}}}
        ELSE {section(document[g].key, document[g].entries[1], g) :
                 g \in {g \in 1..Len(document) : document[g].entries # <<>>}}

\* What company.json says of the institute; a part it is silent on is left out.
CompanySnippets(says) ==
    LET part(n, id, title, weight) == Snippet(<<4, n, 0>>, <<"company", id>>, title, {}, None, "all", weight, 1)
    IN  {s \in {part(1, "about", {"about", "company", "location"}, 22)} : says \cap {"profile"} # {}}
        \cup {s \in {part(2, "contact", {"contact", "hours", "call"}, 23)} : says \cap {"contact", "hours"} # {}}
        \cup {s \in {part(3, "learning", {"online", "class", "certificate"}, 20)} : says \cap {"learning"} # {}}
        \cup {s \in {part(4, "social", {"link", "url"}, 20)} : says \cap {"social"} # {}}

PlacementSnippets(says) ==
    LET part(n, id, title, weight) == Snippet(<<5, n, 0>>, <<"placements", id>>, title, {}, None, "all", weight, 1)
    IN  IF says THEN {part(1, "support", {"placement", "job", "salary"}, 22), part(2, "salary", {"salary", "pay"}, 20)}
        ELSE {}

\* The entries of courses.json that have a name, at their places in it.
CoursesIn(entries) == [i \in {i \in 1..Len(entries) : entries[i].words # {}} |-> entries[i]]

\* One broken file and the service does not start.
Load(directory) ==
    LET states == {directory.courses.state, directory.faqs.state, directory.policies.state,
                   directory.company.state, directory.placements.state}
        courses == CoursesIn(Body(directory.courses))
    IN  IF "broken" \in states THEN NotLoaded
        ELSE [loaded |-> TRUE,
              courses |-> courses,
              snippets |-> CourseSnippets(courses) \cup FaqSnippets(Body(directory.faqs))
                           \cup PolicySnippets(Body(directory.policies))
                           \cup CompanySnippets(Body(directory.company))
                           \cup PlacementSnippets(Body(directory.placements))]

-----------------------------------------------------------------------------
(* The knowledge base.  Where two entries have one name, the later one is  *)
(* found under it.                                                         *)

GetSnippet(kb, id) ==
    LET found == {s \in kb.snippets : s.id = id}
    IN  IF found = {} THEN Absent
        ELSE CHOOSE s \in found : \A t \in found \ {s} : Before(t.place, s.place)
GetCourse(kb, slug) ==
    LET found == {i \in DOMAIN kb.courses : kb.courses[i].slug = slug}
    IN  IF found = {} THEN Absent ELSE kb.courses[Max(found)]
UpsellCourse(kb) == GetCourse(kb, "ai-for-everyone")

\* Names, and then keywords, found anywhere in the text, inside other words too: the longest,
\* and among equals the first in the catalogue.
IdentityTerms(c) == {c.name, c.slug}
Names(kb) == [i \in DOMAIN kb.courses |-> IdentityTerms(kb.courses[i])]
Keywords(kb) == [i \in DOMAIN kb.courses |-> kb.courses[i].keywords]
LongestOf(terms, text) == Max({0} \cup {TermLength[t] : t \in terms \cap text.says})
Longest(kb, terms, text) ==
    LET top == Max({0} \cup {LongestOf(terms[i], text) : i \in DOMAIN kb.courses})
    IN  IF top = 0 THEN None
        ELSE kb.courses[Min({i \in DOMAIN kb.courses : LongestOf(terms[i], text) = top})].slug

\* Mutant: keywords before names.
MatchKeywordFirst(kb, text) ==
    LET byKeyword == Longest(kb, Keywords(kb), text)
    IN  IF byKeyword # None THEN byKeyword ELSE Longest(kb, Names(kb), text)

MatchCourse(kb, text) ==
    LET exact == {i \in DOMAIN kb.courses : text.whole \in IdentityTerms(kb.courses[i])}
        byName == Longest(kb, Names(kb), text)
    IN  IF exact # {} THEN kb.courses[Min(exact)].slug
        ELSE IF byName # None THEN byName
        ELSE Longest(kb, Keywords(kb), text)

-----------------------------------------------------------------------------
(* Retrieval.                                                              *)

\* The index has one entry for an id.
Lexical(kb, s, query) ==
    LET indexed == GetSnippet(kb, s.id)
    IN  3 * Cardinality(query \cap indexed.title) + Cardinality(query \cap indexed.body)

\* The course asked about comes first, other courses and, with no course, every course last.
Score(kb, s, query, course) ==
    LET hits == Lexical(kb, s, query)
    IN  s.weight * (IF s.course = None THEN 100 * hits
                    ELSE IF course = None THEN 55 * hits
                    ELSE IF s.course = course THEN 180 * hits + 50
                    ELSE 35 * hits)

Fallback(kb, course) ==
    LET pick(id) == LET s == GetSnippet(kb, id) IN IF s = Absent THEN <<>> ELSE <<s>>
        picks == pick(<<"course", course, "overview">>) \o pick(<<"company", "about">>) \o pick(<<"company", "contact">>)
    IN  SubSeq(picks, 1, Min({Limit, Len(picks)}))

\* The snippets scored, from the best to the last.
Ahead(score, s, t) == score[s] > score[t] \/ (score[s] = score[t] /\ Before(s.place, t.place))
Place(score, s) == 1 + Cardinality({t \in DOMAIN score : Ahead(score, t, s)})
Ranked(score) == [n \in 1..Cardinality(DOMAIN score) |-> CHOOSE s \in DOMAIN score : Place(score, s) = n]
Chars(ranked, n) ==
    LET upto[i \in 0..Len(ranked)] == IF i = 0 THEN 0 ELSE upto[i - 1] + ranked[i].size
    IN  upto[n]

\* Mutants: one more than the limit; the first must fit too.
SelectOneMore(score) ==
    LET ranked == Ranked(score)
    IN  SubSeq(ranked, 1, Min({Limit + 1, Len(ranked)}))
SelectFitting(score) ==
    LET ranked == Ranked(score)
        ends(n) == n > Limit \/ 4 * score[ranked[n]] < score[ranked[1]] \/ Chars(ranked, n) > MaxChars
        stop == Min({n \in 1..Len(ranked) : ends(n)} \cup {Len(ranked) + 1})
    IN  SubSeq(ranked, 1, stop - 1)

\* The best first, while they are within a quarter of the top and fit; the first always fits.
Select(score) ==
    LET ranked == Ranked(score)
        ends(n) == \/ n > Limit
                   \/ 4 * score[ranked[n]] < score[ranked[1]]
                   \/ n > 1 /\ Chars(ranked, n) > MaxChars
        stop == Min({n \in 1..Len(ranked) : ends(n)} \cup {Len(ranked) + 1})
    IN  SubSeq(ranked, 1, stop - 1)

Retrieve(kb, query, course, audience) ==
    LET score == [s \in {s \in kb.snippets : s.audience \in {"all", audience}} |-> Score(kb, s, query, course)]
        scored == {s \in DOMAIN score : score[s] > 0}
    IN  IF scored = {} THEN Fallback(kb, course) ELSE Select([s \in scored |-> score[s]])
=============================================================================
