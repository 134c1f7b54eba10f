--------------------------- MODULE AnsweringProofs ---------------------------
(***************************************************************************)
(* Theorems about Answering, for every set of knowledge directories and    *)
(* questions, every limit of the prompt and every catalogue; and about     *)
(* Services, in which it runs beside CallbackTime and Intake.              *)
(***************************************************************************)
EXTENDS Services, CallbackTimeProofs, IntakeProofs, SequenceTheorems, FiniteSetTheorems,
        WellFoundedInduction, TLAPS

(***************************************************************************)
(* Finite sets and their order.                                            *)
(***************************************************************************)
\* A finite set in a strict order has a last element.
LEMMA LastOf ==
  ASSUME NEW S, IsFiniteSet(S), S # {}, NEW R,
         \A x, y \in S : x = y \/ <<x, y>> \in R \/ <<y, x>> \in R,
         \A x, y, z \in S : <<x, y>> \in R /\ <<y, z>> \in R => <<x, z>> \in R
  PROVE  \E x \in S : \A y \in S \ {x} : <<y, x>> \in R
<1> DEFINE Final(x, T) == \A y \in T \ {x} : <<y, x>> \in R
           Bad == {n \in Nat : \E T \in SUBSET S : T # {} /\ Cardinality(T) = n /\ \A x \in T : ~Final(x, T)}
<1>1. SUFFICES ASSUME \A x \in S : ~Final(x, S) PROVE FALSE
  OBVIOUS
<1>2. Cardinality(S) \in Bad
  BY <1>1, FS_CardinalityType
<1>3. PICK n \in Bad : \A m \in Bad : n <= m
  <2> HIDE DEF Bad
  <2>1. Bad \in SUBSET Nat
    BY DEF Bad
  <2> QED
    BY <1>2, <2>1, LeastNumber
<1>4. PICK T \in SUBSET S : T # {} /\ Cardinality(T) = n /\ \A x \in T : ~Final(x, T)
  BY <1>3
<1>5. PICK t \in T : TRUE
  BY <1>4
<1>6. IsFiniteSet(T) /\ n \in Nat
  BY <1>3, FS_Subset
<1>7. IsFiniteSet(T \ {t}) /\ Cardinality(T \ {t}) = n - 1
  BY <1>4, <1>5, <1>6, FS_RemoveElement
<1>8. T \ {t} # {}
  BY <1>4, <1>5
<1>9. PICK x \in T \ {t} : Final(x, T \ {t})
  <2>1. n - 1 \in Nat
    BY <1>7, FS_CardinalityType
  <2>2. n - 1 \notin Bad
    BY <1>3, <1>6, <2>1
  <2> QED
    BY <1>7, <1>8, <2>1, <2>2
<1>10. CASE <<t, x>> \in R
  <2>1. Final(x, T)
    BY <1>9, <1>10
  <2> QED
    BY <1>4, <1>9, <2>1
<1>11. CASE <<x, t>> \in R
  <2>1. \A y \in T \ {t} : <<y, t>> \in R
    BY <1>4, <1>5, <1>9, <1>11
  <2> QED
    BY <1>4, <1>5, <2>1
<1> QED
  BY <1>4, <1>5, <1>9, <1>10, <1>11

LEMMA MaxIsGreatest ==
  ASSUME NEW T \in SUBSET Nat, T # {}, IsFiniteSet(T)
  PROVE  Max(T) \in T /\ \A y \in T : Max(T) >= y
<1> DEFINE R == {p \in Nat \X Nat : p[1] < p[2]}
<1>1. \A x, y \in Nat : <<x, y>> \in R <=> x < y
  OBVIOUS
<1> HIDE DEF R
<1>2. PICK x \in T : \A y \in T \ {x} : <<y, x>> \in R
  <2>1. ASSUME NEW x \in T, NEW y \in T PROVE x = y \/ <<x, y>> \in R \/ <<y, x>> \in R
    <3>1. x \in Nat /\ y \in Nat
      OBVIOUS
    <3>2. x = y \/ x < y \/ y < x
      BY <3>1
    <3> QED
      BY <1>1, <3>1, <3>2
  <2>2. ASSUME NEW x \in T, NEW y \in T, NEW z \in T, <<x, y>> \in R, <<y, z>> \in R PROVE <<x, z>> \in R
    <3>1. x \in Nat /\ y \in Nat /\ z \in Nat
      OBVIOUS
    <3>2. x < y /\ y < z
      BY <1>1, <2>2, <3>1
    <3>3. x < z
      BY <3>1, <3>2
    <3> QED
      BY <1>1, <3>1, <3>3
  <2> QED
    BY <2>1, <2>2, LastOf
<1>3. ASSUME NEW y \in T PROVE x >= y
  <2>1. x \in Nat /\ y \in Nat
    OBVIOUS
  <2>2. x = y \/ y < x
    BY <1>1, <1>2, <2>1
  <2> QED
    BY <2>1, <2>2
<1> QED
  BY <1>3 DEF Max

\* What a function makes of a finite set is finite.
LEMMA FiniteRange ==
  ASSUME NEW S, IsFiniteSet(S), NEW f
  PROVE  IsFiniteSet({f[x] : x \in S})
<1> DEFINE g == [x \in S |-> f[x]]
<1>1. g \in Surjection(S, {f[x] : x \in S})
  BY DEF Surjection
<1> QED
  BY <1>1, FS_Surjection

LEMMA FiniteUnion ==
  ASSUME NEW S, IsFiniteSet(S), NEW f, \A x \in S : IsFiniteSet(f[x])
  PROVE  IsFiniteSet(UNION {f[x] : x \in S})
<1>1. IsFiniteSet({f[x] : x \in S})
  BY FiniteRange
<1> QED
  BY <1>1, FS_UNION

LEMMA Indices ==
  ASSUME NEW n, n \in Nat, NEW T, T \subseteq 1..n
  PROVE  IsFiniteSet(T) /\ T \subseteq Nat
<1>1. IsFiniteSet(1..n)
  BY FS_Interval
<1>2. T \in SUBSET (1..n)
  OBVIOUS
<1>3. IsFiniteSet(T)
  BY <1>1, <1>2, FS_Subset
<1> QED
  BY <1>3

(***************************************************************************)
(* The snippets of a file: finitely many, each at a place of its own.      *)
(***************************************************************************)
IsSnippet(s) ==
    /\ s.place \in Nat \X Nat \X Nat
    /\ s.weight \in 20..24
    /\ s # Absent
    /\ s.id[1] = "course" => s.course = s.id[2] /\ s.audience = "all"
    /\ s.id[1] = "company" => s.course = None /\ s.audience = "all"
    /\ s.id[1] \in {"given", "faq"} => s.place[1] = 2
    /\ s.course = None => s.weight <= 23

OfFile(S, n) ==
    /\ IsFiniteSet(S)
    /\ \A s \in S : IsSnippet(s) /\ s.place[1] = n
    /\ \A s, t \in S : s.place = t.place => s = t

LEMMA SnippetFields ==
  ASSUME NEW place, NEW id, NEW title, NEW body, NEW course, NEW audience, NEW weight, NEW size
  PROVE  LET s == Snippet(place, id, title, body, course, audience, weight, size)
         IN  /\ s.place = place /\ s.id = id /\ s.course = course /\ s.audience = audience
             /\ s.weight = weight /\ s # Absent
<1>1. DOMAIN Absent = {"slug", "id"}
  BY DEF Absent
<1>2. "place" \in DOMAIN Snippet(place, id, title, body, course, audience, weight, size)
  BY DEF Snippet
<1> QED
  BY <1>1, <1>2 DEF Snippet

LEMMA CourseFile ==
  ASSUME NEW courses, IsFiniteSet(DOMAIN courses), DOMAIN courses \subseteq Nat,
         \A i \in DOMAIN courses : courses[i].slug # None
  PROVE  OfFile(CourseSnippets(courses), 1)
<1> DEFINE tags(c) == c.words \cup c.keywords \cup {c.slug}
           overview(c, i) == Snippet(<<1, i, 0>>, <<"course", c.slug, "overview">>,
                                     tags(c) \cup {"overview", "course"}, {}, c.slug, "all", 24, c.size)
           of(c, i, k) == Snippet(<<1, i, k>>, <<"course", c.slug, CourseFields[k]>>, tags(c) \cup {CourseFields[k]},
                                  {}, c.slug, "all", 20, c.size)
           present(c) == {k \in 1..Len(CourseFields) : CourseFields[k] \in c.fields}
           entry(i, k) == IF k = 0 THEN overview(courses[i], i) ELSE of(courses[i], i, k)
           all(i) == {overview(courses[i], i)} \cup {of(courses[i], i, k) : k \in present(courses[i])}
<1>1. CourseSnippets(courses) = UNION {all(i) : i \in DOMAIN courses}
  BY DEF CourseSnippets
<1>2. Len(CourseFields) = 14
  BY DEF CourseFields
<1>3. \A i \in DOMAIN courses : all(i) = {entry(i, k) : k \in {0} \cup present(courses[i])}
  <2> TAKE i \in DOMAIN courses
  <2>1. entry(i, 0) = overview(courses[i], i)
    OBVIOUS
  <2>2. \A k \in present(courses[i]) : entry(i, k) = of(courses[i], i, k)
    BY <1>2
  <2> HIDE DEF entry, of, overview, present
  <2> QED
    BY <2>1, <2>2
<1>4. \A s \in CourseSnippets(courses) : \E i \in DOMAIN courses, k \in Nat : s = entry(i, k)
  <2>1. \A i \in DOMAIN courses : {0} \cup present(courses[i]) \subseteq Nat
    BY <1>2
  <2> HIDE DEF entry, all, present
  <2> QED
    BY <1>1, <1>3, <2>1
<1>5. \A i \in DOMAIN courses, k \in Nat :
         IsSnippet(entry(i, k)) /\ entry(i, k).place = <<1, i, k>>
  <2> TAKE i \in DOMAIN courses, k \in Nat
  <2>1. IsSnippet(overview(courses[i], i)) /\ overview(courses[i], i).place = <<1, i, 0>>
    BY SnippetFields DEF IsSnippet
  <2>2. IsSnippet(of(courses[i], i, k)) /\ of(courses[i], i, k).place = <<1, i, k>>
    BY SnippetFields DEF IsSnippet
  <2> HIDE DEF overview, of
  <2> QED
    BY <2>1, <2>2
<1>6. IsFiniteSet(CourseSnippets(courses))
  <2> DEFINE f == [i \in DOMAIN courses |-> all(i)]
  <2>1. ASSUME NEW i \in DOMAIN courses PROVE IsFiniteSet(all(i))
    <3> DEFINE g == [k \in present(courses[i]) |-> of(courses[i], i, k)]
    <3>1. IsFiniteSet(present(courses[i]))
      BY <1>2, Indices
    <3>2. IsFiniteSet({g[k] : k \in present(courses[i])})
      <4> HIDE DEF g, present
      <4> QED
        BY <3>1, FiniteRange
    <3>3. {g[k] : k \in present(courses[i])} = {of(courses[i], i, k) : k \in present(courses[i])}
      <4> HIDE DEF present, of
      <4> QED
        OBVIOUS
    <3> HIDE DEF g, of, overview, present
    <3> QED
      BY <3>2, <3>3, FS_Singleton, FS_Union
  <2> HIDE DEF all
  <2>2. \A i \in DOMAIN courses : IsFiniteSet(f[i])
    BY <2>1
  <2>3. UNION {f[i] : i \in DOMAIN courses} = UNION {all(i) : i \in DOMAIN courses}
    OBVIOUS
  <2>4. IsFiniteSet(UNION {f[i] : i \in DOMAIN courses})
    <3> HIDE DEF f
    <3> QED
      BY <2>2, FiniteUnion
  <2> HIDE DEF f
  <2> QED
    BY <1>1, <2>3, <2>4
<1> HIDE DEF entry, all, present, of, overview
<1>7. ASSUME NEW s \in CourseSnippets(courses), NEW t \in CourseSnippets(courses), s.place = t.place PROVE s = t
  <2>1. PICK i \in DOMAIN courses, k \in Nat : s = entry(i, k)
    BY <1>4
  <2>2. PICK j \in DOMAIN courses, l \in Nat : t = entry(j, l)
    BY <1>4
  <2>3. <<1, i, k>> = <<1, j, l>>
    BY <1>5, <1>7, <2>1, <2>2
  <2> QED
    BY <2>1, <2>2, <2>3
<1> QED
  BY <1>4, <1>5, <1>6, <1>7 DEF OfFile

LEMMA FaqFile ==
  ASSUME NEW document, Len(document) \in Nat, \A g \in 1..Len(document) : Len(document[g].entries) \in Nat
  PROVE  OfFile(FaqSnippets(document), 2)
<1> DEFINE category(g) == {document[g].key} \ {"faqs"}
           id(e, g, i) == IF e.id # None THEN <<"given", e.id>> ELSE <<"faq", category(g), i - 1>>
           of(e, g, i) == Snippet(<<2, g, i>>, id(e, g, i), e.question \cup e.keywords \cup category(g), e.answer,
                                  e.course, AudienceOf(e.audience), 22, e.size)
           valid(es) == {i \in 1..Len(es) : es[i].question # {} /\ es[i].answer # {}}
           entry(g, i) == of(document[g].entries[i], g, i)
           all(g) == {entry(g, i) : i \in valid(document[g].entries)}
           groups == Grouped(document, "faqs")
<1>1. FaqSnippets(document) = UNION {all(g) : g \in groups}
  BY DEF FaqSnippets
<1>2. groups \subseteq 1..Len(document)
  BY DEF Grouped
<1>3. \A g \in groups : valid(document[g].entries) \subseteq Nat
  BY <1>2
<1>4. \A g, i \in Nat : IsSnippet(entry(g, i)) /\ entry(g, i).place = <<2, g, i>>
  <2> TAKE g, i \in Nat
  <2> DEFINE e == document[g].entries[i]
  <2>1. id(e, g, i)[1] \in {"given", "faq"}
    OBVIOUS
  <2> HIDE DEF id, category, e
  <2>2. IsSnippet(of(e, g, i)) /\ of(e, g, i).place = <<2, g, i>>
    BY <2>1, SnippetFields DEF IsSnippet
  <2> HIDE DEF of
  <2> QED
    BY <2>2 DEF e
<1> HIDE DEF of, id, category
<1>5. \A s \in FaqSnippets(document) : \E g, i \in Nat : s = entry(g, i)
  <2>1. groups \subseteq Nat
    BY <1>2
  <2> HIDE DEF entry, valid, groups
  <2> QED
    BY <1>1, <1>3, <2>1
<1>6. IsFiniteSet(FaqSnippets(document))
  <2> DEFINE f == [g \in groups |-> all(g)]
  <2>1. ASSUME NEW g \in groups PROVE IsFiniteSet(all(g))
    <3> DEFINE v == valid(document[g].entries)
               h == [i \in v |-> entry(g, i)]
    <3>1. IsFiniteSet(v)
      BY <1>2, Indices
    <3> HIDE DEF v, entry
    <3>2. IsFiniteSet({h[i] : i \in v})
      <4> HIDE DEF h
      <4> QED
        BY <3>1, FiniteRange
    <3>3. {h[i] : i \in v} = {entry(g, i) : i \in v}
      OBVIOUS
    <3> HIDE DEF h
    <3> QED
      BY <3>2, <3>3 DEF v
  <2> HIDE DEF all, groups
  <2>2. \A g \in groups : IsFiniteSet(f[g])
    BY <2>1
  <2>3. UNION {f[g] : g \in groups} = UNION {all(g) : g \in groups}
    OBVIOUS
  <2>4. IsFiniteSet(groups)
    BY <1>2, Indices
  <2>5. IsFiniteSet(UNION {f[g] : g \in groups})
    <3> HIDE DEF f
    <3> QED
      BY <2>2, <2>4, FiniteUnion
  <2> HIDE DEF f
  <2> QED
    BY <1>1, <2>3, <2>5
<1> HIDE DEF entry, all, valid, groups
<1>7. ASSUME NEW s \in FaqSnippets(document), NEW t \in FaqSnippets(document), s.place = t.place PROVE s = t
  <2>1. PICK g, i \in Nat : s = entry(g, i)
    BY <1>5
  <2>2. PICK k, j \in Nat : t = entry(k, j)
    BY <1>5
  <2>3. <<2, g, i>> = <<2, k, j>>
    BY <1>4, <1>7, <2>1, <2>2
  <2> QED
    BY <2>1, <2>2, <2>3
<1> QED
  BY <1>4, <1>5, <1>6, <1>7 DEF OfFile

LEMMA PolicyFile ==
  ASSUME NEW document, Len(document) \in Nat, \A g \in 1..Len(document) : Len(document[g].entries) \in Nat
  PROVE  OfFile(PolicySnippets(document), 3)
<1> DEFINE flat == {g \in 1..Len(document) : document[g].key = "policies" /\ document[g].list}
           listed == document[Min(flat)].entries
           entry(e, i) == Snippet(<<3, i, 0>>, <<"policy", i - 1>>, e.question, e.answer, None, "all", 23, e.size)
           section(key, e, g) ==
               Snippet(<<3, g, 0>>, <<"policy", key>>, {key, "policy", "rule"}, e.answer, None, "all", 23, e.size)
           filled == {i \in 1..Len(listed) : listed[i].answer # {}}
           sections == {g \in 1..Len(document) : document[g].entries # <<>>}
           places == IF flat # {} THEN filled ELSE sections
           of(n) == IF flat # {} THEN entry(listed[n], n)
                    ELSE section(document[n].key, document[n].entries[1], n)
           f == [n \in places |-> of(n)]
<1>1. PolicySnippets(document) = {of(n) : n \in places}
  <2>1. CASE flat # {}
    <3>1. PolicySnippets(document) = {entry(listed[n], n) : n \in filled}
      <4> HIDE DEF entry
      <4> QED
        BY <2>1 DEF PolicySnippets, entry
    <3> HIDE DEF entry, section, filled, flat, listed, sections
    <3> QED
      BY <2>1, <3>1
  <2>2. CASE ~(flat # {})
    <3>1. PolicySnippets(document) = {section(document[n].key, document[n].entries[1], n) : n \in sections}
      BY <2>2 DEF PolicySnippets
    <3> HIDE DEF entry, section, filled, flat, listed, sections
    <3> QED
      BY <2>2, <3>1
  <2> QED
    BY <2>1, <2>2
<1>2. IsFiniteSet(places) /\ places \subseteq Nat
  <2>1. CASE flat # {}
    <3>1. flat \in SUBSET Nat /\ flat \subseteq 1..Len(document)
      OBVIOUS
    <3>2. Min(flat) \in 1..Len(document)
      <4> HIDE DEF flat
      <4> QED
        BY <2>1, <3>1, MinIsLeast
    <3>3. Len(listed) \in Nat
      BY <3>2
    <3>4. filled \subseteq 1..Len(listed)
      OBVIOUS
    <3> HIDE DEF filled, listed, flat, sections
    <3>5. IsFiniteSet(filled) /\ filled \subseteq Nat
      BY <3>3, <3>4, Indices
    <3> QED
      BY <2>1, <3>5
  <2>2. CASE flat = {}
    <3>1. IsFiniteSet(sections) /\ sections \subseteq Nat
      BY Indices
    <3> HIDE DEF filled, listed, flat, sections
    <3> QED
      BY <2>2, <3>1
  <2> QED
    BY <2>1, <2>2
<1>3. \A n \in Nat : IsSnippet(of(n)) /\ of(n).place = <<3, n, 0>>
  <2> TAKE n \in Nat
  <2>1. \A e : IsSnippet(entry(e, n)) /\ entry(e, n).place = <<3, n, 0>>
    BY SnippetFields DEF IsSnippet
  <2>2. \A e, key : IsSnippet(section(key, e, n)) /\ section(key, e, n).place = <<3, n, 0>>
    BY SnippetFields DEF IsSnippet
  <2> HIDE DEF entry, section, flat, listed
  <2> QED
    BY <2>1, <2>2
<1> HIDE DEF of, places, entry, section, flat, listed, filled, sections
<1>4. IsFiniteSet(PolicySnippets(document))
  <2>1. {f[n] : n \in places} = {of(n) : n \in places}
    OBVIOUS
  <2>2. IsFiniteSet({f[n] : n \in places})
    <3> HIDE DEF f
    <3> QED
      BY <1>2, FiniteRange
  <2> HIDE DEF f
  <2> QED
    BY <1>1, <2>1, <2>2
<1>5. ASSUME NEW s \in PolicySnippets(document), NEW t \in PolicySnippets(document), s.place = t.place PROVE s = t
  <2>1. PICK i \in places : s = of(i)
    BY <1>1
  <2>2. PICK j \in places : t = of(j)
    BY <1>1
  <2>3. <<3, i, 0>> = <<3, j, 0>>
    BY <1>2, <1>3, <1>5, <2>1, <2>2
  <2> QED
    BY <2>1, <2>2, <2>3
<1> QED
  BY <1>1, <1>2, <1>3, <1>4, <1>5 DEF OfFile

LEMMA FinitePair ==
  ASSUME NEW x, NEW y
  PROVE  IsFiniteSet({x, y})
<1>1. {x, y} = {x} \cup {y}
  OBVIOUS
<1>2. IsFiniteSet({x}) /\ IsFiniteSet({y})
  BY FS_Singleton
<1>3. IsFiniteSet({x} \cup {y})
  BY <1>2, FS_Union
<1> QED
  BY <1>1, <1>3

LEMMA CompanyFile ==
  ASSUME NEW says
  PROVE  OfFile(CompanySnippets(says), 4)
<1> DEFINE part(n, id, title, weight) == Snippet(<<4, n, 0>>, <<"company", id>>, title, {}, None, "all", weight, 1)
           about == part(1, "about", {"about", "company", "location"}, 22)
           contact == part(2, "contact", {"contact", "hours", "call"}, 23)
           learning == part(3, "learning", {"online", "class", "certificate"}, 20)
           social == part(4, "social", {"link", "url"}, 20)
<1>1. CompanySnippets(says) \in SUBSET {about, contact, learning, social}
  BY DEF CompanySnippets
<1>2. /\ IsSnippet(about) /\ about.place = <<4, 1, 0>>
      /\ IsSnippet(contact) /\ contact.place = <<4, 2, 0>>
      /\ IsSnippet(learning) /\ learning.place = <<4, 3, 0>>
      /\ IsSnippet(social) /\ social.place = <<4, 4, 0>>
  <2>1. \A n \in 1..4, weight \in 20..23 : \A id, title :
           /\ IsSnippet(part(n, id, title, weight))
           /\ part(n, id, title, weight).place = <<4, n, 0>>
    BY SnippetFields DEF IsSnippet
  <2> HIDE DEF part
  <2> QED
    BY <2>1
<1> HIDE DEF about, contact, learning, social
<1>3. IsFiniteSet({about, contact, learning, social})
  <2>1. {about, contact, learning, social} = {about, contact} \cup {learning, social}
    OBVIOUS
  <2>2. IsFiniteSet({about, contact} \cup {learning, social})
    BY FinitePair, FS_Union
  <2> QED
    BY <2>1, <2>2
<1>4. IsFiniteSet(CompanySnippets(says))
  BY <1>1, <1>3, FS_Subset
<1> QED
  BY <1>1, <1>2, <1>4 DEF OfFile

LEMMA PlacementFile ==
  ASSUME NEW says
  PROVE  OfFile(PlacementSnippets(says), 5)
<1> DEFINE part(n, id, title, weight) == Snippet(<<5, n, 0>>, <<"placements", id>>, title, {}, None, "all", weight, 1)
           support == part(1, "support", {"placement", "job", "salary"}, 22)
           salary == part(2, "salary", {"salary", "pay"}, 20)
<1>1. PlacementSnippets(says) \in SUBSET {support, salary}
  BY DEF PlacementSnippets
<1>2. /\ IsSnippet(support) /\ support.place = <<5, 1, 0>>
      /\ IsSnippet(salary) /\ salary.place = <<5, 2, 0>>
  <2>1. \A n \in 1..2, weight \in 20..23 : \A id, title :
           /\ IsSnippet(part(n, id, title, weight))
           /\ part(n, id, title, weight).place = <<5, n, 0>>
    BY SnippetFields DEF IsSnippet
  <2> HIDE DEF part
  <2> QED
    BY <2>1
<1> HIDE DEF support, salary
<1>3. IsFiniteSet({support, salary})
  BY FinitePair
<1>4. IsFiniteSet(PlacementSnippets(says))
  BY <1>1, <1>3, FS_Subset
<1> QED
  BY <1>1, <1>2, <1>4 DEF OfFile

(***************************************************************************)
(* What every knowledge base loaded is like.                               *)
(***************************************************************************)
Distinct(S) ==
    /\ IsFiniteSet(S)
    /\ \A s \in S : IsSnippet(s)
    /\ \A s, t \in S : s.place = t.place => s = t

IsCatalogue(courses) ==
    /\ IsFiniteSet(DOMAIN courses) /\ DOMAIN courses \subseteq Nat
    /\ \A i \in DOMAIN courses :
          /\ courses[i].slug # None
          /\ IdentityTerms(courses[i]) \subseteq DOMAIN TermLength \ {""}
          /\ IsFiniteSet(courses[i].keywords) /\ courses[i].keywords \subseteq DOMAIN TermLength

IsKB(k) == IsCatalogue(k.courses) /\ Distinct(k.snippets)

LEMMA FilesApart ==
  ASSUME NEW S, Distinct(S), NEW n \in Nat, \A s \in S : s.place[1] < n,
         NEW T, OfFile(T, n)
  PROVE  Distinct(S \cup T) /\ \A s \in S \cup T : s.place[1] < n + 1
<1>1. IsFiniteSet(S \cup T)
  BY FS_Union DEF Distinct, OfFile
<1>2. \A s \in S \cup T : IsSnippet(s) /\ s.place[1] < n + 1
  <2>1. \A s \in S : s.place[1] \in Nat
    BY DEF Distinct, IsSnippet
  <2> QED
    BY <2>1 DEF Distinct, OfFile
<1>3. ASSUME NEW s \in S \cup T, NEW t \in S \cup T, s.place = t.place PROVE s = t
  <2>1. \A u \in S : u.place[1] \in Nat /\ u.place[1] < n
    BY DEF Distinct, IsSnippet
  <2>2. \A u \in T : u.place[1] = n
    BY DEF OfFile
  <2>3. s \in S <=> t \in S
    BY <1>3, <2>1, <2>2
  <2> QED
    BY <1>3, <2>3 DEF Distinct, OfFile
<1> QED
  BY <1>1, <1>2, <1>3 DEF Distinct

LEMMA EmptyIsKB == IsKB(NotLoaded)
<1>1. DOMAIN NotLoaded.courses = {} /\ NotLoaded.snippets = {}
  BY DEF NotLoaded
<1> QED
  BY <1>1, FS_EmptySet DEF IsKB, IsCatalogue, Distinct

LEMMA ListLength ==
  ASSUME NEW list, IsList(list)
  PROVE  Len(list) \in Nat /\ DOMAIN list = 1..Len(list)
BY DEF IsList

Readable(d) == "broken" \notin {d.courses.state, d.faqs.state, d.policies.state, d.company.state, d.placements.state}

LEMMA FilesLoaded ==
  ASSUME NEW d \in Directories, Readable(d)
  PROVE  LET courses == CoursesIn(Body(d.courses))
         IN  /\ IsCatalogue(courses)
             /\ OfFile(CourseSnippets(courses), 1)
             /\ OfFile(FaqSnippets(Body(d.faqs)), 2)
             /\ OfFile(PolicySnippets(Body(d.policies)), 3)
             /\ OfFile(CompanySnippets(Body(d.company)), 4)
             /\ OfFile(PlacementSnippets(Body(d.placements)), 5)
<1> DEFINE courses == CoursesIn(Body(d.courses))
<1>1. IsDirectory(d)
  BY AnsweringAssumption
<1>2. Len(Body(d.courses)) \in Nat /\ \A i \in 1..Len(Body(d.courses)) : IsCourse(Body(d.courses)[i])
  BY <1>1, ListLength DEF IsDirectory, Readable
<1>3. \A file \in {d.faqs, d.policies} :
         Len(Body(file)) \in Nat /\ \A g \in 1..Len(Body(file)) : Len(Body(file)[g].entries) \in Nat
  BY <1>1, ListLength DEF IsDirectory, Readable
<1>4. IsCatalogue(courses)
  <2>1. DOMAIN courses \subseteq 1..Len(Body(d.courses))
    BY DEF CoursesIn
  <2>2. IsFiniteSet(DOMAIN courses) /\ DOMAIN courses \subseteq Nat
    BY <1>2, <2>1, Indices
  <2>3. \A i \in DOMAIN courses : IsCourse(courses[i]) /\ courses[i].words # {}
    BY <1>2 DEF CoursesIn
  <2> QED
    BY <2>2, <2>3 DEF IsCatalogue, IsCourse
<1>5. OfFile(CourseSnippets(courses), 1)
  BY <1>4, CourseFile DEF IsCatalogue
<1>6. OfFile(FaqSnippets(Body(d.faqs)), 2) /\ OfFile(PolicySnippets(Body(d.policies)), 3)
  BY <1>3, FaqFile, PolicyFile
<1>7. OfFile(CompanySnippets(Body(d.company)), 4) /\ OfFile(PlacementSnippets(Body(d.placements)), 5)
  BY CompanyFile, PlacementFile
<1> QED
  BY <1>4, <1>5, <1>6, <1>7

LEMMA LoadIsKB ==
  ASSUME NEW d \in Directories
  PROVE  IsKB(Load(d)) /\ (Load(d).loaded \/ Load(d) = NotLoaded)
<1> DEFINE courses == CoursesIn(Body(d.courses))
           snippets == CourseSnippets(courses) \cup FaqSnippets(Body(d.faqs)) \cup PolicySnippets(Body(d.policies))
                       \cup CompanySnippets(Body(d.company)) \cup PlacementSnippets(Body(d.placements))
<1>1. CASE ~Readable(d)
  BY <1>1, EmptyIsKB DEF Load, Readable
<1>2. CASE Readable(d)
  <2>1. Load(d) = [loaded |-> TRUE, courses |-> courses, snippets |-> snippets]
    BY <1>2 DEF Load, Readable
  <2>2. IsCatalogue(courses)
    BY <1>2, FilesLoaded
  <2>3. OfFile(CourseSnippets(courses), 1)
    BY <1>2, FilesLoaded
  <2>4. OfFile(FaqSnippets(Body(d.faqs)), 2) /\ OfFile(PolicySnippets(Body(d.policies)), 3)
    BY <1>2, FilesLoaded
  <2>5. OfFile(CompanySnippets(Body(d.company)), 4) /\ OfFile(PlacementSnippets(Body(d.placements)), 5)
    BY <1>2, FilesLoaded
  <2>6. Distinct(snippets)
    <3> DEFINE A == CourseSnippets(courses)
               B == A \cup FaqSnippets(Body(d.faqs))
               C == B \cup PolicySnippets(Body(d.policies))
               D == C \cup CompanySnippets(Body(d.company))
    <3>1. Distinct(A) /\ \A s \in A : s.place[1] < 2
      BY <2>3 DEF OfFile, Distinct
    <3> HIDE DEF A
    <3>2. Distinct(B) /\ \A s \in B : s.place[1] < 3
      <4>1. Distinct(B) /\ \A s \in B : s.place[1] < 2 + 1
        BY <2>4, <3>1, FilesApart
      <4> QED
        BY <4>1
    <3> HIDE DEF B
    <3>3. Distinct(C) /\ \A s \in C : s.place[1] < 4
      <4>1. Distinct(C) /\ \A s \in C : s.place[1] < 3 + 1
        BY <2>4, <3>2, FilesApart
      <4> QED
        BY <4>1
    <3> HIDE DEF C
    <3>4. Distinct(D) /\ \A s \in D : s.place[1] < 5
      <4>1. Distinct(D) /\ \A s \in D : s.place[1] < 4 + 1
        BY <2>5, <3>3, FilesApart
      <4> QED
        BY <4>1
    <3> HIDE DEF D
    <3>5. Distinct(D \cup PlacementSnippets(Body(d.placements)))
      BY <2>5, <3>4, FilesApart
    <3> QED
      BY <3>5 DEF A, B, C, D
  <2> HIDE DEF courses, snippets
  <2> QED
    BY <2>1, <2>2, <2>6 DEF IsKB
<1> QED
  BY <1>1, <1>2

(***************************************************************************)
(* Look-ups.                                                               *)
(***************************************************************************)
LEMMA BeforeOrders ==
  /\ \A p, q \in Nat \X Nat \X Nat : p = q \/ Before(p, q) \/ Before(q, p)
  /\ \A p, q \in Nat \X Nat \X Nat : Before(p, q) => ~Before(q, p) /\ p # q
  /\ \A p, q, r \in Nat \X Nat \X Nat : Before(p, q) /\ Before(q, r) => Before(p, r)
<1> SUFFICES ASSUME NEW p \in Nat \X Nat \X Nat, NEW q \in Nat \X Nat \X Nat, NEW r \in Nat \X Nat \X Nat
             PROVE  /\ p = q \/ Before(p, q) \/ Before(q, p)
                    /\ Before(p, q) => ~Before(q, p) /\ p # q
                    /\ Before(p, q) /\ Before(q, r) => Before(p, r)
  OBVIOUS
<1>1. \A i \in 1..3 : p[i] \in Nat /\ q[i] \in Nat /\ r[i] \in Nat
  OBVIOUS
<1>2. p = <<p[1], p[2], p[3]>> /\ q = <<q[1], q[2], q[3]>>
  OBVIOUS
<1>3. p = q <=> p[1] = q[1] /\ p[2] = q[2] /\ p[3] = q[3]
  BY <1>2
<1> QED
  BY <1>1, <1>3 DEF Before

\* What is found under an id has that id.
LEMMA SnippetFound ==
  ASSUME NEW k, Distinct(k.snippets), NEW id
  PROVE  LET s == GetSnippet(k, id)
         IN  /\ s # Absent => s \in k.snippets /\ s.id = id
             /\ s = Absent <=> \A t \in k.snippets : t.id # id
<1> DEFINE found == {s \in k.snippets : s.id = id}
           R == {p \in found \X found : Before(p[1].place, p[2].place)}
<1>1. CASE found = {}
  BY <1>1 DEF GetSnippet
<1>2. CASE found # {}
  <2>1. \A s \in found : s.place \in Nat \X Nat \X Nat /\ s # Absent
    BY DEF Distinct, IsSnippet
  <2>2. \A s, t \in found : s.place = t.place => s = t
    BY DEF Distinct
  <2>3. IsFiniteSet(found)
    BY FS_Subset DEF Distinct
  <2>4. \A s, t \in found : <<s, t>> \in R <=> Before(s.place, t.place)
    OBVIOUS
  <2> HIDE DEF R, found
  <2>5. \A s, t \in found : s = t \/ <<s, t>> \in R \/ <<t, s>> \in R
    BY <2>1, <2>2, <2>4, BeforeOrders
  <2>6. \A s, t, u \in found : <<s, t>> \in R /\ <<t, u>> \in R => <<s, u>> \in R
    BY <2>1, <2>4, BeforeOrders
  <2>7. PICK s \in found : \A t \in found \ {s} : <<t, s>> \in R
    BY <1>2, <2>3, <2>5, <2>6, LastOf
  <2>8. \A t \in found \ {s} : Before(t.place, s.place)
    BY <2>4, <2>7
  <2>9. GetSnippet(k, id) \in found
    BY <1>2, <2>8 DEF GetSnippet, found
  <2> QED
    BY <1>2, <2>1, <2>9 DEF found
<1> QED
  BY <1>1, <1>2

\* A faqs.json of one layout, in which no id is given twice; most entries have none.
TidyFaqs(directory) ==
    directory.faqs.state # "broken" =>
        LET faqs == Body(directory.faqs)
            lists == {g \in 1..Len(faqs) : faqs[g].list}
        IN  /\ (\E g \in lists : faqs[g].key = "faqs") => \A g \in lists : faqs[g].key = "faqs"
            /\ \A g, h \in lists : \A i \in 1..Len(faqs[g].entries), j \in 1..Len(faqs[h].entries) :
                  faqs[g].entries[i].id # None /\ faqs[g].entries[i].id = faqs[h].entries[j].id => g = h /\ i = j

\* The lists of such a file with their entries, each of which has a snippet of its own id.
LEMMA TidyGroups ==
  ASSUME NEW d \in Directories, TidyFaqs(d), d.faqs.state # "broken",
         NEW e \in UNION {ToSet(g.entries) : g \in {g \in ToSet(Body(d.faqs)) : g.list}},
         e.question # {}, e.answer # {}
  PROVE  \E own \in FaqSnippets(Body(d.faqs)) :
            /\ own.body = e.answer /\ e.question \subseteq own.title
            /\ own.audience = AudienceOf(e.audience) /\ own.weight = 22
            /\ own.id[1] \in {"given", "faq"}
            /\ \A t \in FaqSnippets(Body(d.faqs)) : t.id = own.id => t = own
<1> DEFINE faqs == Body(d.faqs)
           category(g) == {faqs[g].key} \ {"faqs"}
           id(x, g, i) == IF x.id # None THEN <<"given", x.id>> ELSE <<"faq", category(g), i - 1>>
           of(x, g, i) == Snippet(<<2, g, i>>, id(x, g, i), x.question \cup x.keywords \cup category(g), x.answer,
                                  x.course, AudienceOf(x.audience), 22, x.size)
           valid(es) == {i \in 1..Len(es) : es[i].question # {} /\ es[i].answer # {}}
           entry(g, i) == of(faqs[g].entries[i], g, i)
           groups == Grouped(faqs, "faqs")
           lists == {g \in 1..Len(faqs) : faqs[g].list}
<1>1. IsList(faqs) /\ \A g \in 1..Len(faqs) : IsList(faqs[g].entries)
  BY AnsweringAssumption DEF IsDirectory
<1>2. \A g, h \in 1..Len(faqs) : faqs[g].key = faqs[h].key => g = h
  BY AnsweringAssumption DEF IsDirectory
<1>3. /\ (\E g \in lists : faqs[g].key = "faqs") => \A g \in lists : faqs[g].key = "faqs"
      /\ \A g, h \in lists : \A i \in 1..Len(faqs[g].entries), j \in 1..Len(faqs[h].entries) :
            faqs[g].entries[i].id # None /\ faqs[g].entries[i].id = faqs[h].entries[j].id => g = h /\ i = j
  BY DEF TidyFaqs
<1>4. groups = lists
  BY <1>3 DEF Grouped
<1>5. FaqSnippets(faqs) = UNION {{entry(g, i) : i \in valid(faqs[g].entries)} : g \in groups}
  BY DEF FaqSnippets
<1>6. PICK g \in lists : \E i \in 1..Len(faqs[g].entries) : e = faqs[g].entries[i]
  <2>1. PICK x \in ToSet(faqs) : x.list /\ e \in ToSet(x.entries)
    OBVIOUS
  <2>2. PICK g \in 1..Len(faqs) : x = faqs[g]
    BY <1>1, <2>1, ListLength DEF ToSet
  <2>3. PICK i \in 1..Len(faqs[g].entries) : e = faqs[g].entries[i]
    BY <1>1, <2>1, <2>2, ListLength DEF ToSet
  <2> QED
    BY <2>1, <2>2, <2>3
<1>7. PICK i \in 1..Len(faqs[g].entries) : e = faqs[g].entries[i]
  BY <1>6
<1>8. \A x, h, j : /\ of(x, h, j).body = x.answer /\ x.question \subseteq of(x, h, j).title
                  /\ of(x, h, j).audience = AudienceOf(x.audience) /\ of(x, h, j).weight = 22
                  /\ of(x, h, j).id = id(x, h, j)
  BY DEF Snippet
<1>9. \A x, h, j : id(x, h, j)[1] \in {"given", "faq"}
  OBVIOUS
<1>10. ASSUME NEW h \in lists, NEW j \in 1..Len(faqs[h].entries), id(faqs[h].entries[j], h, j) = id(e, g, i)
      PROVE  h = g /\ j = i
  <2>1. CASE e.id # None
    <3>1. faqs[h].entries[j].id = e.id
      BY <1>10, <2>1
    <3> QED
      BY <1>3, <1>7, <2>1, <3>1
  <2>2. CASE e.id = None
    <3>1. category(h) = category(g) /\ j - 1 = i - 1
      BY <1>10, <2>2
    <3>2. faqs[h].key = faqs[g].key
      <4>1. ASSUME NEW a, NEW b, {a} \ {"faqs"} = {b} \ {"faqs"} PROVE a = b
        <5>1. CASE a = "faqs"
          <6>1. b \notin {b} \ {"faqs"}
            BY <4>1, <5>1
          <6> QED
            BY <5>1, <6>1
        <5>2. CASE a # "faqs"
          <6>1. a \in {b} \ {"faqs"}
            BY <4>1, <5>2
          <6> QED
            BY <6>1
        <5> QED
          BY <5>1, <5>2
      <4> QED
        BY <3>1, <4>1
    <3>3. g = h
      BY <1>2, <3>2
    <3>4. Len(faqs[g].entries) \in Nat
      BY <1>1, ListLength
    <3> QED
      BY <3>1, <3>3, <3>4
  <2> QED
    BY <2>1, <2>2
<1> HIDE DEF of, id
<1>11. entry(g, i) \in FaqSnippets(faqs)
  BY <1>4, <1>5, <1>6, <1>7, SMTT(30)
<1>12. ASSUME NEW t \in FaqSnippets(faqs), t.id = entry(g, i).id PROVE t = entry(g, i)
  <2>1. PICK h \in lists : \E j \in 1..Len(faqs[h].entries) : t = entry(h, j)
    BY <1>4, <1>5
  <2>2. PICK j \in 1..Len(faqs[h].entries) : t = entry(h, j)
    BY <2>1
  <2>3. id(faqs[h].entries[j], h, j) = id(e, g, i)
    BY <1>7, <1>8, <1>12, <2>2
  <2> QED
    BY <1>7, <1>10, <2>2, <2>3
<1> WITNESS entry(g, i) \in FaqSnippets(Body(d.faqs))
<1> QED
  BY <1>7, <1>8, <1>9, <1>12

\* An entry of such a file is found in the knowledge base under its own id.
LEMMA FaqLoaded ==
  ASSUME NEW d \in Directories, TidyFaqs(d), Load(d).loaded,
         NEW e \in UNION {ToSet(g.entries) : g \in {g \in ToSet(Body(d.faqs)) : g.list}},
         e.question # {}, e.answer # {}
  PROVE  \E own \in Load(d).snippets :
            /\ own.body = e.answer /\ e.question \subseteq own.title
            /\ own.audience = AudienceOf(e.audience) /\ own.weight = 22
            /\ GetSnippet(Load(d), own.id) = own
<1> DEFINE courses == CoursesIn(Body(d.courses))
           faqs == FaqSnippets(Body(d.faqs))
           others == CourseSnippets(courses) \cup PolicySnippets(Body(d.policies))
                     \cup CompanySnippets(Body(d.company)) \cup PlacementSnippets(Body(d.placements))
<1>1. Readable(d) /\ d.faqs.state # "broken"
  BY DEF Load, NotLoaded, Readable
<1>2. Load(d).snippets = faqs \cup others
  BY <1>1 DEF Load, Readable
<1>3. Distinct(Load(d).snippets)
  BY LoadIsKB DEF IsKB
<1>4. PICK own \in faqs :
            /\ own.body = e.answer /\ e.question \subseteq own.title
            /\ own.audience = AudienceOf(e.audience) /\ own.weight = 22
            /\ own.id[1] \in {"given", "faq"}
            /\ \A t \in faqs : t.id = own.id => t = own
  BY <1>1, TidyGroups
<1>5. \A t \in others : t.place[1] # 2
  BY <1>1, FilesLoaded DEF OfFile
<1> HIDE DEF faqs, others
<1>6. ASSUME NEW t \in Load(d).snippets, t.id = own.id PROVE t = own
  <2>1. t.place[1] = 2
    BY <1>3, <1>4, <1>6 DEF Distinct, IsSnippet
  <2> QED
    BY <1>2, <1>4, <1>5, <1>6, <2>1
<1>7. own \in Load(d).snippets
  BY <1>2, <1>4
<1>8. GetSnippet(Load(d), own.id) = own
  BY <1>3, <1>6, <1>7, SnippetFound
<1> QED
  BY <1>4, <1>7, <1>8

(***************************************************************************)
(* Retrieval.                                                              *)
(***************************************************************************)
LEMMA LexicalIsNumber ==
  ASSUME NEW k, NEW s, NEW query, IsFiniteSet(query)
  PROVE  Lexical(k, s, query) \in Nat
<1> DEFINE indexed == GetSnippet(k, s.id)
<1>1. Cardinality(query \cap indexed.title) \in Nat /\ Cardinality(query \cap indexed.body) \in Nat
  BY FS_Intersection, FS_CardinalityType
<1> HIDE DEF indexed
<1>2. 3 * Cardinality(query \cap indexed.title) + Cardinality(query \cap indexed.body) \in Nat
  BY <1>1
<1> QED
  BY <1>2 DEF Lexical, indexed

\* What is of the course asked about scores above what fits another's no better.
LEMMA ScoreFacts ==
  ASSUME NEW k, NEW s \in k.snippets, Distinct(k.snippets), NEW query, IsFiniteSet(query), NEW course
  PROVE  /\ Score(k, s, query, course) \in Nat
         /\ course # None /\ s.course = course => Score(k, s, query, course) > 0
         /\ \A t \in k.snippets :
               /\ course # None /\ s.course = course /\ t.course \notin {None, course}
               /\ Lexical(k, s, query) >= Lexical(k, t, query)
               => Score(k, s, query, course) > Score(k, t, query, course)
<1>1. \A t \in k.snippets : t.weight \in 20..24 /\ Lexical(k, t, query) \in Nat
  BY LexicalIsNumber DEF Distinct, IsSnippet
<1>2. Score(k, s, query, course) \in Nat
  <2> DEFINE h == Lexical(k, s, query)
             w == s.weight
  <2>1. h \in Nat /\ w \in 20..24
    BY <1>1
  <2>2. Score(k, s, query, course) \in {w * (100 * h), w * (55 * h), w * (180 * h + 50), w * (35 * h)}
    BY DEF Score
  <2> HIDE DEF h, w
  <2>3. \A x, y \in Nat : x * y \in Nat
    OBVIOUS
  <2>4. {w * (100 * h), w * (55 * h), w * (180 * h + 50), w * (35 * h)} \subseteq Nat
    BY <2>1, <2>3
  <2> QED
    BY <2>2, <2>4
<1>3. \A x \in 20..24, y \in Nat : x * y >= 20 * y /\ x * y <= 24 * y
  <2>1. \A y \in Nat : \A x \in {20, 21, 22, 23, 24} : x * y >= 20 * y /\ x * y <= 24 * y
    OBVIOUS
  <2>2. 20..24 = {20, 21, 22, 23, 24}
    OBVIOUS
  <2> QED
    BY <2>1, <2>2
<1>4. ASSUME course # None, s.course = course
      PROVE  LET h == Lexical(k, s, query)
             IN  /\ h \in Nat
                 /\ Score(k, s, query, course) >= 20 * (180 * h + 50)
  <2> DEFINE h == Lexical(k, s, query)
  <2>1. Score(k, s, query, course) = s.weight * (180 * h + 50)
    BY <1>4 DEF Score
  <2>2. h \in Nat /\ 180 * h + 50 \in Nat
    BY <1>1
  <2> HIDE DEF h
  <2>3. s.weight * (180 * h + 50) >= 20 * (180 * h + 50)
    BY <1>1, <1>3, <2>2
  <2> QED
    BY <2>1, <2>2, <2>3 DEF h
<1>5. course # None /\ s.course = course => Score(k, s, query, course) > 0
  <2> SUFFICES ASSUME course # None, s.course = course PROVE Score(k, s, query, course) > 0
    OBVIOUS
  <2> DEFINE h == Lexical(k, s, query)
  <2>1. h \in Nat /\ Score(k, s, query, course) >= 20 * (180 * h + 50)
    BY <1>4
  <2> HIDE DEF h
  <2> QED
    BY <1>2, <2>1
<1>6. ASSUME NEW t \in k.snippets, course # None, s.course = course, t.course \notin {None, course},
             Lexical(k, s, query) >= Lexical(k, t, query)
      PROVE  Score(k, s, query, course) > Score(k, t, query, course)
  <2> DEFINE h == Lexical(k, s, query)
             l == Lexical(k, t, query)
  <2>1. h \in Nat /\ Score(k, s, query, course) >= 20 * (180 * h + 50)
    BY <1>4, <1>6
  <2>2. Score(k, t, query, course) = t.weight * (35 * l)
    BY <1>6 DEF Score
  <2>3. l \in Nat /\ l <= h
    BY <1>1, <1>6
  <2> HIDE DEF h, l
  <2>4. t.weight * (35 * l) \in Nat /\ t.weight * (35 * l) <= 24 * (35 * l)
    <3>1. 35 * l \in Nat
      BY <2>3
    <3> QED
      BY <1>1, <1>3, <3>1
  <2>5. 24 * (35 * l) < 20 * (180 * h + 50)
    BY <2>1, <2>3
  <2> QED
    BY <1>2, <2>1, <2>2, <2>3, <2>4, <2>5
<1> QED
  BY <1>2, <1>5, <1>6

\* With no course in scope, whose title has all the words asked for scores a quarter of the best.
LEMMA TitleScores ==
  ASSUME NEW k, Distinct(k.snippets), NEW query, IsFiniteSet(query), query # {},
         NEW own \in k.snippets, GetSnippet(k, own.id) = own, own.weight = 22, query \subseteq own.title
  PROVE  /\ Score(k, own, query, None) > 0
         /\ \A s \in k.snippets : Score(k, s, query, None) <= 4 * Score(k, own, query, None)
<1> DEFINE c == Cardinality(query)
           h == Lexical(k, own, query)
<1>1. c \in Nat /\ c > 0
  BY FS_CardinalityType, FS_EmptySet
<1>2. ASSUME NEW s \in k.snippets PROVE Lexical(k, s, query) \in Nat /\ Lexical(k, s, query) <= 4 * c
  <2> DEFINE indexed == GetSnippet(k, s.id)
             a == Cardinality(query \cap indexed.title)
             b == Cardinality(query \cap indexed.body)
  <2>1. a \in Nat /\ a <= c /\ b \in Nat /\ b <= c
    <3>1. query \cap indexed.title \in SUBSET query /\ query \cap indexed.body \in SUBSET query
      OBVIOUS
    <3> QED
      BY <3>1, FS_Subset, FS_CardinalityType
  <2>2. Lexical(k, s, query) = 3 * a + b
    BY DEF Lexical
  <2> HIDE DEF a, b, c
  <2> QED
    BY <1>1, <2>1, <2>2
<1>3. h >= 3 * c
  <2> DEFINE b == Cardinality(query \cap own.body)
  <2>1. query \cap own.title = query
    OBVIOUS
  <2>2. b \in Nat
    BY FS_Intersection, FS_CardinalityType
  <2>3. h = 3 * c + b
    BY <2>1 DEF Lexical
  <2> HIDE DEF b, c, h
  <2> QED
    BY <1>1, <2>2, <2>3
<1>4. h \in Nat
  BY <1>2
<1>5. Score(k, own, query, None) >= 22 * (55 * h) /\ Score(k, own, query, None) \in Nat
  <2>1. Score(k, own, query, None) = 22 * (100 * h) \/ Score(k, own, query, None) = 22 * (55 * h)
    BY DEF Score
  <2> HIDE DEF h
  <2> QED
    BY <1>4, <2>1
<1>6. ASSUME NEW s \in k.snippets PROVE Score(k, s, query, None) <= 9200 * c /\ Score(k, s, query, None) \in Nat
  <2> DEFINE l == Lexical(k, s, query)
  <2>1. l \in Nat /\ l <= 4 * c
    BY <1>2
  <2>2. s.weight \in 20..24 /\ (s.course = None => s.weight <= 23)
    BY DEF Distinct, IsSnippet
  <2>3. Score(k, s, query, None) = s.weight * (IF s.course = None THEN 100 * l ELSE 55 * l)
    BY DEF Score
  <2> HIDE DEF l, c
  <2>4. CASE s.course = None
    <3>1. s.weight \in {20, 21, 22, 23} /\ Score(k, s, query, None) = s.weight * (100 * l)
      BY <2>2, <2>3, <2>4
    <3> QED
      BY <1>1, <2>1, <3>1
  <2>5. CASE s.course # None
    <3>1. s.weight \in {20, 21, 22, 23, 24} /\ Score(k, s, query, None) = s.weight * (55 * l)
      BY <2>2, <2>3, <2>5
    <3> QED
      BY <1>1, <2>1, <3>1
  <2> QED
    BY <2>4, <2>5
<1> HIDE DEF c, h
<1>7. 4 * Score(k, own, query, None) >= 9200 * c /\ Score(k, own, query, None) > 0
  BY <1>1, <1>3, <1>4, <1>5
<1>8. ASSUME NEW s \in k.snippets PROVE Score(k, s, query, None) <= 4 * Score(k, own, query, None)
  BY <1>1, <1>5, <1>6, <1>7
<1> QED
  BY <1>7, <1>8

\* Every snippet scored has a place of its own, before those it is ahead of.
LEMMA PlaceFacts ==
  ASSUME NEW D, Distinct(D), NEW score \in [D -> Int]
  PROVE  /\ \A s \in D : Place(score, s) \in 1..Cardinality(D)
         /\ \A s, t \in D : Ahead(score, s, t) => Place(score, s) < Place(score, t)
         /\ \A s, t \in D : s = t \/ Ahead(score, s, t) \/ Ahead(score, t, s)
<1> DEFINE A(s) == {t \in D : Ahead(score, t, s)}
<1>1. \A s \in D : score[s] \in Int /\ s.place \in Nat \X Nat \X Nat
  BY DEF Distinct, IsSnippet
<1>2. \A s, t \in D : s.place = t.place => s = t
  BY DEF Distinct
<1>3. \A s \in D : Place(score, s) = 1 + Cardinality(A(s)) /\ A(s) \in SUBSET D
  BY DEF Place
<1>4. \A s, t \in D : s = t \/ Ahead(score, s, t) \/ Ahead(score, t, s)
  BY <1>1, <1>2, BeforeOrders DEF Ahead
<1>5. \A s \in D : ~Ahead(score, s, s)
  BY <1>1, BeforeOrders DEF Ahead
<1>6. \A s, t, u \in D : Ahead(score, s, t) /\ Ahead(score, t, u) => Ahead(score, s, u)
  BY <1>1, BeforeOrders DEF Ahead
<1>7. IsFiniteSet(D) /\ Cardinality(D) \in Nat
  BY FS_CardinalityType DEF Distinct
<1>8. ASSUME NEW s \in D PROVE Place(score, s) \in 1..Cardinality(D)
  <2>1. A(s) \in SUBSET (D \ {s})
    BY <1>5
  <2>2. IsFiniteSet(D \ {s}) /\ Cardinality(D \ {s}) = Cardinality(D) - 1
    BY <1>7, FS_RemoveElement
  <2> HIDE DEF A
  <2>3. Cardinality(A(s)) \in Nat /\ Cardinality(A(s)) <= Cardinality(D) - 1
    BY <2>1, <2>2, FS_Subset, FS_CardinalityType
  <2> QED
    BY <1>3, <1>7, <2>3
<1>9. ASSUME NEW s \in D, NEW t \in D, Ahead(score, s, t) PROVE Place(score, s) < Place(score, t)
  <2>1. A(s) \cup {s} \in SUBSET A(t)
    BY <1>6, <1>9
  <2>2. s \notin A(s)
    BY <1>5
  <2> HIDE DEF A
  <2>3. IsFiniteSet(A(s)) /\ IsFiniteSet(A(t))
    BY <1>3, <1>7, FS_Subset
  <2>4. IsFiniteSet(A(s) \cup {s}) /\ Cardinality(A(s) \cup {s}) = Cardinality(A(s)) + 1
    BY <2>2, <2>3, FS_AddElement
  <2>5. Cardinality(A(s) \cup {s}) <= Cardinality(A(t))
    BY <2>1, <2>3, FS_Subset
  <2>6. Cardinality(A(s)) \in Nat /\ Cardinality(A(t)) \in Nat
    BY <2>3, FS_CardinalityType
  <2> QED
    BY <1>3, <2>4, <2>5, <2>6
<1> QED
  BY <1>4, <1>8, <1>9

LEMMA RankedFacts ==
  ASSUME NEW D, Distinct(D), NEW score \in [D -> Int]
  PROVE  LET ranked == Ranked(score)
         IN  /\ Cardinality(D) \in Nat
             /\ ranked \in [1..Cardinality(D) -> D]
             /\ \A n \in 1..Cardinality(D) : Place(score, ranked[n]) = n
             /\ \A s \in D : ranked[Place(score, s)] = s
<1> DEFINE c == Cardinality(D)
           f == [s \in D |-> Place(score, s)]
<1>1. IsFiniteSet(D) /\ c \in Nat
  BY FS_CardinalityType DEF Distinct
<1>2. f \in [D -> 1..c]
  BY PlaceFacts
<1>3. ASSUME NEW s \in D, NEW t \in D, Place(score, s) = Place(score, t) PROVE s = t
  <2>1. Place(score, s) \in 1..c /\ Place(score, t) \in 1..c
    BY PlaceFacts
  <2>2. ~Ahead(score, s, t) /\ ~Ahead(score, t, s)
    BY <1>1, <1>3, <2>1, PlaceFacts
  <2> QED
    BY <2>2, PlaceFacts
<1>4. f \in Injection(D, 1..c)
  BY <1>2, <1>3 DEF Injection, IsInjective
<1>5. IsFiniteSet(1..c) /\ Cardinality(1..c) = c
  BY <1>1, FS_Interval
<1>6. f \in Surjection(D, 1..c)
  <2> HIDE DEF f
  <2> QED
    BY <1>1, <1>4, <1>5, FS_Injection
<1>7. \A n \in 1..c : \E s \in D : Place(score, s) = n
  BY <1>6 DEF Surjection
<1>8. \A n \in 1..c : Ranked(score)[n] = CHOOSE s \in D : Place(score, s) = n
  BY DEF Ranked
<1>9. \A n \in 1..c : Ranked(score)[n] \in D /\ Place(score, Ranked(score)[n]) = n
  BY <1>7, <1>8
<1>10. Ranked(score) \in [1..c -> D]
  BY <1>9 DEF Ranked
<1>11. \A s \in D : Ranked(score)[Place(score, s)] = s
  BY <1>3, <1>9, PlaceFacts
<1> QED
  BY <1>1, <1>9, <1>10, <1>11

\* The length of the first snippets is that of those before, and of the last of them.
LEMMA CharsSteps ==
  ASSUME NEW ranked, Len(ranked) \in Nat
  PROVE  /\ Chars(ranked, 0) = 0
         /\ \A n \in 1..Len(ranked) : Chars(ranked, n) = Chars(ranked, n - 1) + ranked[n].size
<1> DEFINE Step(f, i) == IF i = 0 THEN 0 ELSE f[i - 1] + ranked[i].size
           Exists(n) == \E f : f = [i \in 0..n |-> Step(f, i)]
           Missing == {n \in Nat : ~Exists(n)}
           upto == CHOOSE f : f = [i \in 0..Len(ranked) |-> Step(f, i)]
<1>1. Exists(0)
  <2> DEFINE g == [i \in 0..0 |-> Step(<<>>, i)]
  <2>1. g = [i \in 0..0 |-> Step(g, i)]
    OBVIOUS
  <2> QED
    BY <2>1
<1>2. ASSUME NEW n \in Nat, Exists(n) PROVE Exists(n + 1)
  <2>1. PICK f : f = [i \in 0..n |-> Step(f, i)]
    BY <1>2
  <2> DEFINE g == [i \in 0..n + 1 |-> Step(f, i)]
  <2>2. \A i \in 0..n : g[i] = f[i]
    <3> HIDE DEF Step
    <3>1. \A i \in 0..n : g[i] = Step(f, i)
      OBVIOUS
    <3>2. \A i \in 0..n : f[i] = Step(f, i)
      BY <2>1
    <3> QED
      BY <3>1, <3>2
  <2>3. \A i \in 0..n + 1 : Step(f, i) = Step(g, i)
    <3> HIDE DEF g
    <3> SUFFICES ASSUME NEW i \in 0..n + 1 PROVE Step(f, i) = Step(g, i)
      OBVIOUS
    <3>1. CASE i = 0
      BY <3>1
    <3>2. CASE i # 0
      BY <2>2, <3>2
    <3> QED
      BY <3>1, <3>2
  <2>4. g = [i \in 0..n + 1 |-> Step(g, i)]
    <3> HIDE DEF Step
    <3> QED
      BY <2>3
  <2> QED
    BY <2>4
<1>3. \A n \in Nat : Exists(n)
  <2> HIDE DEF Exists
  <2>1. SUFFICES ASSUME Missing # {} PROVE FALSE
    OBVIOUS
  <2>2. PICK n \in Missing : \A k \in Missing : n <= k
    BY <2>1, LeastNumber
  <2>3. n # 0 /\ n \in Nat
    BY <1>1, <2>2
  <2>4. n - 1 \in Nat /\ n - 1 \notin Missing
    BY <2>2, <2>3
  <2>5. Exists(n - 1 + 1)
    BY <1>2, <2>4
  <2> QED
    BY <2>2, <2>3, <2>5
<1>4. upto = [i \in 0..Len(ranked) |-> Step(upto, i)]
  BY <1>3
<1>5. \A n : Chars(ranked, n) = upto[n]
  BY DEF Chars
<1> HIDE DEF upto
<1>6. \A i \in 0..Len(ranked) : upto[i] = Step(upto, i)
  <2> HIDE DEF Step
  <2> QED
    BY <1>4
<1>7. ASSUME NEW n \in 1..Len(ranked) PROVE Chars(ranked, n) = Chars(ranked, n - 1) + ranked[n].size
  <2>1. n \in 0..Len(ranked) /\ n # 0
    OBVIOUS
  <2> QED
    BY <1>5, <1>6, <2>1
<1>8. Chars(ranked, 0) = 0
  <2>1. 0 \in 0..Len(ranked)
    OBVIOUS
  <2> QED
    BY <1>5, <1>6, <2>1
<1> QED
  BY <1>7, <1>8

\* It depends on nothing that follows.
LEMMA CharsAgree ==
  ASSUME NEW long, Len(long) \in Nat, NEW short, Len(short) \in Nat, Len(short) <= Len(long),
         \A i \in 1..Len(short) : short[i] = long[i]
  PROVE  Chars(short, Len(short)) = Chars(long, Len(short))
<1> DEFINE Differ == {n \in 0..Len(short) : Chars(short, n) # Chars(long, n)}
<1>1. SUFFICES ASSUME Differ # {} PROVE FALSE
  OBVIOUS
<1>2. PICK n \in Differ : \A k \in Differ : n <= k
  <2>1. Differ \in SUBSET Nat
    OBVIOUS
  <2> HIDE DEF Differ
  <2> QED
    BY <1>1, <2>1, LeastNumber
<1>3. Chars(short, 0) = 0 /\ Chars(long, 0) = 0
  BY CharsSteps
<1>4. n \in 1..Len(short) /\ n \in 1..Len(long)
  BY <1>2, <1>3
<1>5. n - 1 \in 0..Len(short) /\ n - 1 \notin Differ
  <2>1. n - 1 \in 0..Len(short) /\ ~(n <= n - 1)
    BY <1>4
  <2> HIDE DEF Differ
  <2> QED
    BY <1>2, <2>1
<1>6. Chars(short, n - 1) = Chars(long, n - 1)
  BY <1>5
<1>7. Chars(short, n) = Chars(short, n - 1) + short[n].size /\ Chars(long, n) = Chars(long, n - 1) + long[n].size
  BY <1>4, CharsSteps
<1> QED
  BY <1>2, <1>4, <1>6, <1>7

LEMMA SelectFacts ==
  ASSUME NEW D, Distinct(D), D # {}, NEW score \in [D -> Int], \A s \in D : score[s] > 0
  PROVE  LET chosen == Select(score)
         IN  /\ chosen \in Seq(D)
             /\ Len(chosen) \in 1..Limit /\ Len(chosen) <= Cardinality(D)
             /\ \A i \in 1..Len(chosen) : chosen[i] = Ranked(score)[i]
             /\ Len(chosen) < Limit /\ Len(chosen) < Cardinality(D) =>
                   LET next == Len(chosen) + 1
                   IN  \/ 4 * score[Ranked(score)[next]] < score[Ranked(score)[1]]
                       \/ Chars(Ranked(score), next) > MaxChars
<1> DEFINE ranked == Ranked(score)
           c == Cardinality(D)
           ends(n) == \/ n > Limit
                      \/ 4 * score[ranked[n]] < score[ranked[1]]
                      \/ n > 1 /\ Chars(ranked, n) > MaxChars
           ending == {n \in 1..Len(ranked) : ends(n)} \cup {Len(ranked) + 1}
           stop == Min(ending)
<1>1. c \in Nat \ {0}
  BY RankedFacts, FS_EmptySet DEF Distinct
<1>2. ranked \in [1..c -> D]
  BY RankedFacts
<1>3. Len(ranked) = c /\ ranked \in Seq(D)
  BY <1>1, <1>2
<1>4. Limit \in Nat \ {0}
  BY KnowledgeAssumption
<1>5. ~ends(1)
  <2>1. score[ranked[1]] \in Int /\ score[ranked[1]] > 0
    BY <1>1, <1>2
  <2> HIDE DEF ranked
  <2> QED
    BY <1>4, <2>1
<1>6. Select(score) = SubSeq(ranked, 1, stop - 1)
  BY DEF Select
<1>7. ending \in SUBSET Nat /\ c + 1 \in ending
  BY <1>1, <1>3
<1>8. 1 \notin ending
  BY <1>1, <1>3, <1>5
<1>9. Limit + 1 <= c => Limit + 1 \in ending
  BY <1>1, <1>3, <1>4
<1> HIDE DEF ending, ends, ranked
<1>10. stop \in ending /\ \A n \in ending : stop <= n
  BY <1>7, MinIsLeast
<1>11. stop \in Nat /\ stop # 0 /\ stop # 1 /\ stop <= c + 1
  <2>1. 0 \notin ending
    BY <1>1, <1>3 DEF ending
  <2> QED
    BY <1>7, <1>8, <1>10, <2>1
<1>12. stop <= Limit + 1
  BY <1>1, <1>4, <1>9, <1>10, <1>11
<1> HIDE DEF stop, c
<1>13. stop - 1 \in 1..Limit /\ stop - 1 <= c
  BY <1>1, <1>4, <1>11, <1>12
<1>14. \A i \in 1..stop - 1 : ranked[i] \in D
  BY <1>1, <1>2, <1>13
<1>15. /\ SubSeq(ranked, 1, stop - 1) \in Seq(D)
       /\ Len(SubSeq(ranked, 1, stop - 1)) = stop - 1
       /\ \A i \in 1..stop - 1 : SubSeq(ranked, 1, stop - 1)[i] = ranked[i]
  <2>1. stop - 1 \in Int /\ 1 <= stop - 1 /\ stop - 1 - 1 + 1 = stop - 1
    BY <1>4, <1>13
  <2>2. \A i \in 1..stop - 1 : 1 + i - 1 = i
    BY <2>1
  <2> QED
    BY <1>14, <2>1, <2>2, SubSeqProperties
<1>16. ASSUME stop - 1 < Limit, stop - 1 < c
       PROVE  4 * score[ranked[stop]] < score[ranked[1]] \/ Chars(ranked, stop) > MaxChars
  <2>1. stop # Len(ranked) + 1 /\ ~(stop > Limit)
    BY <1>1, <1>3, <1>4, <1>11, <1>13, <1>16 DEF c
  <2> QED
    BY <1>10, <2>1 DEF ending, ends
<1>17. stop - 1 + 1 = stop
  BY <1>11
<1> QED
  BY <1>6, <1>13, <1>15, <1>16, <1>17 DEF ranked, c

\* What scores a quarter of the best is left out only by the limit, or where the next does not fit.
LEMMA SelectLeaves ==
  ASSUME NEW D, Distinct(D), NEW score \in [D -> Int], \A s \in D : score[s] > 0,
         NEW own \in D, \A s \in D : score[s] <= 4 * score[own]
  PROVE  LET chosen == Select(score)
         IN  \/ \E i \in 1..Len(chosen) : chosen[i] = own
             \/ Len(chosen) = Limit
             \/ \E s \in D : /\ score[s] >= score[own]
                             /\ s \notin ToSet(chosen)
                             /\ Chars(chosen, Len(chosen)) + s.size > MaxChars
<1> DEFINE chosen == Select(score)
           ranked == Ranked(score)
           c == Cardinality(D)
           p == Place(score, own)
           next == Len(chosen) + 1
<1>1. /\ chosen \in Seq(D)
      /\ Len(chosen) \in 1..Limit /\ Len(chosen) <= c
      /\ \A i \in 1..Len(chosen) : chosen[i] = ranked[i]
      /\ Len(chosen) < Limit /\ Len(chosen) < c =>
            4 * score[ranked[next]] < score[ranked[1]] \/ Chars(ranked, next) > MaxChars
  BY SelectFacts
<1>2. /\ c \in Nat
      /\ ranked \in [1..c -> D]
      /\ \A n \in 1..c : Place(score, ranked[n]) = n
      /\ ranked[p] = own
  BY RankedFacts
<1>3. p \in 1..c
  BY PlaceFacts
<1>4. Limit \in Nat /\ Len(chosen) \in Nat
  BY <1>1, KnowledgeAssumption
<1> HIDE DEF chosen, ranked, c, p
<1>5. CASE p <= Len(chosen)
  BY <1>1, <1>2, <1>3, <1>4, <1>5, SMTT(30) DEF chosen
<1>6. CASE Len(chosen) = Limit
  BY <1>6 DEF chosen
<1>7. CASE Len(chosen) < p /\ Len(chosen) < Limit
  <2> DEFINE s == ranked[next]
  <2>1. next \in 1..c /\ next <= p /\ Len(chosen) < c /\ next \in Nat /\ next > Len(chosen)
    BY <1>2, <1>3, <1>4, <1>7
  <2>2. s \in D /\ Place(score, s) = next
    BY <1>2, <2>1
  <2> HIDE DEF s
  <2>3. score[s] >= score[own]
    <3>1. ~Ahead(score, own, s)
      BY <1>3, <2>1, <2>2, PlaceFacts DEF p, c
    <3> QED
      BY <2>2, <3>1 DEF Ahead
  <2>4. score[ranked[1]] \in Int /\ score[ranked[1]] <= 4 * score[own] /\ score[own] \in Int /\ score[s] \in Int
    <3>1. ranked[1] \in D
      BY <1>2, <2>1
    <3> QED
      BY <2>2, <3>1
  <2>5. Chars(ranked, next) > MaxChars
    BY <1>1, <1>7, <2>1, <2>3, <2>4 DEF s
  <2>6. Len(ranked) = c
    BY <1>2
  <2>7. Chars(ranked, next) = Chars(ranked, Len(chosen)) + s.size
    <3>1. Chars(ranked, next) = Chars(ranked, next - 1) + ranked[next].size
      BY <1>2, <2>1, <2>6, CharsSteps
    <3>2. next - 1 = Len(chosen)
      BY <1>4
    <3> QED
      BY <3>1, <3>2 DEF s
  <2>8. Chars(chosen, Len(chosen)) = Chars(ranked, Len(chosen))
    <3>1. Len(chosen) <= Len(ranked) /\ Len(ranked) \in Nat
      BY <1>1, <1>2, <2>6
    <3> QED
      BY <1>1, <1>4, <3>1, CharsAgree
  <2>9. s \notin ToSet(chosen)
    <3>1. ASSUME NEW i \in 1..Len(chosen) PROVE chosen[i] # s
      <4>1. i \in 1..c /\ i # next
        BY <1>1, <1>2, <1>4
      <4>2. Place(score, chosen[i]) = i
        BY <1>1, <1>2, <4>1
      <4> QED
        BY <2>2, <4>1, <4>2
    <3>2. DOMAIN chosen = 1..Len(chosen)
      BY <1>1
    <3> QED
      BY <3>1, <3>2 DEF ToSet
  <2>10. Chars(chosen, Len(chosen)) + s.size > MaxChars
    BY <2>5, <2>7, <2>8
  <2> QED
    BY <2>2, <2>3, <2>9, <2>10 DEF chosen
<1> QED
  BY <1>1, <1>3, <1>4, <1>5, <1>6, <1>7

\* With nothing scored: what is there of the course and of the institute, for everyone.
LEMMA FallbackFacts ==
  ASSUME NEW k, Distinct(k.snippets), NEW course
  PROVE  LET c == Fallback(k, course)
             S == {s \in k.snippets : s.course \in {None, course} /\ s.audience = "all"}
         IN  /\ c \in Seq(S) /\ Len(c) <= Limit
             /\ GetSnippet(k, <<"company", "about">>) # Absent => c # <<>>
<1> DEFINE S == {s \in k.snippets : s.course \in {None, course} /\ s.audience = "all"}
           pick(id) == LET s == GetSnippet(k, id) IN IF s = Absent THEN <<>> ELSE <<s>>
           a == pick(<<"course", course, "overview">>)
           b == pick(<<"company", "about">>)
           c == pick(<<"company", "contact">>)
           picks == a \o b \o c
           n == Min({Limit, Len(picks)})
<1>1. ASSUME NEW id, id[1] = "company" \/ (id[1] = "course" /\ id[2] = course)
      PROVE  pick(id) \in Seq(S) /\ (GetSnippet(k, id) # Absent => Len(pick(id)) = 1)
  <2>1. CASE GetSnippet(k, id) = Absent
    BY <2>1
  <2>2. CASE GetSnippet(k, id) # Absent
    <3> DEFINE s == GetSnippet(k, id)
    <3>1. s \in k.snippets /\ s.id = id
      BY <2>2, SnippetFound
    <3>2. s \in S
      BY <1>1, <3>1 DEF Distinct, IsSnippet
    <3> HIDE DEF s, S
    <3>3. pick(id) = <<s>>
      BY <2>2 DEF s
    <3> HIDE DEF pick
    <3> QED
      BY <3>2, <3>3
  <2> QED
    BY <2>1, <2>2
<1> HIDE DEF pick, S
<1>2. a \in Seq(S) /\ b \in Seq(S) /\ c \in Seq(S)
  BY <1>1
<1>3. GetSnippet(k, <<"company", "about">>) # Absent => Len(b) = 1
  BY <1>1
<1>4. Fallback(k, course) = SubSeq(picks, 1, n)
  BY DEF Fallback, pick
<1> HIDE DEF a, b, c
<1>5. picks \in Seq(S) /\ Len(picks) \in Nat /\ (Len(b) = 1 => Len(picks) >= 1)
  BY <1>2
<1> HIDE DEF picks
<1>6. Limit \in Nat \ {0}
  BY KnowledgeAssumption
<1>7. n \in {Limit, Len(picks)} /\ n <= Limit /\ n <= Len(picks) /\ n \in Nat
  <2>1. {Limit, Len(picks)} \in SUBSET Nat /\ {Limit, Len(picks)} # {}
    BY <1>5, <1>6
  <2> QED
    BY <2>1, MinIsLeast
<1> HIDE DEF n
<1>8. /\ SubSeq(picks, 1, n) \in Seq(S)
      /\ Len(SubSeq(picks, 1, n)) = n
  <2>1. \A i \in 1..n : picks[i] \in S
    BY <1>5, <1>7
  <2>2. n \in Int /\ (1 <= n => n - 1 + 1 = n) /\ (~(1 <= n) => n = 0)
    BY <1>7
  <2> QED
    BY <2>1, <2>2, SubSeqProperties
<1>9. GetSnippet(k, <<"company", "about">>) # Absent => n # 0
  BY <1>3, <1>5, <1>6, <1>7
<1> QED
  <2>1. Len(<<>>) = 0
    OBVIOUS
  <2> QED
    BY <1>4, <1>7, <1>8, <1>9, <2>1 DEF S

\* A snippet of the course, for who asks, is in the prompt before another course's that fits no better.
CourseFirst(c, k, query, course, audience) ==
    \A own \in k.snippets, i \in 1..Len(c) :
        /\ course # None /\ own.course = course /\ own.audience \in {"all", audience}
        /\ c[i].course \notin {None, course}
        /\ Lexical(k, own, query) >= Lexical(k, c[i], query)
        => \E j \in 1..i - 1 : c[j] = own

\* What retrieval promises of the prompt: no more than the limit, nothing for the other side of
\* the funnel, the company when there is nothing else, and the course asked about first.
LEMMA RetrieveFacts ==
  ASSUME NEW k, Distinct(k.snippets), NEW query, IsFiniteSet(query), NEW course, NEW audience,
         NEW c, c = Retrieve(k, query, course, audience)
  PROVE  /\ c \in Seq({s \in k.snippets : s.audience \in {"all", audience}})
         /\ Len(c) <= Limit
         /\ GetSnippet(k, <<"company", "about">>) # Absent => c # <<>>
         /\ CourseFirst(c, k, query, course, audience)
<1> DEFINE fit == {s \in k.snippets : s.audience \in {"all", audience}}
           all == [s \in fit |-> Score(k, s, query, course)]
           scored == {s \in fit : Score(k, s, query, course) > 0}
           score == [s \in scored |-> Score(k, s, query, course)]
<1>1. c = IF scored = {} THEN Fallback(k, course) ELSE Select(score)
  <2>1. DOMAIN all = fit /\ \A s \in fit : all[s] = Score(k, s, query, course)
    OBVIOUS
  <2>2. {s \in DOMAIN all : all[s] > 0} = scored
    BY <2>1
  <2>3. [s \in scored |-> all[s]] = score
    BY <2>1
  <2> HIDE DEF score, scored
  <2> QED
    BY <2>2, <2>3 DEF Retrieve
<1>2. \A s \in scored : s \in k.snippets /\ s \in fit /\ Score(k, s, query, course) > 0
  OBVIOUS
<1>3. Distinct(scored)
  BY <1>2, FS_Subset DEF Distinct
<1>4. score \in [scored -> Int] /\ \A s \in scored : score[s] > 0 /\ score[s] = Score(k, s, query, course)
  BY <1>2, ScoreFacts
<1>5. CASE scored = {}
  <2>1. c = Fallback(k, course)
    BY <1>1, <1>5
  <2> DEFINE S == {s \in k.snippets : s.course \in {None, course} /\ s.audience = "all"}
  <2>2. c \in Seq(S) /\ Len(c) <= Limit
    BY <2>1, FallbackFacts
  <2>3. GetSnippet(k, <<"company", "about">>) # Absent => c # <<>>
    BY <2>1, FallbackFacts
  <2>4. \A i \in 1..Len(c) : c[i] \in S
    BY <2>2
  <2>5. c \in Seq(fit)
    <3>1. S \subseteq fit
      OBVIOUS
    <3> HIDE DEF S, fit
    <3> QED
      BY <2>2, <3>1
  <2> QED
    BY <2>2, <2>3, <2>4, <2>5 DEF CourseFirst
<1>6. CASE scored # {}
  <2>1. c = Select(score)
    BY <1>1, <1>6
  <2>2. /\ c \in Seq(scored)
        /\ Len(c) \in 1..Limit /\ Len(c) <= Cardinality(scored)
        /\ \A i \in 1..Len(c) : c[i] = Ranked(score)[i]
    <3> HIDE DEF scored, score
    <3> QED
      BY <1>3, <1>4, <1>6, <2>1, SelectFacts
  <2>3. c \in Seq(fit)
    <3>1. scored \subseteq fit
      OBVIOUS
    <3> HIDE DEF scored, fit
    <3> QED
      BY <2>2, <3>1
  <2>4. c # <<>> /\ Len(c) <= Limit
    <3> HIDE DEF scored
    <3>1. Limit \in Nat
      BY KnowledgeAssumption
    <3> QED
      BY <2>2, <3>1
  <2>5. ASSUME NEW own \in k.snippets, NEW i \in 1..Len(c), course # None, own.course = course,
               own.audience \in {"all", audience}, c[i].course \notin {None, course},
               Lexical(k, own, query) >= Lexical(k, c[i], query)
        PROVE  \E j \in 1..i - 1 : c[j] = own
    <3> DEFINE other == c[i]
               p == Place(score, own)
    <3>1. other \in scored /\ i \in Nat /\ i \in 1..Cardinality(scored)
      <4> HIDE DEF scored
      <4>1. Cardinality(scored) \in Nat
        BY <1>3, FS_CardinalityType DEF Distinct
      <4> QED
        BY <2>2, <4>1
    <3>2. own \in scored
      BY <2>5, ScoreFacts
    <3>3. score[own] > score[other]
      <4>1. Score(k, own, query, course) > Score(k, other, query, course)
        BY <1>2, <2>5, <3>1, ScoreFacts
      <4> QED
        BY <1>4, <3>1, <3>2, <4>1
    <3> HIDE DEF scored, score
    <3>4. Ahead(score, own, other)
      BY <3>3 DEF Ahead
    <3>5. other = Ranked(score)[i]
      BY <2>2
    <3>6. Place(score, other) = i
      BY <1>3, <1>4, <3>1, <3>5, RankedFacts
    <3>7. p < i /\ p \in 1..Cardinality(scored)
      BY <1>3, <1>4, <3>1, <3>2, <3>4, <3>6, PlaceFacts
    <3>8. Ranked(score)[p] = own
      BY <1>3, <1>4, <3>2, RankedFacts
    <3>9. p \in 1..i - 1 /\ p \in 1..Len(c)
      BY <2>2, <3>1, <3>7
    <3> QED
      BY <2>2, <3>8, <3>9
  <2> QED
    BY <2>3, <2>4, <2>5 DEF CourseFirst
<1> QED
  BY <1>5, <1>6

\* The entry that has all the words asked for is in the prompt, or the prompt is full.
LEMMA TitleRetrieved ==
  ASSUME NEW k, Distinct(k.snippets), NEW query, IsFiniteSet(query), query # {}, NEW audience,
         NEW own \in k.snippets, GetSnippet(k, own.id) = own, own.weight = 22, query \subseteq own.title,
         own.audience \in {"all", audience},
         NEW c, c = Retrieve(k, query, None, audience)
  PROVE  \/ \E i \in 1..Len(c) : c[i] = own
         \/ Len(c) = Limit
         \/ \E s \in k.snippets : /\ Score(k, s, query, None) >= Score(k, own, query, None)
                                  /\ s \notin ToSet(c)
                                  /\ Chars(c, Len(c)) + s.size > MaxChars
<1> DEFINE fit == {s \in k.snippets : s.audience \in {"all", audience}}
           all == [s \in fit |-> Score(k, s, query, None)]
           scored == {s \in fit : Score(k, s, query, None) > 0}
           score == [s \in scored |-> Score(k, s, query, None)]
<1>1. own \in scored
  BY TitleScores
<1>2. c = Select(score)
  <2>1. DOMAIN all = fit /\ \A s \in fit : all[s] = Score(k, s, query, None)
    OBVIOUS
  <2>2. {s \in DOMAIN all : all[s] > 0} = scored
    BY <2>1
  <2>3. [s \in scored |-> all[s]] = score
    BY <2>1
  <2> HIDE DEF score, scored
  <2> QED
    BY <1>1, <2>2, <2>3 DEF Retrieve
<1>3. \A s \in scored : s \in k.snippets /\ Score(k, s, query, None) > 0
  OBVIOUS
<1>4. Distinct(scored)
  BY <1>3, FS_Subset DEF Distinct
<1>5. score \in [scored -> Int] /\ \A s \in scored : score[s] > 0 /\ score[s] = Score(k, s, query, None)
  BY <1>3, ScoreFacts
<1>6. \A s \in scored : score[s] <= 4 * score[own]
  BY <1>1, <1>3, <1>5, TitleScores
<1> HIDE DEF scored, score
<1>7. \/ \E i \in 1..Len(c) : c[i] = own
      \/ Len(c) = Limit
      \/ \E s \in scored : /\ score[s] >= score[own]
                           /\ s \notin ToSet(c)
                           /\ Chars(c, Len(c)) + s.size > MaxChars
  BY <1>1, <1>2, <1>4, <1>5, <1>6, SelectLeaves
<1> QED
  BY <1>1, <1>3, <1>5, <1>7

(***************************************************************************)
(* The course a text is about.                                             *)
(***************************************************************************)
Slugs(k) == {k.courses[i].slug : i \in DOMAIN k.courses}

LEMMA LongestOfFacts ==
  ASSUME NEW terms, IsFiniteSet(terms), terms \subseteq DOMAIN TermLength, NEW text
  PROVE  /\ LongestOf(terms, text) \in Nat
         /\ \A t \in terms \cap text.says : LongestOf(terms, text) >= TermLength[t] /\ TermLength[t] > 0
         /\ terms \cap text.says = {} => LongestOf(terms, text) = 0
<1> DEFINE said == terms \cap text.says
           lengths == {TermLength[t] : t \in said}
           T == {0} \cup lengths
<1>1. \A t \in said : TermLength[t] \in Nat \ {0}
  BY KnowledgeAssumption
<1>2. IsFiniteSet(said)
  BY FS_Intersection
<1>3. IsFiniteSet(lengths)
  <2> HIDE DEF said
  <2> QED
    BY <1>2, FiniteRange
<1>4. T \in SUBSET Nat /\ T # {}
  BY <1>1
<1>5. IsFiniteSet(T)
  <2> HIDE DEF lengths
  <2> QED
    BY <1>3, FS_Singleton, FS_Union
<1>6. Max(T) \in T /\ \A y \in T : Max(T) >= y
  <2> HIDE DEF T
  <2> QED
    BY <1>4, <1>5, MaxIsGreatest
<1>7. LongestOf(terms, text) = Max(T)
  BY DEF LongestOf
<1>8. said = {} => T = {0}
  OBVIOUS
<1>9. \A t \in said : TermLength[t] \in T
  OBVIOUS
<1> HIDE DEF T
<1>10. said = {} => Max(T) = 0
  BY <1>6, <1>8
<1>11. Max(T) \in Nat
  BY <1>4, <1>6
<1>12. \A t \in said : Max(T) >= TermLength[t] /\ TermLength[t] > 0
  BY <1>1, <1>6, <1>9
<1> QED
  BY <1>7, <1>10, <1>11, <1>12

LEMMA LongestFacts ==
  ASSUME NEW k, IsCatalogue(k.courses), NEW text, NEW terms,
         \A i \in DOMAIN k.courses : IsFiniteSet(terms[i]) /\ terms[i] \subseteq DOMAIN TermLength
  PROVE  /\ Longest(k, terms, text) \in {None} \cup Slugs(k)
         /\ \A i \in DOMAIN k.courses :
               /\ terms[i] \cap text.says # {}
               /\ \A j \in DOMAIN k.courses \ {i} : terms[j] \cap text.says = {}
               => Longest(k, terms, text) = k.courses[i].slug
<1> DEFINE C == DOMAIN k.courses
           f == [i \in C |-> LongestOf(terms[i], text)]
           T == {0} \cup {LongestOf(terms[i], text) : i \in C}
           top == Max(T)
           first == Min({i \in C : LongestOf(terms[i], text) = top})
<1>1. \A i \in C : LongestOf(terms[i], text) \in Nat
  BY LongestOfFacts
<1>2. IsFiniteSet(C) /\ C \subseteq Nat
  BY DEF IsCatalogue
<1>3. T \in SUBSET Nat /\ T # {}
  BY <1>1
<1>4. IsFiniteSet(T)
  <2> HIDE DEF C
  <2>1. {f[i] : i \in C} = {LongestOf(terms[i], text) : i \in C}
    OBVIOUS
  <2>2. IsFiniteSet({f[i] : i \in C})
    <3> HIDE DEF f
    <3> QED
      BY <1>2, FiniteRange
  <2>3. IsFiniteSet({LongestOf(terms[i], text) : i \in C})
    BY <2>1, <2>2
  <2> QED
    BY <2>3, FS_Singleton, FS_Union
<1>5. top \in T /\ \A y \in T : top >= y
  <2> HIDE DEF T
  <2> QED
    BY <1>3, <1>4, MaxIsGreatest
<1>6. top \in Nat /\ \A i \in C : top >= LongestOf(terms[i], text)
  BY <1>3, <1>5
<1>7. top # 0 => \E i \in C : LongestOf(terms[i], text) = top
  <2> HIDE DEF top
  <2> QED
    BY <1>5
<1>8. Longest(k, terms, text) = IF top = 0 THEN None ELSE k.courses[first].slug
  BY DEF Longest
<1>9. top # 0 => first \in C /\ LongestOf(terms[first], text) = top
  <2> SUFFICES ASSUME top # 0 PROVE first \in C /\ LongestOf(terms[first], text) = top
    OBVIOUS
  <2> DEFINE A == {i \in C : LongestOf(terms[i], text) = top}
  <2>1. A \in SUBSET Nat /\ A # {}
    <3> HIDE DEF top
    <3> QED
      BY <1>2, <1>7
  <2>2. Min(A) \in A
    <3> HIDE DEF A
    <3> QED
      BY <2>1, MinIsLeast
  <2> HIDE DEF top
  <2> QED
    BY <2>2
<1> HIDE DEF top, first, T, f
<1>10. Longest(k, terms, text) \in {None} \cup Slugs(k)
  BY <1>8, <1>9 DEF Slugs
<1>11. ASSUME NEW i \in C, terms[i] \cap text.says # {}, \A j \in C \ {i} : terms[j] \cap text.says = {}
       PROVE  Longest(k, terms, text) = k.courses[i].slug
  <2>1. PICK t \in terms[i] \cap text.says : TRUE
    BY <1>11
  <2>2. TermLength[t] \in Nat /\ TermLength[t] > 0 /\ LongestOf(terms[i], text) >= TermLength[t]
    BY <2>1, LongestOfFacts, KnowledgeAssumption
  <2>3. top # 0
    BY <1>1, <1>6, <2>2
  <2>4. \A j \in C \ {i} : LongestOf(terms[j], text) = 0
    BY <1>11, LongestOfFacts
  <2>5. first = i
    BY <1>9, <2>3, <2>4
  <2> QED
    BY <1>8, <2>3, <2>5
<1> QED
  BY <1>10, <1>11

LEMMA FiniteTerms ==
  ASSUME NEW k, IsCatalogue(k.courses), NEW i \in DOMAIN k.courses
  PROVE  /\ IsFiniteSet(Names(k)[i]) /\ Names(k)[i] \subseteq DOMAIN TermLength
         /\ Names(k)[i] = IdentityTerms(k.courses[i])
         /\ IsFiniteSet(Keywords(k)[i]) /\ Keywords(k)[i] \subseteq DOMAIN TermLength
<1>1. Names(k)[i] = IdentityTerms(k.courses[i]) /\ Keywords(k)[i] = k.courses[i].keywords
  BY DEF Names, Keywords
<1>2. IsFiniteSet(IdentityTerms(k.courses[i]))
  BY FinitePair DEF IdentityTerms
<1> QED
  BY <1>1, <1>2 DEF IsCatalogue

\* The course matched is one there is; and it is the one that is named, if only one is.
LEMMA MatchFacts ==
  ASSUME NEW k, IsCatalogue(k.courses), NEW text, text.whole \in {""} \cup text.says
  PROVE  /\ MatchCourse(k, text) \in {None} \cup Slugs(k)
         /\ \A i \in DOMAIN k.courses :
               /\ IdentityTerms(k.courses[i]) \cap text.says # {}
               /\ \A j \in DOMAIN k.courses \ {i} : IdentityTerms(k.courses[j]) \cap text.says = {}
               => MatchCourse(k, text) = k.courses[i].slug
<1> DEFINE C == DOMAIN k.courses
           exact == {i \in C : text.whole \in IdentityTerms(k.courses[i])}
           byName == Longest(k, Names(k), text)
           byKeyword == Longest(k, Keywords(k), text)
<1>1. byName \in {None} \cup Slugs(k)
  BY FiniteTerms, LongestFacts
<1>2. byKeyword \in {None} \cup Slugs(k)
  BY FiniteTerms, LongestFacts
<1>3. ASSUME exact # {} PROVE Min(exact) \in exact
  <2>1. exact \in SUBSET Nat
    BY DEF IsCatalogue
  <2> HIDE DEF exact
  <2> QED
    BY <1>3, <2>1, MinIsLeast
<1>4. MatchCourse(k, text) = IF exact # {} THEN k.courses[Min(exact)].slug
                             ELSE IF byName # None THEN byName ELSE byKeyword
  BY DEF MatchCourse
<1>5. MatchCourse(k, text) \in {None} \cup Slugs(k)
  <2>1. exact # {} => k.courses[Min(exact)].slug \in Slugs(k)
    BY <1>3 DEF Slugs
  <2> HIDE DEF exact, byName, byKeyword
  <2> QED
    BY <1>1, <1>2, <1>4, <2>1
<1>6. ASSUME NEW i \in C, IdentityTerms(k.courses[i]) \cap text.says # {},
             \A j \in C \ {i} : IdentityTerms(k.courses[j]) \cap text.says = {}
      PROVE  MatchCourse(k, text) = k.courses[i].slug
  <2>1. \A j \in exact : j = i
    <3>1. \A j \in exact : text.whole # ""
      BY DEF IsCatalogue
    <3> QED
      BY <1>6, <3>1
  <2>2. byName = k.courses[i].slug
    <3>1. \A j \in C : Names(k)[j] = IdentityTerms(k.courses[j])
      BY FiniteTerms
    <3> DEFINE names == Names(k)
    <3>2. \A j \in C : IsFiniteSet(names[j]) /\ names[j] \subseteq DOMAIN TermLength
      BY FiniteTerms
    <3>3. names[i] \cap text.says # {} /\ \A j \in C \ {i} : names[j] \cap text.says = {}
      BY <1>6, <3>1
    <3> HIDE DEF names
    <3>4. Longest(k, names, text) = k.courses[i].slug
      BY <3>2, <3>3, LongestFacts
    <3> QED
      BY <3>4 DEF names
  <2>3. k.courses[i].slug # None
    BY DEF IsCatalogue
  <2>4. exact # {} => Min(exact) = i
    BY <1>3, <2>1
  <2> HIDE DEF exact, byName, byKeyword
  <2> QED
    BY <1>4, <2>2, <2>3, <2>4
<1> QED
  BY <1>5, <1>6

LEMMA UpsellFacts ==
  ASSUME NEW k, IsCatalogue(k.courses), UpsellCourse(k) # Absent
  PROVE  UpsellCourse(k).slug \in Slugs(k)
<1> DEFINE found == {i \in DOMAIN k.courses : k.courses[i].slug = "ai-for-everyone"}
<1>1. found # {} /\ UpsellCourse(k) = k.courses[Max(found)]
  BY DEF UpsellCourse, GetCourse
<1>2. IsFiniteSet(found) /\ found \in SUBSET Nat
  BY FS_Subset DEF IsCatalogue
<1>3. Max(found) \in found
  <2> HIDE DEF found
  <2> QED
    BY <1>1, <1>2, MaxIsGreatest
<1> HIDE DEF found
<1>4. Max(found) \in DOMAIN k.courses
  BY <1>3 DEF found
<1> QED
  BY <1>1, <1>4 DEF Slugs

(***************************************************************************)
(* The invariant: until the service has loaded there is no question; one   *)
(* that reaches the model has the prompt retrieval gave it, for the scope  *)
(* it set, and a call left as long as it has no result.                    *)
(***************************************************************************)
NotAsked == asked = Nothing => context = <<>> /\ attempts = 0 /\ result = None

Loaded ==
    /\ IsKB(kb)
    /\ ~kb.loaded => kb = NotLoaded /\ scope = None /\ asked = Nothing

Given ==
    Prompted =>
        /\ context = Retrieve(kb, asked.text.words, scope, Audience(asked))
        /\ asked.state # "SUPPORT_QUERY" /\ MatchCourse(kb, asked.text) # None => scope = MatchCourse(kb, asked.text)

CallsLeft ==
    /\ result = None => attempts < MaxCalls
    /\ result = "refused" => context = <<>>

AnswerInv == AnswerTypeOK /\ NotAsked /\ Loaded /\ Given /\ CallsLeft

LEMMA NothingIsNoQuestion == Nothing \notin Questions
<1>1. \A q \in Questions : q.state # None
  BY AnsweringAssumption DEF IsQuestion
<1> QED
  BY <1>1 DEF Nothing

LEMMA ScopeTyped ==
  ASSUME AnswerTypeOK, Loaded, NEW question \in Questions
  PROVE  Scope(question) \in {None} \cup Slugs(kb)
<1>1. IsCatalogue(kb.courses)
  BY DEF Loaded, IsKB
<1>2. MatchCourse(kb, question.text) \in {None} \cup Slugs(kb)
  BY <1>1, MatchFacts, AnsweringAssumption DEF IsQuestion
<1>3. UpsellCourse(kb) # Absent => UpsellCourse(kb).slug \in Slugs(kb)
  BY <1>1, UpsellFacts
<1>4. scope \in {None} \cup Slugs(kb)
  BY DEF AnswerTypeOK, Slugs
<1> QED
  BY <1>2, <1>3, <1>4 DEF Scope

LEMMA AnswerInitInv == AnswerInit => AnswerInv
<1> SUFFICES ASSUME AnswerInit PROVE AnswerInv
  OBVIOUS
<1> USE DEF AnswerInit
<1>1. Limit \in Nat
  BY KnowledgeAssumption
<1>2. AnswerTypeOK
  BY <1>1 DEF AnswerTypeOK, MaxCalls
<1>3. Loaded
  BY EmptyIsKB DEF Loaded, NotLoaded
<1> QED
  BY <1>2, <1>3 DEF AnswerInv, NotAsked, Given, Prompted, CallsLeft, MaxCalls

LEMMA StartInv ==
  ASSUME AnswerInv, NEW directory \in Directories, Start(directory)
  PROVE  AnswerInv'
<1> USE DEF AnswerInv
<1>1. scope = None /\ asked = Nothing /\ UNCHANGED <<scope, asked, context, attempts, result>> /\ kb' = Load(directory)
  BY DEF Start, Loaded
<1>2. IsKB(kb') /\ (kb'.loaded \/ kb' = NotLoaded)
  BY <1>1, LoadIsKB
<1>3. AnswerTypeOK'
  BY <1>1 DEF AnswerTypeOK
<1>4. Loaded'
  BY <1>1, <1>2 DEF Loaded
<1> QED
  BY <1>1, <1>3, <1>4 DEF NotAsked, Given, Prompted, CallsLeft

LEMMA AskKeeps ==
  ASSUME AnswerInv, NEW question \in Questions, Ask(question)
  PROVE  AnswerInv'
<1> USE DEF AnswerInv
<1> DEFINE refused == IsOffTopic(kb, question.text, question.state = "DISCOVERY")
<1>1. /\ kb.loaded /\ asked = Nothing /\ kb' = kb /\ attempts' = attempts
      /\ scope' = Scope(question) /\ asked' = question
      /\ context' = IF refused THEN <<>> ELSE Retrieve(kb, question.text.words, scope', Audience(question))
      /\ result' = IF refused THEN "refused" ELSE None
  BY DEF Ask
<1> HIDE DEF refused
<1>2. Len(context') <= Limit
  <2>1. CASE refused
    BY <1>1, <2>1, KnowledgeAssumption
  <2>2. CASE ~refused
    <3>1. context' = Retrieve(kb, question.text.words, scope', Audience(question))
      BY <1>1, <2>2
    <3>2. IsFiniteSet(question.text.words)
      BY AnsweringAssumption DEF IsQuestion
    <3>3. Distinct(kb.snippets)
      BY DEF Loaded, IsKB
    <3> QED
      BY <3>1, <3>2, <3>3, RetrieveFacts
  <2> QED
    BY <2>1, <2>2
<1>3. scope' \in {None} \cup {kb'.courses[i].slug : i \in DOMAIN kb'.courses}
  BY <1>1, ScopeTyped DEF Slugs
<1>4. attempts = 0
  BY <1>1 DEF NotAsked
<1>5. AnswerTypeOK'
  BY <1>1, <1>2, <1>3 DEF AnswerTypeOK
<1>6. Loaded'
  BY <1>1 DEF Loaded
<1>7. Given'
  <2> SUFFICES ASSUME Prompted' PROVE Given'
    BY DEF Given
  <2>1. ~refused
    BY <1>1 DEF Prompted
  <2>2. context' = Retrieve(kb', asked'.text.words, scope', Audience(asked'))
    BY <1>1, <2>1
  <2>3. asked'.state # "SUPPORT_QUERY" /\ MatchCourse(kb', asked'.text) # None => scope' = MatchCourse(kb', asked'.text)
    BY <1>1 DEF Scope
  <2> QED
    BY <2>2, <2>3 DEF Given, Audience
<1>8. NotAsked'
  BY <1>1, NothingIsNoQuestion DEF NotAsked
<1>9. CallsLeft'
  BY <1>1, <1>4 DEF CallsLeft, MaxCalls, None
<1> QED
  BY <1>5, <1>6, <1>7, <1>8, <1>9

LEMMA GenerateInv ==
  ASSUME AnswerInv, NEW response \in Responses, Generate(response)
  PROVE  AnswerInv'
<1> USE DEF AnswerInv
<1>1. /\ asked # Nothing /\ result = None /\ attempts' = attempts + 1
      /\ UNCHANGED <<kb, scope, asked, context>>
      /\ result' \in {None, "text", "fallback"}
      /\ result' = None => attempts' < MaxCalls
  BY DEF Generate, None
<1>2. attempts \in Nat /\ attempts < MaxCalls
  BY <1>1 DEF CallsLeft, AnswerTypeOK
<1>3. AnswerTypeOK'
  BY <1>1, <1>2 DEF AnswerTypeOK, MaxCalls
<1>4. Prompted /\ Prompted'
  BY <1>1 DEF Prompted, None
<1>5. Given'
  BY <1>1, <1>4 DEF Given, Audience
<1> QED
  BY <1>1, <1>3, <1>5 DEF NotAsked, Loaded, CallsLeft, None

LEMMA ReplyInv ==
  ASSUME AnswerInv, Reply
  PROVE  AnswerInv'
<1> USE DEF AnswerInv, Reply
<1>1. Limit \in Nat
  BY KnowledgeAssumption
<1>2. AnswerTypeOK'
  BY <1>1 DEF AnswerTypeOK, MaxCalls
<1> QED
  BY <1>2 DEF NotAsked, Loaded, Given, Prompted, CallsLeft, MaxCalls, None

LEMMA AnswerNextInv == AnswerInv /\ [AnswerNext]_answerVars => AnswerInv'
<1> SUFFICES ASSUME AnswerInv, [AnswerNext]_answerVars PROVE AnswerInv'
  OBVIOUS
<1>1. ASSUME NEW directory \in Directories, Start(directory) PROVE AnswerInv'
  BY <1>1, StartInv
<1>2. ASSUME NEW question \in Questions, Ask(question) PROVE AnswerInv'
  BY <1>2, AskKeeps
<1>3. ASSUME NEW response \in Responses, Generate(response) PROVE AnswerInv'
  BY <1>3, GenerateInv
<1>4. CASE Reply
  BY <1>4, ReplyInv
<1>5. CASE UNCHANGED answerVars
  BY <1>5 DEF answerVars, AnswerInv, AnswerTypeOK, NotAsked, Loaded, Given, Prompted, CallsLeft, Audience
<1> QED
  BY <1>1, <1>2, <1>3, <1>4, <1>5 DEF AnswerNext

LEMMA AnswerInvariant == AnswerSpec => []AnswerInv
BY AnswerInitInv, AnswerNextInv, PTL DEF AnswerSpec

(***************************************************************************)
(* Theorems.                                                               *)
(***************************************************************************)
LEMMA PromptFacts ==
  ASSUME AnswerInv, Prompted
  PROVE  /\ asked \in Questions /\ IsFiniteSet(asked.text.words) /\ Distinct(kb.snippets)
         /\ context = Retrieve(kb, asked.text.words, scope, Audience(asked))
BY AnsweringAssumption DEF AnswerInv, Prompted, AnswerTypeOK, Given, Loaded, IsKB, IsQuestion

\* The knowledge base is none or that of a directory, the scope a course in it, the prompt within
\* the limit, and no question is put to the provider more than three times.
THEOREM AnswerTypes == AnswerSpec => []AnswerTypeOK
BY AnswerInvariant, PTL DEF AnswerInv

\* Whatever the files hold and the customer asks: no question reaches the model with nothing to
\* answer from, if company.json says who we are (KeywordRetriever.retrieve and its fallback).
THEOREM PromptsAreNeverEmpty == AnswerSpec => []NeverEmptyHanded
<1>1. AnswerInv => NeverEmptyHanded
  <2> SUFFICES ASSUME AnswerInv, Prompted, GetSnippet(kb, <<"company", "about">>) # Absent PROVE context # <<>>
    BY DEF NeverEmptyHanded
  <2>1. IsFiniteSet(asked.text.words) /\ Distinct(kb.snippets)
    BY PromptFacts
  <2>2. Retrieve(kb, asked.text.words, scope, Audience(asked)) # <<>>
    BY <2>1, RetrieveFacts
  <2> QED
    BY <2>2, PromptFacts
<1> QED
  BY <1>1, AnswerInvariant, PTL

LEMMA PromptIsForWhoAsks == AnswerInv => ForWhoAsks
<1> SUFFICES ASSUME AnswerInv, NEW i \in 1..Len(context)
             PROVE  context[i].audience \in {"all", Audience(asked)}
  BY DEF ForWhoAsks
<1>1. Prompted
  <2>1. context # <<>>
    OBVIOUS
  <2> QED
    BY <2>1 DEF AnswerInv, NotAsked, CallsLeft, Prompted
<1>2. IsFiniteSet(asked.text.words) /\ Distinct(kb.snippets)
  BY <1>1, PromptFacts
<1>3. context \in Seq({s \in kb.snippets : s.audience \in {"all", Audience(asked)}})
  <2>1. Retrieve(kb, asked.text.words, scope, Audience(asked))
            \in Seq({s \in kb.snippets : s.audience \in {"all", Audience(asked)}})
    BY <1>2, RetrieveFacts
  <2> QED
    BY <1>1, <2>1, PromptFacts
<1> QED
  BY <1>3

\* Nothing written for enrolled students is in the prompt for a prospect, nor the other way round,
\* the fallback included.
THEOREM PromptsAreForWhoAsks == AnswerSpec => []ForWhoAsks
BY PromptIsForWhoAsks, AnswerInvariant, PTL

\* A question that names one course is about that course, whatever keywords of others it says
\* too, and what is known of the course is ahead in the prompt of what fits another's no better
\* (match_course and the course boosts of retrieve).
THEOREM NamedCoursesComeFirst == AnswerSpec => []NamedCourseFirst
<1>1. ASSUME AnswerInv, NEW i \in DOMAIN kb.courses, Prompted, asked.state # "SUPPORT_QUERY",
             kb.courses[i].name \in asked.text.says,
             \A j \in DOMAIN kb.courses \ {i} : IdentityTerms(kb.courses[j]) \cap asked.text.says = {}
      PROVE  scope = kb.courses[i].slug
  <2>1. IsCatalogue(kb.courses) /\ kb.courses[i].slug # None
    BY <1>1 DEF AnswerInv, Loaded, IsKB, IsCatalogue
  <2>2. asked.text.whole \in {""} \cup asked.text.says
    BY <1>1, PromptFacts, AnsweringAssumption DEF IsQuestion
  <2>3. IdentityTerms(kb.courses[i]) \cap asked.text.says # {}
    BY <1>1 DEF IdentityTerms
  <2>4. MatchCourse(kb, asked.text) = kb.courses[i].slug
    BY <1>1, <2>1, <2>2, <2>3, MatchFacts
  <2> QED
    BY <1>1, <2>1, <2>4 DEF AnswerInv, Given
<1>2. ASSUME AnswerInv, NEW own \in kb.snippets, own.course = scope, scope # None,
             own.audience \in {"all", Audience(asked)},
             NEW i \in 1..Len(context), context[i].course \notin {None, scope},
             Lexical(kb, own, asked.text.words) >= Lexical(kb, context[i], asked.text.words)
      PROVE  \E j \in 1..i - 1 : context[j] = own
  <2>1. Prompted
    <3>1. context # <<>>
      OBVIOUS
    <3> QED
      BY <1>2, <3>1 DEF AnswerInv, NotAsked, CallsLeft, Prompted
  <2>2. IsFiniteSet(asked.text.words) /\ Distinct(kb.snippets)
    BY <1>2, <2>1, PromptFacts
  <2>3. context = Retrieve(kb, asked.text.words, scope, Audience(asked))
    BY <1>2, <2>1, PromptFacts
  <2>4. CourseFirst(context, kb, asked.text.words, scope, Audience(asked))
    BY <2>2, <2>3, RetrieveFacts
  <2> QED
    BY <1>2, <2>4 DEF CourseFirst
<1>3. AnswerInv => NamedCourseFirst
  BY <1>1, <1>2 DEF NamedCourseFirst
<1> QED
  BY <1>3, AnswerInvariant, PTL

\* Where faqs.json is tidy, an entry that has all the words of a question is in the prompt, whatever
\* else the files hold, unless the prompt is full (_faq_snippets, _grouped and retrieve).
THEOREM EntriesAreAnswerable ==
  (\A directory \in Directories : TidyFaqs(directory)) => (AnswerSpec => []EntriesAnswerable)
<1> SUFFICES ASSUME \A directory \in Directories : TidyFaqs(directory)
             PROVE  AnswerSpec => []EntriesAnswerable
  OBVIOUS
<1> DEFINE score(s) == Score(kb, s, asked.text.words, scope)
           tooLong(s) == Chars(context, Len(context)) + s.size > MaxChars
<1>1. ASSUME AnswerInv, NEW directory \in Directories, Prompted, kb = Load(directory),
             NEW e \in UNION {ToSet(g.entries) : g \in {g \in ToSet(Body(directory.faqs)) : g.list}},
             scope = None, e.question # {}, e.answer # {},
             e.audience \notin {"pre_sales", "post_sales"} \ {Audience(asked)},
             asked.text.words # {}, asked.text.words \subseteq e.question
      PROVE  \/ \E i \in 1..Len(context) : context[i].body = e.answer
             \/ Len(context) = Limit
             \/ \E own, s \in kb.snippets :
                  /\ own.body = e.answer /\ e.question \subseteq own.title
                  /\ score(s) >= score(own)
                  /\ s \notin ToSet(context) /\ tooLong(s)
  <2>1. IsFiniteSet(asked.text.words) /\ Distinct(kb.snippets)
    BY <1>1, PromptFacts
  <2>2. context = Retrieve(kb, asked.text.words, None, Audience(asked))
    BY <1>1, PromptFacts
  <2>3. Load(directory).loaded
    BY <1>1 DEF AnswerInv, Loaded, Prompted
  <2>4. PICK own \in kb.snippets :
            /\ own.body = e.answer /\ e.question \subseteq own.title
            /\ own.audience = AudienceOf(e.audience) /\ own.weight = 22
            /\ GetSnippet(kb, own.id) = own
    BY <1>1, <2>3, FaqLoaded
  <2>5. own.audience \in {"all", Audience(asked)}
    BY <1>1, <2>4 DEF AudienceOf, Audiences
  <2>6. \/ \E i \in 1..Len(context) : context[i] = own
        \/ Len(context) = Limit
        \/ \E s \in kb.snippets : score(s) >= score(own) /\ s \notin ToSet(context) /\ tooLong(s)
    BY <1>1, <2>1, <2>2, <2>4, <2>5, TitleRetrieved
  <2> HIDE DEF score, tooLong
  <2> QED
    BY <2>4, <2>6
<1>2. AnswerInv => ForWhoAsks
  BY PromptIsForWhoAsks
<1>3. AnswerInv => EntriesAnswerable
  BY <1>1, <1>2 DEF EntriesAnswerable
<1> QED
  BY <1>3, AnswerInvariant, PTL

(***************************************************************************)
(* The components beside each other.                                       *)
(***************************************************************************)
\* A step of the composition is a step of one component and leaves the others alone.
LEMMA ServicesStep ==
  ASSUME [ServicesNext]_servicesVars
  PROVE  [Next]_callbackVars /\ [AnswerNext]_answerVars /\ [IntakeNext]_intakeVars
<1>1. ASSUME UNCHANGED callbackVars PROVE [Next]_callbackVars
  BY <1>1
<1>2. ASSUME UNCHANGED answerVars PROVE [AnswerNext]_answerVars
  BY <1>2
<1>3. ASSUME UNCHANGED intakeVars PROVE [IntakeNext]_intakeVars
  BY <1>3
<1>4. CASE (\E text \in Texts : Callback(Say(text))) \/ Callback(Move) \/ Callback(Tick)
  <2>1. Next /\ UNCHANGED answerVars /\ UNCHANGED intakeVars
    BY <1>4 DEF Callback, Next
  <2> QED
    BY <1>2, <1>3, <2>1
<1>5. CASE \/ \E directory \in Directories : Answers(Start(directory))
           \/ \E question \in Questions : Answers(Ask(question))
           \/ \E response \in Responses : Answers(Generate(response))
           \/ Answers(Reply)
  <2>1. AnswerNext /\ UNCHANGED callbackVars /\ UNCHANGED intakeVars
    BY <1>5 DEF Answers, AnswerNext
  <2> QED
    BY <1>1, <1>3, <2>1
<1>6. CASE \/ Takes(Elapse) \/ Takes(Crash)
           \/ \E r \in Requests, p \in Payloads : Takes(Post(r, p))
           \/ \E r \in Requests :
                Takes(Accept(r)) \/ Takes(Turn(r)) \/ Takes(Send(r)) \/ Takes(EndTurn(r)) \/ Takes(Finish(r))
           \/ \E send \in late : Takes(Land(send))
  <2>1. IntakeNext /\ UNCHANGED callbackVars /\ UNCHANGED answerVars
    BY <1>6 DEF Takes, IntakeNext
  <2> QED
    BY <1>1, <1>2, <2>1
<1>7. CASE UNCHANGED servicesVars
  <2>1. UNCHANGED callbackVars /\ UNCHANGED answerVars /\ UNCHANGED intakeVars
    BY <1>7 DEF servicesVars
  <2> QED
    BY <1>1, <1>2, <1>3, <2>1
<1> QED
  BY <1>4, <1>5, <1>6, <1>7 DEF ServicesNext

\* Beside each other the components behave as they do alone, so that what is proved of one holds
\* of it here: of the callback times in the behaviours that belong to them.
THEOREM PartsRun == ServicesSpec => AnswerSpec /\ IntakeSpec /\ (component = "callback" => Spec)
<1>1. ServicesInit => AnswerInit /\ IntakeInit /\ (component = "callback" => Init)
  BY DEF ServicesInit
<1>2. [ServicesNext]_servicesVars => [Next]_callbackVars /\ [AnswerNext]_answerVars /\ [IntakeNext]_intakeVars
  BY ServicesStep
<1> QED
  BY <1>1, <1>2, PTL DEF ServicesSpec, Spec, AnswerSpec, IntakeSpec

\* The state of the component under way stays of its type: instants, dates and reasons, what a prompt is
\* made from, and the limiter's keys, requests and records.
THEOREM ServicesTypes == ServicesSpec => []ServicesTypeOK
<1>1. [ServicesNext]_servicesVars => component' = component
  BY DEF ServicesNext, servicesVars, Callback, Answers, Takes
<1>2. (component = "callback" => TypeOK) /\ AnswerTypeOK /\ IntakeTypeOK => ServicesTypeOK
  BY DEF ServicesTypeOK
<1>3. ~(component = "callback") /\ [ServicesNext]_servicesVars => ~(component = "callback")'
  BY <1>1
<1> QED
  BY <1>2, <1>3, PartsRun, TypeCorrect, AnswerTypes, IntakeTypes, PTL DEF ServicesSpec
=============================================================================
