----------------------------- MODULE MCServices -----------------------------
EXTENDS Services, TLC

CONSTANTS r1, r2

-----------------------------------------------------------------------------
(* CallbackTime: Wednesday to Saturday around the default hours, with the  *)
(* Friday closed, a turn of the year, and every form of date and time.     *)

DateForm(form, d, m, y) == [form |-> form, d |-> d, m |-> m, y |-> y]
TimeForm(form, h, mi, mer) == [form |-> form, h |-> h, mi |-> mi, mer |-> mer]
Written(dates, times) == [empty |-> FALSE, asap |-> FALSE, dates |-> dates, times |-> times]
Dates == {
    {}, {DateForm("today", 0, 0, 0)}, {DateForm("tomorrow", 0, 0, 0)},
    {DateForm("day after tomorrow", 0, 0, 0), DateForm("tomorrow", 0, 0, 0)},
    {DateForm("weekday", 2, 0, 0)}, {DateForm("numeric", 30, 2, 0), DateForm("weekday", 5, 0, 0)},
    {DateForm("numeric", 2, 1, 0)}, {DateForm("named", 10, 8, 0)}, {DateForm("numeric", 29, 2, 28)}}
Times == {
    {}, {TimeForm("clock", 4, 30, "am")}, {TimeForm("clock", 7, 0, "pm")},
    {TimeForm("clock", 12, 30, "")}, {TimeForm("meridiem", 12, 0, "pm")},
    {TimeForm("meridiem", 7, 0, "pm"), TimeForm("night", 0, 0, "")},
    {TimeForm("bare", 4, 0, "")}, {TimeForm("lone", 11, 0, "")}, {TimeForm("oclock", 25, 0, "")},
    {TimeForm("noon", 0, 0, ""), TimeForm("afternoon", 0, 0, "")}}
FewTimes == {
    {}, {TimeForm("clock", 4, 30, "am")}, {TimeForm("clock", 12, 30, "")}}
MCTexts == {Written(d, t) : d \in Dates, t \in FewTimes} \cup {Written({}, t) : t \in Times}
    \cup {[Written({}, {}) EXCEPT !.asap = TRUE], [Written({}, {}) EXCEPT !.empty = TRUE]}

\* Ordinals of Wednesday 5 August and Thursday 31 December 2026.
Wed == 739833
Eve == 739981
Moment(day, h, m, s) == day * 2880 + (60 * h + m) * 2 + s
MCClock == {Moment(Wed, 12, 0, 0), Moment(Wed, 18, 29, 1), Moment(Wed + 1, 3, 0, 0),
            Moment(Wed + 1, 18, 45, 0), Moment(Wed + 3, 10, 15, 1), Moment(Eve, 18, 30, 1)}

-----------------------------------------------------------------------------
(* Answering: a catalogue in which keywords of courses are in the names of *)
(* others and in other words; entries for both sides of the funnel, in     *)
(* both layouts; a directory with most of it missing, and a broken one.    *)

Course(slug, name, words, keywords, fields) ==
    [slug |-> slug, name |-> name, words |-> words, keywords |-> keywords, fields |-> fields, size |-> 1]
Catalogue == <<
    Course("ai-for-everyone", "ai for everyone", {"ai", "for", "everyone"}, {"beginner"}, {"fees"}),
    Course("data-analytics", "data analytics", {"data", "analytics"}, {"powerbi", "excel"}, {"fees", "duration"}),
    Course("power-bi", "power bi & tableau", {"power", "bi", "tableau"}, {"powerbi", "bi"}, {"fees"}),
    Course("unnamed", "", {}, {}, {})>>
Lengths == [w \in {"for", "fees", "excel", "everyone", "analytics", "data", "power", "tableau", "beginner",
                   "powerbi", "course", "placement", "ai for everyone", "data analytics", "power bi & tableau",
                   "ai-for-everyone", "data-analytics", "power-bi", "ai", "bi"} |->
               IF w \in {"ai", "bi"} THEN 2 ELSE IF w \in {"for", "fees", "excel"} THEN 4
               ELSE IF w \in {"power bi & tableau"} THEN 18 ELSE 10]

Entry(question, answer, keywords, audience, size) ==
    [id |-> "none", question |-> question, answer |-> answer, keywords |-> keywords, audience |-> audience,
     course |-> "none", size |-> size]
Refund == Entry({"refund", "money"}, {"no refund"}, {"fees"}, "everybody", 1)
Portal == Entry({"login", "portal"}, {"reset it"}, {}, "post_sales", 30)
Join == Entry({"join"}, {"pay first"}, {"portal"}, "pre_sales", 2)
Apply == Entry({"join", "apply"}, {"join", "online"}, {}, "all", 2)
Steps == Entry({"join", "steps"}, {"all of them"}, {}, "all", 19)
Blank == Entry({"emi"}, {}, {}, "all", 1)
Read(body) == [state |-> "read", body |-> body]
Missing(empty) == [state |-> "missing", empty |-> empty]
Group(key, entries) == [key |-> key, list |-> TRUE, entries |-> entries]
Section(key, entry) == [key |-> key, list |-> FALSE, entries |-> <<entry>>]
Directory(courses, faqs, policies, company, placements) ==
    [courses |-> courses, faqs |-> faqs, policies |-> policies, company |-> company, placements |-> placements]
Grown == Directory(Read(Catalogue), Read(<<Group("fees", <<Blank, Refund>>), Group("enrolled", <<Portal, Apply, Steps, Join>>)>>),
             Read(<<Section("refund_policy", Refund), Group("list", <<Blank>>)>>),
             Read({"profile", "contact", "hours", "learning", "social"}), Read(TRUE))
Flat == Directory(Read(SubSeq(Catalogue, 1, 3)), Read(<<Group("faqs", <<Portal, Blank, Join, Refund>>)>>),
             Read(<<Group("policies", <<Blank, Refund>>)>>), Read({"profile"}), Missing(FALSE))
Bare == Directory(Missing(<<>>), Missing(<<>>), Missing(<<>>), Read({"profile", "contact"}), Missing(FALSE))
Broken == [Grown EXCEPT !.faqs = [state |-> "broken"]]
MCDirectories == {Grown, Flat, Bare, Broken}

Plain == [words |-> {}, says |-> {}, whole |-> "", injection |-> FALSE, offDomain |-> FALSE,
          describesSelf |-> FALSE, asks |-> FALSE, length |-> 4]
Asking(words, says) == [Plain EXCEPT !.words = words, !.says = says]
MCTextsAsked == {
    Asking({"fees"}, {}), Asking({"zzz"}, {}), Asking({}, {}), Asking({"refund"}, {}), Asking({"join"}, {}),
    Asking({"login", "portal"}, {}), Asking({"billing"}, {"bi"}),
    Asking({"data", "analytics", "fees"}, {"data analytics"}),
    Asking({"tableau", "power", "bi", "excel"}, {"power bi & tableau", "excel", "bi"}),
    Asking({"powerbi", "course"}, {"powerbi", "bi"}),
    [Asking({"ai-for-everyone"}, {"ai-for-everyone"}) EXCEPT !.whole = "ai-for-everyone"],
    [Asking({"restaurant"}, {}) EXCEPT !.offDomain = TRUE],
    [Asking({"restaurant", "fees"}, {}) EXCEPT !.offDomain = TRUE, !.asks = TRUE],
    [Asking({"restaurant"}, {}) EXCEPT !.offDomain = TRUE, !.asks = TRUE],
    [Asking({"restaurant"}, {}) EXCEPT !.offDomain = TRUE, !.length = 12, !.describesSelf = TRUE],
    [Asking({"data", "analytics"}, {"data analytics"}) EXCEPT !.injection = TRUE]}
MCQuestions == [text : MCTextsAsked, state : {"DISCOVERY", "COURSE_QNA", "SUPPORT_QUERY"}]

-----------------------------------------------------------------------------
(* Intake: two payloads that are readable and one whose signature is not   *)
(* Meta's; messages without a time or an id, too old, from a number not    *)
(* listed; limits low enough to be met and a limiter of one sender.        *)

Msg(name, sender, sent, replies) ==
    [id |-> name, sender |-> sender, whole |-> TRUE, stamped |-> TRUE, sent |-> sent, replies |-> replies]
A1 == Msg("a1", "a", 0, 2)
A2 == Msg("a2", "a", 1, 1)
A3 == Msg("a3", "a", 0, 0)
B1 == [Msg("b1", "b", 0, 0) EXCEPT !.stamped = FALSE]
Old == Msg("old", "b", -3, 1)
Stranger == Msg("x1", "x", 0, 1)
Status == [Msg("st", "a", 0, 1) EXCEPT !.whole = FALSE]
Payload(host, signed, readable, messages) ==
    [host |-> host, signed |-> signed, readable |-> readable, messages |-> messages]
MCPayloads == {
    Payload("meta", TRUE, TRUE, <<A1, A2>>),
    Payload("other", TRUE, TRUE, <<Old, Status, B1, A3, Stranger>>),
    Payload("other", FALSE, TRUE, <<B1>>)}
MCSourceLimit == [limit |-> 1, window |-> 1, keys |-> 2]
MCSenderLimit == [limit |-> 2, window |-> 1, keys |-> 1]
Interchangeable == Permutations(Requests)
=============================================================================
