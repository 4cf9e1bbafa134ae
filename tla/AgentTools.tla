----------------------------- MODULE AgentTools -----------------------------
(***************************************************************************)
(* The read-only tools of the CMS agent (DemoCms.Agent/Tools) on top of    *)
(* the query API of the CMS: a tool resolves a period, reads the model's   *)
(* arguments leniently, asks the API, and fits the answer to a size.  The  *)
(* library changes and time passes between the question and its answer.    *)
(***************************************************************************)
EXTENDS MediaQueries

CONSTANTS
  Rows,            \* the media that may be uploaded, without the time of upload
  Start, Horizon,  \* the clock runs from Start to Horizon
  Searches, Statistics, SearchCalls, StatsCalls,   \* the questions, see MCAgentTools
  DefaultLimit, MaxLimit, DefaultListed, MaxListed, ToolTags, MaxResult,   \* limits of the tools
  AnyType, NotANumber                              \* what a model writes for "no type"; its number "NaN"

ASSUME ToolAssumption ==
  /\ Start \in Nat /\ Horizon \in Nat /\ \E d \in MonthStarts \ {0} : Start >= TicksPerDay * d
  /\ {DefaultLimit, MaxLimit, DefaultListed, MaxListed, ToolTags, MaxResult} \subseteq Nat \ {0}
  /\ DefaultLimit <= MaxLimit /\ MaxLimit <= MaxPageSize /\ MaxLimit <= MaxTop
  /\ DefaultListed <= MaxListed /\ MaxListed <= MaxTop /\ ToolTags <= MaxTags
  /\ \A n \in Names : NameLength[n] > MaxTextLength => \E m \in Names : NameLength[m] = MaxTextLength

IsCall(c) ==
  /\ c.text \in Names \cup {None} /\ c.type \in Names \cup {None, Bad, AnyType}
  /\ c.limit \in Int \cup {None, Bad, NotANumber}
  /\ {c.from, c.to} \subseteq Nat \cup {None, Bad}
  /\ c.tags \in Seq(SUBSET Names) /\ \A i \in DOMAIN c.tags : IsFiniteSet(c.tags[i])

\* The fields in error of a refusal.
ErrorFields ==
  {"q", "tags", "tagMatch", "contentType", "from", "to", "sort", "page", "pageSize", "groupBy", "top",
   "invalid_argument"}

ASSUME InputAssumption ==
  /\ Rows \subseteq Media({None}) /\ \A row \in Rows : IsFiniteSet(row.tags)
  /\ \A p \in Searches : p.filter \in Parameters(Nat) /\ {p.page, p.pageSize} \subseteq Int \cup {None}
  /\ \A p \in Statistics : p.filter \in Parameters(Nat) /\ p.top \in Int \cup {None}
  /\ \A c \in SearchCalls \cup StatsCalls : IsCall(c)
  /\ None \notin SearchCalls \cup StatsCalls \cup [errors : SUBSET ErrorFields]
  /\ AnyType \notin Names \cup {None, Bad} /\ NotANumber \notin Int \cup {None, Bad}

VARIABLES
  library,   \* the rows of the database
  now,       \* the clock
  asked,     \* the question under way
  reply      \* its answer

vars == <<library, now, asked, reply>>

-----------------------------------------------------------------------------
(* PeriodResolver: a range, or an error *)

Monday(t) == TicksPerDay * BucketStart(t, "week")
Month(t) == TicksPerDay * BucketStart(t, "month")
Today(t) == TicksPerDay * Day(t)
MonthBefore(t) == Month(Month(t) - 1)

Named(t) ==
  [today |-> <<Today(t), t>>, yesterday |-> <<Today(t) - TicksPerDay, Today(t)>>,
   this_week |-> <<Monday(t), t>>, last_week |-> <<Monday(t) - 7 * TicksPerDay, Monday(t)>>,
   last_7_days |-> <<t - 7 * TicksPerDay, t>>, last_30_days |-> <<t - 30 * TicksPerDay, t>>,
   this_month |-> <<Month(t), t>>, last_month |-> <<MonthBefore(t), Month(t)>>,
   this_year |-> <<0, t>>, all_time |-> <<None, None>>]

Inverted(from, to) == from # None /\ to # None /\ from >= to

Custom(from, to, t) ==
  IF from = Bad \/ to = Bad \/ (from = None /\ to = None) \/ Inverted(from, to)
  THEN [error |-> TRUE]
  ELSE [error |-> FALSE, from |-> from, to |-> Or(to, t)]

\* Dates count for "custom", or when no period is named.
Resolve(a, t) ==
  LET key == IF a.period # None THEN a.period
             ELSE IF a.from # None \/ a.to # None THEN "custom" ELSE "all_time"
  IN  CASE key = "custom" -> Custom(a.from, a.to, t)
        [] key \in DOMAIN Named(t) -> [error |-> FALSE, from |-> Named(t)[key][1], to |-> Named(t)[key][2]]
        [] OTHER -> [error |-> TRUE]

-----------------------------------------------------------------------------
(* ToolArgs and the filters of a call *)

\* A number is clamped; what is none falls back; NaN is parsed, clamped to NaN and cast to 0.
IntArg(value, fallback, min, max) ==
  CASE value \in {None, Bad} -> fallback
    [] value = NotANumber -> 0
    [] OTHER -> Max({min, Min({max, value})})

\* The first ToolTags elements of an array, letter case aside.  An element is a set of names: it
\* may hold commas, at which the API splits it.
Firsts(list) ==
  {i \in DOMAIN list : \A j \in 1 .. i - 1 : {Lower[n] : n \in list[j]} # {Lower[n] : n \in list[i]}}
StringListAll(list) == {list[i] : i \in Firsts(list)}
StringList(list) ==
  {list[i] : i \in {k \in Firsts(list) : Cardinality({j \in Firsts(list) : j < k}) < ToolTags}}

\* A text is cut to the length that the API takes; AnyType ("all") is no filter.
CutText(text) ==
  IF text # None /\ NameLength[text] > MaxTextLength
  THEN CHOOSE n \in Names : NameLength[n] = MaxTextLength ELSE text
NormaliseContentType(type) == IF type = AnyType THEN None ELSE type

Filters(c, period) ==
  [q |-> CutText(c.text), tags |-> UNION StringList(c.tags), match |-> IF c.matchAll THEN "all" ELSE None,
   type |-> NormaliseContentType(c.type), from |-> period.from, to |-> period.to]

SearchQuery(c, period) ==
  [filter |-> Filters(c, period), sort |-> c.sort, page |-> 1, pageSize |-> IntArg(c.limit, DefaultLimit, 1, MaxLimit)]
StatsQuery(c, period) ==
  [filter |-> Filters(c, period), groupBy |-> c.groupBy, top |-> IntArg(c.limit, DefaultLimit, 1, MaxLimit)]

\* list_tags: the statistics of all media, by tag.
NoFilter == [q |-> None, tags |-> {}, match |-> None, type |-> None, from |-> None, to |-> None]
TagsQuery(c) == [filter |-> NoFilter, groupBy |-> "tag", top |-> IntArg(c.limit, DefaultListed, 1, MaxListed)]

\* Entries are dropped from the end until the result fits.
Weight(m) == IF "tags" \in DOMAIN m THEN 1 + Cardinality(m.tags) ELSE 1
Fits(items, n) == MapThenSumSet(LAMBDA i : Weight(items[i]), 1 .. n) < MaxResult
FitList(items) ==
  LET n == Max({0} \cup {k \in 1 .. Len(items) : Fits(items, k)})
  IN  [items |-> SubSeq(items, 1, n), truncated |-> n < Len(items)]

-----------------------------------------------------------------------------
(* Questions and answers *)

Init == library = {} /\ now = Start /\ asked = None /\ reply = None

\* An upload adds a row of its time; that its tags come a save later is in MediaPipeline.
Upload(row) ==
  /\ reply = None /\ \A m \in library : m.id # row.id
  /\ library' = library \cup {[row EXCEPT !.at = now]}
  /\ UNCHANGED <<now, asked, reply>>

Tick == reply = None /\ now < Horizon /\ now' = now + 1 /\ UNCHANGED <<library, asked, reply>>

\* The controller: a refusal, or a query whose rows are read next.  `call` is the tool call
\* behind it, None for a question of the frontend.
Parsed(kind, p) == IF kind = "search" THEN ParseSearch(p) ELSE ParseStats(p)
Ask(kind, p, call) ==
  LET parsed == Parsed(kind, p)
  IN  /\ asked' = [kind |-> kind, p |-> p, query |-> parsed.query, call |-> call, at |-> now]
      /\ reply' = IF parsed.errors = {} THEN None ELSE [errors |-> parsed.errors]

AskSearch == \E p \in Searches : Ask("search", p, None)
AskStats == \E p \in Statistics : Ask("stats", p, None)

\* A tool refuses a period it cannot resolve and a sort or grouping it does not know.
ToolError(c) == asked' = [kind |-> "tool_error", call |-> c] /\ reply' = [errors |-> {"invalid_argument"}]

CallSearch ==
  \E c \in SearchCalls :
    IF Resolve(c, now).error \/ c.sort \notin Sorts THEN ToolError(c)
    ELSE Ask("search", SearchQuery(c, Resolve(c, now)), c)
CallStats ==
  \E c \in StatsCalls :
    IF Resolve(c, now).error \/ c.groupBy \notin Groupings THEN ToolError(c)
    ELSE Ask("stats", StatsQuery(c, Resolve(c, now)), c)
CallTags == \E c \in SearchCalls : Ask("stats", TagsQuery(c), c)

Question ==
  /\ asked = None
  /\ AskSearch \/ AskStats \/ CallSearch \/ CallStats \/ CallTags
  /\ UNCHANGED <<library, now>>

\* The answer of the API, a refusal too, or what a tool hands on of it.
AnswerTo(question) ==
  LET r == IF question.kind = "search" THEN Search(library, question.query)
           ELSE Stats(library, question.query, question.at)
      f == FitList(IF question.kind = "search" THEN r.items ELSE r.groups)
  IN  IF question.call = None \/ "errors" \in DOMAIN r THEN r
      ELSE IF question.kind = "search" THEN [items |-> f.items, truncated |-> f.truncated, total |-> r.total]
      ELSE [totals |-> r.totals, groups |-> f.items, truncated |-> r.truncated \/ f.truncated]

Answer ==
  /\ asked # None /\ reply = None
  /\ reply' = AnswerTo(asked)
  /\ UNCHANGED <<library, now, asked>>

Forget == reply # None /\ asked' = None /\ reply' = None /\ UNCHANGED <<library, now>>

Next == (\E row \in Rows : Upload(row)) \/ Tick \/ Question \/ Answer \/ Forget

Spec == Init /\ [][Next]_vars

-----------------------------------------------------------------------------
(* Properties *)

Answered(kind) == reply # None /\ "errors" \notin DOMAIN reply /\ asked.kind = kind

\* What a search should find, said without the query: letter case never matters.
Same(a, b) == Lower[a] = Lower[b]
Wanted(m, p) ==
  /\ p.q # None => \E w \in m.words : Same(w, p.q)
  /\ p.tags # {} /\ p.match = "all" => \A t \in p.tags : \E n \in m.tags : Same(n, t)
  /\ p.tags # {} /\ p.match # "all" => \E t \in p.tags, n \in m.tags : Same(n, t)
  /\ p.type # None => p.type \in {m.type, Family[m.type]}
  /\ (p.from # None => p.from <= m.at) /\ (p.to # None => m.at < p.to)
Found(p) == {m \in library : Wanted(m, p)}

\* A page holds the matching rows whose places in the whole order are its own, so that the pages
\* together hold every row once, and a tool hands on a prefix of its page and says so
\* (MediaQueryService, MediaToolset).  Known exceptions: a name of some media is the one asked
\* for but for a capital outside ASCII, and a page whose offset is no int.
Spelled(m, n) == \A x \in m.tags \cup m.words : Lower[x] = n => DbLower(x) = n
FoundAsAsked ==
  Answered("search") =>
    LET p == asked.p.filter
        q == asked.query
        rows == Found(p)
        Place(m) == 1 + Cardinality({x \in rows : Precedes(x, m, q.sort)})
        page == {m \in rows : Place(m) \in (q.page - 1) * q.size + 1 .. q.page * q.size}
        words == {Lower[x] : x \in p.tags \cup ({p.q} \ {None})}
    IN  (\A m \in library, n \in words : Spelled(m, n)) /\ (q.page - 1) * q.size <= IntMax
          => /\ reply.total = Cardinality(rows)
             /\ \A i \in DOMAIN reply.items : Place(reply.items[i]) = (q.page - 1) * q.size + i
             /\ IF asked.call = None THEN ToSet(reply.items) = page
                ELSE /\ ToSet(reply.items) \subseteq page
                     /\ reply.truncated <=> ToSet(reply.items) # page

\* The buckets g of the matching rows for a question asked at t: the first holds the start of
\* the range (the first upload when none is given), the last its last instant, none is left out
\* between them, and each counts the rows from its first day to the next bucket.
Buckets(g, rows, q, t) ==
  LET start == IF q.filter.from # None THEN q.filter.from ELSE Min({m.at : m \in rows})
      end == Or(q.filter.to, t)
      InBucket(m, i) ==
        TicksPerDay * g[i].key <= m.at /\ (i < Len(g) => m.at < TicksPerDay * g[i + 1].key)
  IN  IF rows = {} /\ q.filter.from = None THEN g = <<>>
      ELSE /\ g # <<>> /\ g[1].key = BucketStart(start, q.groupBy)
           /\ IF start < end THEN g[Len(g)].key = BucketStart(end - 1, q.groupBy) ELSE Len(g) = 1
           /\ \A i \in 1 .. Len(g) - 1 :
                /\ g[i].key < g[i + 1].key
                /\ \A d \in g[i].key + 1 .. g[i + 1].key - 1 : BucketStart(TicksPerDay * d, q.groupBy) = g[i].key
           /\ (\A m \in rows : q.filter.to = None => m.at < t) =>
                /\ \A i \in DOMAIN g : g[i].count = Cardinality({m \in rows : InBucket(m, i)})
                /\ MapThenSumSet(LAMBDA i : g[i].count, DOMAIN g) = Cardinality(rows)

\* Time buckets cover the range from its start to its end without a gap, and each counts its own
\* rows, except one uploaded after the question read the clock (BuildTimeBuckets).  A group counts
\* each of its rows once, and no dropped group is larger than a kept one (GroupByKey, ApplyTop).
StatsAddUp ==
  Answered("stats") =>
    LET q == asked.query
        rows == LoadRows(library, q.filter)
        g == reply.groups
        KeysOf(m) == {Lower[n] : n \in IF q.groupBy = "tag" THEN m.tags ELSE {m.type}}
        keys == UNION {KeysOf(m) : m \in rows}
        Size(k) == Cardinality({m \in rows : k \in KeysOf(m)})
    IN  /\ q.groupBy \in {"tag", "contentType"} =>
             /\ \A i \in DOMAIN g : g[i].key \in keys /\ g[i].count = Size(g[i].key)
             /\ \A k \in keys \ {g[i].key : i \in DOMAIN g} : \A i \in DOMAIN g : g[i].count >= Size(k)
             /\ reply.truncated <=> Len(g) < Cardinality(keys)
        /\ q.groupBy \in TimeGroups /\ asked.call = None =>
             Buckets(g, rows, q, asked.at) /\ reply.totals.count = Cardinality(rows)

\* The days of a question's range have more than MaxTimeBuckets buckets.
TooLong ==
  LET q == asked.query
      rows == LoadRows(library, q.filter)
      start == IF q.filter.from # None THEN q.filter.from ELSE Min({m.at : m \in rows})
      days == Day(start) .. Day(Max({start, Or(q.filter.to, asked.at) - 1}))
  IN  /\ asked.kind = "stats" /\ q.groupBy \in TimeGroups /\ (q.filter.from # None \/ rows # {})
      /\ Cardinality({BucketStart(TicksPerDay * d, q.groupBy) : d \in days}) > MaxTimeBuckets

\* What the model asks through a tool is never refused by the API, unless the period is empty
\* (it begins at this very moment, or in the future), a content type is none, a tag is too long,
\* the elements of the tags hold commas, the limit is NaN, or a range of time has too many
\* buckets (MediaToolset.Filters against MediaQueryParser and MediaQueryService).
ToolQueriesAreAccepted ==
  reply # None /\ "errors" \in DOMAIN reply /\ asked.kind # "tool_error" /\ asked.call # None
    => \/ asked.p.filter.from # None /\ asked.p.filter.from >= asked.at
       \/ asked.call.type = Bad
       \/ \E t \in asked.p.filter.tags : NameLength[t] > MaxTagLength
       \/ \E i \in DOMAIN asked.call.tags : Cardinality(asked.call.tags[i]) > 1
       \/ asked.call.limit = NotANumber
       \/ TooLong
=============================================================================
