---------------------------- MODULE MediaQueries ----------------------------
(***************************************************************************)
(* Search and statistics over the media library: the query-string parser   *)
(* (DemoCms.Api/Queries) and the query service (DemoCms.Infrastructure/    *)
(* Services/MediaQueryService), as operators.                              *)
(*                                                                         *)
(* A name (a tag, a word of a title, a content type) is a number, in       *)
(* alphabetical order; Lower is its lower case, which the database         *)
(* computes for the names of Ascii only.  A word "contains" a text when    *)
(* they are the same name.  Time is counted in ticks, TicksPerDay of them  *)
(* a day.  What parameters and queries inherit from a filter is in their   *)
(* field `filter`.                                                         *)
(***************************************************************************)
EXTENDS Integers, Sequences, FiniteSets, SequencesExt, FiniteSetsExt

CONSTANTS
  Names, Lower, Ascii,   \* the names, their lower case, those the database can lower
  NameLength,            \* [Names -> Nat]
  Family,                \* [content types -> families], all of them names
  TicksPerDay, FirstMonday, MonthStarts,   \* the calendar, in days
  MaxTextLength, MaxTags, MaxTagLength, MaxPageSize, MaxTop, MaxTimeBuckets,
  DefaultSize,           \* of a page, and of a list of groups
  IntMax,                \* int.MaxValue
  None, Bad              \* no value; text that is no date, type, match or number

ASSUME QueryAssumption ==
  /\ Names \subseteq Nat /\ Lower \in [Names -> Names] /\ Ascii \subseteq Names /\ NameLength \in [Names -> Nat]
  /\ \A n \in Names : Lower[Lower[n]] = Lower[n] /\ NameLength[Lower[n]] = NameLength[n]
  /\ DOMAIN Family \subseteq Names /\ \A type \in DOMAIN Family : Family[type] \in Names \ DOMAIN Family
  /\ TicksPerDay \in Nat \ {0} /\ FirstMonday \in 0 .. 6
  /\ MonthStarts \subseteq Nat /\ 0 \in MonthStarts
  /\ {MaxTextLength, MaxTags, MaxTagLength, MaxPageSize, MaxTop, MaxTimeBuckets, DefaultSize, IntMax} \subseteq Nat \ {0}
  /\ {None, Bad} \cap Int = {} /\ None # Bad

\* The parameters of a filter, and the rows of the database.
Parameters(times) ==
  [q : Names \cup {None}, tags : SUBSET Names, match : {"any", "all", None, Bad}, type : Names \cup {None, Bad},
   from : times \cup {None, Bad}, to : times \cup {None, Bad}]
Media(times) ==
  [id : Nat, at : times, size : Nat, tags : SUBSET Names, words : SUBSET Names, title : Int, type : DOMAIN Family]

When(c, field) == IF c THEN {field} ELSE {}

-----------------------------------------------------------------------------
(* The parser: parameters to a query and the set of fields in error *)

Sorts == {"uploadedAt_desc", "uploadedAt_asc", "size_desc", "size_asc", "title_asc"}
TimeGroups == {"day", "week", "month"}
Groupings == {"none", "contentType", "tag"} \cup TimeGroups

\* A family may be written "image", "image/" or "image/*"; Bad is text that is no type at all.
ContentType(type) == IF type \in {None, Bad} THEN None ELSE type
Exact(type) == type \in DOMAIN Family

\* An instant; Bad is text that is none.
Instant(value) == IF value = Bad THEN None ELSE value

Filter(p) ==
  LET query == [text |-> p.q, tags |-> {Lower[t] : t \in p.tags},
                match |-> IF p.match = "all" THEN "all" ELSE "any",
                type |-> ContentType(p.type), from |-> Instant(p.from), to |-> Instant(p.to)]
      inverted == query.from # None /\ query.to # None /\ query.from >= query.to
  IN  [query |-> query,
       errors |-> When(p.q # None /\ NameLength[p.q] > MaxTextLength, "q")
                  \cup When(Cardinality(query.tags) > MaxTags, "tags")
                  \cup When(\E t \in query.tags : NameLength[t] > MaxTagLength, "tags")
                  \cup When(p.match \notin {None, "any", "all"}, "tagMatch")
                  \cup When(p.type = Bad, "contentType")
                  \cup When(p.from = Bad, "from") \cup When(p.to = Bad \/ inverted, "to")]

Or(value, default) == IF value = None THEN default ELSE value

ParseSearch(p) ==
  LET f == Filter(p.filter)
      query == [filter |-> f.query, sort |-> Or(p.sort, "uploadedAt_desc"), page |-> Or(p.page, 1),
                size |-> Or(p.pageSize, DefaultSize)]
  IN  [query |-> query,
       errors |-> f.errors \cup When(query.sort \notin Sorts, "sort")
                  \cup When(query.page < 1, "page")
                  \cup When(query.size \notin 1 .. MaxPageSize, "pageSize")]

ParseStats(p) ==
  LET f == Filter(p.filter)
      query == [filter |-> f.query, groupBy |-> Or(p.groupBy, "none"), top |-> Or(p.top, DefaultSize)]
  IN  [query |-> query,
       errors |-> f.errors \cup When(query.groupBy \notin Groupings, "groupBy")
                  \cup When(query.top \notin 1 .. MaxTop, "top")]

-----------------------------------------------------------------------------
(* The rows of a query *)

DbLower(n) == IF n \in Ascii THEN Lower[n] ELSE n

HasTag(m, t) == \E n \in m.tags : DbLower(n) = t
MatchesTags(m, q) ==
  IF q.match = "all" THEN \A t \in q.tags : HasTag(m, t) ELSE \E t \in q.tags : HasTag(m, t)

LoadRows(library, q) ==
  {m \in library :
     /\ q.text # None => \E w \in m.words : DbLower(w) = Lower[q.text]
     /\ q.tags # {} => MatchesTags(m, q)
     /\ q.type # None => IF Exact(q.type) THEN m.type = q.type ELSE Family[m.type] = q.type
     /\ q.from # None => m.at >= q.from
     /\ q.to # None => m.at < q.to}

\* Ties of the sort key are broken by id.
Key(m, sort) ==
  CASE sort = "uploadedAt_asc" -> m.at
    [] sort = "size_desc" -> -m.size
    [] sort = "size_asc" -> m.size
    [] sort = "title_asc" -> m.title
    [] OTHER -> -m.at
Precedes(a, b, sort) == Key(a, sort) < Key(b, sort) \/ (Key(a, sort) = Key(b, sort) /\ a.id < b.id)

\* The elements of a set in order.
Sorted(S, Before(_, _)) ==
  CHOOSE s \in [1 .. Cardinality(S) -> S] : \A i, j \in DOMAIN s : i < j => Before(s[i], s[j])
Sort(rows, sort) == Sorted(rows, LAMBDA a, b : Precedes(a, b, sort))

\* Unchecked int arithmetic, and Skip, which skips nothing for a negative count.
Int32(n) == ((n + IntMax + 1) % (2 * IntMax + 2)) - IntMax - 1
OffsetPastPage(q) == Int32(q.page * q.size)
Offset(q) == Int32((q.page - 1) * q.size)

Search(library, q) ==
  LET ordered == Sort(LoadRows(library, q.filter), q.sort)
      skip == Max({0, Offset(q)})
  IN  [items |-> SubSeq(ordered, skip + 1, Min({Len(ordered), skip + q.size})),
       total |-> Len(ordered)]

-----------------------------------------------------------------------------
(* Statistics *)

Bytes(rows) == MapThenSumSet(LAMBDA m : m.size, rows)

Totals(rows) ==
  IF rows = {} THEN [count |-> 0, bytes |-> 0, average |-> 0, untagged |-> 0, largest |-> None]
  ELSE LET n == Cardinality(rows)
       IN  [count |-> n, bytes |-> Bytes(rows),
            average |-> (2 * Bytes(rows) + n) \div (2 * n),     \* rounded, halves away from zero
            untagged |-> Cardinality({m \in rows : m.tags = {}}),
            largest |-> Sort(rows, "size_desc")[1].id]

Group(key, rows) == [key |-> key, count |-> Cardinality(rows), bytes |-> Bytes(rows)]

\* One group for every key of a row, letter case aside; a row counts once in each of its groups.
GroupByKey(rows, keys) ==
  LET groups == {Group(k, {m \in rows : \E n \in keys[m] : Lower[n] = k}) :
                   k \in {Lower[n] : n \in UNION {keys[m] : m \in rows}}}
  IN  Sorted(groups, LAMBDA a, b : a.count > b.count \/ (a.count = b.count /\ a.key < b.key))

\* Buckets are days, weeks from Monday, or months; a bucket is known by the day it starts.
Day(t) == t \div TicksPerDay
BucketStart(t, by) ==
  CASE by = "week" -> Day(t) - ((Day(t) - FirstMonday) % 7)
    [] by = "month" -> Max({d \in MonthStarts : d <= Day(t)})
    [] OTHER -> Day(t)
LastIncludedLate(start, end) == end
LastIncluded(start, end) == IF end > start THEN end - 1 ELSE start

\* The range starts at the first matching upload when no start is given, and ends now when no end is.
RangeStart(rows, q) ==
  IF q.filter.from # None THEN q.filter.from ELSE IF rows # {} THEN Min({m.at : m \in rows}) ELSE None
BucketDays(rows, q, now) ==
  LET start == RangeStart(rows, q)
  IN  IF start = None THEN {}
      ELSE {BucketStart(t, q.groupBy) : t \in start .. LastIncluded(start, Or(q.filter.to, now))}

\* Every bucket of the range, the empty ones too.
TimeBuckets(rows, q, now) ==
  Sorted({Group(d, {m \in rows : BucketStart(m.at, q.groupBy) = d}) : d \in BucketDays(rows, q, now)},
         LAMBDA a, b : a.key < b.key)

ApplyTop(groups, top) ==
  [groups |-> SubSeq(groups, 1, Min({Len(groups), top})), truncated |-> Len(groups) > top]

\* `now` was read before the rows were.  Too many buckets are a refusal (an exception that the
\* controller turns into a validation problem).
Stats(library, q, now) ==
  LET rows == LoadRows(library, q.filter)
      keyed == GroupByKey(rows, [m \in rows |-> IF q.groupBy = "tag" THEN m.tags ELSE {m.type}])
      groups == CASE q.groupBy = "none" -> [groups |-> <<>>, truncated |-> FALSE]
                  [] q.groupBy \in {"tag", "contentType"} -> ApplyTop(keyed, q.top)
                  [] OTHER -> [groups |-> TimeBuckets(rows, q, now), truncated |-> FALSE]
  IN  IF q.groupBy \in TimeGroups /\ Cardinality(BucketDays(rows, q, now)) > MaxTimeBuckets
      THEN [errors |-> {"groupBy"}]
      ELSE [totals |-> Totals(rows), groups |-> groups.groups, truncated |-> groups.truncated]
=============================================================================
