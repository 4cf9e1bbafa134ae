-------------------------- MODULE AgentTools_proofs --------------------------
(***************************************************************************)
(* Theorems about AgentTools and MediaQueries, for any names, calendar,    *)
(* limits, media and questions.                                            *)
(*                                                                         *)
(*   ToolsInvariant          what is under way is a question that may be   *)
(*                           asked, and the answer that it has             *)
(*   PagesAreWhatWasAsked    the pages of a search                         *)
(*   ToolsAskWhatIsAccepted  what the API refuses of a tool                *)
(*   StatisticsAddUp         the groups of the statistics                  *)
(*                                                                         *)
(* The steps are few; what the theorems rest on is what the operators of   *)
(* MediaQueries compute.  A sorted set is a sequence in which an element   *)
(* has as many before it as are smaller (PlacesInOrder), pages and lists   *)
(* handed on are slices of it, the buckets of days grow with the days      *)
(* (BucketsGrow), and a sum of counts is the size of the set that they     *)
(* divide (CountsAddUp).                                                   *)
(***************************************************************************)
EXTENDS AgentTools, FunctionTheorems, FiniteSetTheorems, WellFoundedInduction, TLAPS

-----------------------------------------------------------------------------
(* Numbers.                                                                *)

(* A set of naturals has a least element.                                  *)
LEMMA LeastExists ==
  ASSUME NEW S \in SUBSET Nat, S # {}
  PROVE  \E i \in S : \A j \in S : i <= j
<1>1. IsWellFoundedOn(OpToRel(<, Nat), Nat)
  BY NatLessThanWellFounded
<1>2. PICK i \in S : \A j \in S : <<j, i>> \notin OpToRel(<, Nat)
  BY <1>1, WFMin
<1>3. \A j \in S : i <= j
  <2> SUFFICES ASSUME NEW j \in S, j < i PROVE FALSE
    OBVIOUS
  <2>1. <<j, i>> \in {ss \in Nat \X Nat : ss[1] < ss[2]}
    OBVIOUS
  <2> QED
    BY <1>2, <2>1 DEF OpToRel
<1> QED
  BY <1>3

(* The least element.                                                      *)
LEMMA MinIs ==
  ASSUME NEW S \in SUBSET Nat, S # {}
  PROVE  Min(S) \in S /\ \A x \in S : Min(S) <= x
BY LeastExists DEF Min

(* The numbers up to n.                                                    *)
LEMMA UpToSize ==
  ASSUME NEW n \in Nat
  PROVE  IsFiniteSet(1 .. n) /\ Cardinality(1 .. n) = n
BY FS_Interval

(* A set of integers that is bounded from above has a greatest element.    *)
LEMMA MaxIs ==
  ASSUME NEW S \in SUBSET Int, S # {}, NEW n \in Int, \A x \in S : x <= n
  PROVE  Max(S) \in S /\ \A x \in S : x <= Max(S)
<1> DEFINE T == {n - x : x \in S}
<1>1. T \in SUBSET Nat /\ T # {}
  <2>1. \A x \in S : n - x \in Nat
    OBVIOUS
  <2> QED
    BY <2>1
<1>2. PICK i \in T : \A j \in T : i <= j
  BY <1>1, LeastExists
<1>3. PICK m \in S : i = n - m
  BY <1>2
<1>4. \A x \in S : m >= x
  <2> SUFFICES ASSUME NEW x \in S PROVE m >= x
    OBVIOUS
  <2>1. n - x \in T
    OBVIOUS
  <2> QED
    BY <1>2, <1>3, <2>1
<1> QED
  BY <1>4 DEF Max

-----------------------------------------------------------------------------
(* Orders.  A strict order on a set is given as a set of pairs.            *)

Orders(R, S) ==
  /\ \A x, y \in S : x # y => <<x, y>> \in R \/ <<y, x>> \in R
  /\ \A x \in S : <<x, x>> \notin R
  /\ \A x, y, z \in S : <<x, y>> \in R /\ <<y, z>> \in R => <<x, z>> \in R

Below(x, R, S) == {y \in S : <<y, x>> \in R}
InOrder(s, R) == \A i, j \in DOMAIN s : i < j => <<s[i], s[j]>> \in R

(* The sequence s of length n has each element of S once, and at its place. *)
Placed(s, n, R, S) ==
  /\ \A x \in S : \E i \in 1 .. n : s[i] = x
  /\ \A i, j \in 1 .. n : s[i] = s[j] => i = j
  /\ \A i \in 1 .. n : Cardinality(Below(s[i], R, S)) = i - 1

(* A sequence in order, as long as its set is large, places every element. *)
LEMMA PlacesInOrder ==
  ASSUME NEW S, IsFiniteSet(S), NEW n \in Nat, n = Cardinality(S), NEW R, Orders(R, S),
         NEW s \in [1 .. n -> S], InOrder(s, R)
  PROVE  Placed(s, n, R, S)
<1>1. IsFiniteSet(1 .. n) /\ Cardinality(1 .. n) = n
  BY FS_Interval
<1>2. ASSUME NEW i \in 1 .. n, NEW j \in 1 .. n, i < j
      PROVE  s[i] # s[j] /\ <<s[i], s[j]>> \in R /\ <<s[j], s[i]>> \notin R
  <2>1. s[i] \in S /\ s[j] \in S /\ <<s[i], s[j]>> \in R
    BY <1>2 DEF InOrder
  <2> QED
    BY <2>1 DEF Orders
<1>3. ASSUME NEW i \in 1 .. n, NEW j \in 1 .. n, s[i] = s[j] PROVE i = j
  <2>1. i < j \/ j < i \/ i = j
    OBVIOUS
  <2> QED
    BY <1>2, <1>3, <2>1
<1>4. s \in Injection(1 .. n, S)
  BY <1>3, Fun_IsInj
<1>5. s \in Surjection(1 .. n, S)
  BY <1>1, <1>4, FS_Injection
<1>6. \A x \in S : \E i \in 1 .. n : s[i] = x
  BY <1>5 DEF Surjection
<1>7. ASSUME NEW i \in 1 .. n PROVE Cardinality(Below(s[i], R, S)) = i - 1
  <2> DEFINE f == [k \in 1 .. i - 1 |-> s[k]]
  <2>1. ASSUME NEW y \in Below(s[i], R, S) PROVE \E k \in 1 .. i - 1 : y = s[k]
    <3>1. PICK k \in 1 .. n : y = s[k] /\ <<s[k], s[i]>> \in R
      BY <1>6, <2>1 DEF Below
    <3>2. k # i
      BY <3>1 DEF Orders
    <3>3. ~(i < k)
      BY <1>2, <3>1
    <3> QED
      BY <3>1, <3>2, <3>3
  <2>2. ASSUME NEW k \in 1 .. i - 1 PROVE s[k] \in Below(s[i], R, S)
    <3>1. k \in 1 .. n /\ k < i
      OBVIOUS
    <3> QED
      BY <1>2, <3>1 DEF Below
  <2>3. f \in Bijection(1 .. i - 1, Below(s[i], R, S))
    <3>1. f \in [1 .. i - 1 -> Below(s[i], R, S)]
      BY <2>2
    <3>2. \A a, b \in 1 .. i - 1 : f[a] = f[b] => a = b
      BY <1>3
    <3>3. \A y \in Below(s[i], R, S) : \E a \in 1 .. i - 1 : f[a] = y
      BY <2>1
    <3> QED
      BY <3>1, <3>2, <3>3, Fun_IsBij
  <2>4. IsFiniteSet(1 .. i - 1) /\ Cardinality(1 .. i - 1) = i - 1
    BY UpToSize
  <2> QED
    BY <2>3, <2>4, FS_Bijection DEF ExistsBijection
<1> QED
  BY <1>3, <1>6, <1>7 DEF Placed

(* A finite set has a sequence of its elements in order.                   *)
LEMMA OrderExists ==
  ASSUME NEW S, IsFiniteSet(S), NEW n \in Nat, n = Cardinality(S), NEW R, Orders(R, S)
  PROVE  \E s \in [1 .. n -> S] : InOrder(s, R)
<1> DEFINE Rank(x) == Cardinality(Below(x, R, S))
           f == [x \in S |-> Rank(x) + 1]
<1>1. IsFiniteSet(1 .. n) /\ Cardinality(1 .. n) = n
  BY FS_Interval
<1>2. ASSUME NEW x \in S PROVE IsFiniteSet(Below(x, R, S)) /\ Rank(x) \in Nat /\ Rank(x) < n
  <2>1. Below(x, R, S) \in SUBSET S /\ x \notin Below(x, R, S)
    BY DEF Below, Orders
  <2>2. IsFiniteSet(Below(x, R, S)) /\ Rank(x) <= n /\ Rank(x) # n
    BY <2>1, FS_Subset
  <2>3. Rank(x) \in Nat
    BY <2>2, FS_CardinalityType
  <2> QED
    BY <2>2, <2>3
<1>3. ASSUME NEW x \in S, NEW y \in S, <<x, y>> \in R PROVE Rank(x) < Rank(y)
  <2>1. Below(x, R, S) \in SUBSET Below(y, R, S) /\ x \in Below(y, R, S) /\ x \notin Below(x, R, S)
    BY <1>3 DEF Below, Orders
  <2>2. Rank(x) <= Rank(y) /\ Rank(x) # Rank(y)
    BY <1>2, <2>1, FS_Subset
  <2>3. Rank(x) \in Nat /\ Rank(y) \in Nat
    BY <1>2
  <2> QED
    BY <2>2, <2>3
<1>4. \A x \in S : Rank(x) \in Nat /\ Rank(x) < n
  BY <1>2
<1>5. \A x, y \in S : <<x, y>> \in R => Rank(x) < Rank(y)
  BY <1>3
<1> HIDE DEF Rank
<1>6. f \in [S -> 1 .. n]
  BY <1>4
<1>7. ASSUME NEW x \in S, NEW y \in S, f[x] = f[y] PROVE x = y
  <2>1. Rank(x) = Rank(y)
    BY <1>4, <1>7
  <2>2. <<x, y>> \notin R /\ <<y, x>> \notin R
    BY <1>4, <1>5, <2>1
  <2> QED
    BY <2>2 DEF Orders
<1>8. f \in Injection(S, 1 .. n)
  BY <1>6, <1>7, Fun_IsInj
<1>9. f \in Surjection(S, 1 .. n)
  BY <1>1, <1>8, FS_Injection
<1>10. \A i \in 1 .. n : \E x \in S : f[x] = i
  BY <1>9 DEF Surjection
<1> DEFINE s == [i \in 1 .. n |-> CHOOSE x \in S : f[x] = i]
<1>11. ASSUME NEW i \in 1 .. n PROVE s[i] \in S /\ Rank(s[i]) = i - 1
  <2>1. s[i] \in S /\ f[s[i]] = i
    BY <1>10
  <2> QED
    BY <1>4, <2>1
<1>12. ASSUME NEW i \in 1 .. n, NEW j \in 1 .. n, i < j PROVE <<s[i], s[j]>> \in R
  <2>1. s[i] \in S /\ s[j] \in S /\ Rank(s[i]) = i - 1 /\ Rank(s[j]) = j - 1
    BY <1>11
  <2> HIDE DEF s
  <2>2. s[i] # s[j] /\ ~(Rank(s[j]) < Rank(s[i]))
    BY <1>12, <2>1
  <2>3. <<s[j], s[i]>> \notin R
    BY <1>5, <2>1, <2>2
  <2> QED
    BY <2>1, <2>2, <2>3 DEF Orders
<1>13. s \in [1 .. n -> S] /\ InOrder(s, R)
  BY <1>11, <1>12 DEF InOrder
<1> QED
  BY <1>13

-----------------------------------------------------------------------------
(* Filters and orders of the query service.                                *)

Unique(rows) == \A a, b \in rows : a.id = b.id => a = b

(* A sort key is a number.                                                 *)
LEMMA KeyIsInt ==
  ASSUME NEW m \in Media(Nat), NEW sort
  PROVE  Key(m, sort) \in Int /\ m.id \in Nat
<1>1. m.at \in Nat /\ m.size \in Nat /\ m.title \in Int /\ m.id \in Nat
  BY DEF Media
<1> QED
  BY <1>1 DEF Key

(* The order of a search is strict, as ties are broken by ids.             *)
LEMMA PrecedesOrders ==
  ASSUME NEW rows \in SUBSET Media(Nat), Unique(rows), NEW sort
  PROVE  Orders({p \in rows \X rows : Precedes(p[1], p[2], sort)}, rows)
<1> DEFINE R == {p \in rows \X rows : Precedes(p[1], p[2], sort)}
<1>1. \A x \in rows : Key(x, sort) \in Int /\ x.id \in Int
  BY KeyIsInt
<1>2. \A x, y \in rows : <<x, y>> \in R <=> Precedes(x, y, sort)
  OBVIOUS
<1> HIDE DEF R
<1>3. \A x, y \in rows : x # y => <<x, y>> \in R \/ <<y, x>> \in R
  BY <1>1, <1>2 DEF Precedes, Unique
<1>4. \A x \in rows : <<x, x>> \notin R
  BY <1>1, <1>2 DEF Precedes
<1>5. \A x, y, z \in rows : <<x, y>> \in R /\ <<y, z>> \in R => <<x, z>> \in R
  BY <1>1, <1>2 DEF Precedes
<1>6. Orders(R, rows)
  BY <1>3, <1>4, <1>5 DEF Orders
<1> QED
  BY <1>6 DEF R

(* The sorted rows are the rows, each at its place.                        *)
LEMMA SortIs ==
  ASSUME NEW rows \in SUBSET Media(Nat), IsFiniteSet(rows), Unique(rows), NEW sort,
         NEW n \in Nat, n = Cardinality(rows)
  PROVE  /\ Sort(rows, sort) \in [1 .. n -> rows]
         /\ \A x \in rows : \E i \in 1 .. n : Sort(rows, sort)[i] = x
         /\ \A i, j \in 1 .. n : Sort(rows, sort)[i] = Sort(rows, sort)[j] => i = j
         /\ \A i \in 1 .. n : Cardinality({x \in rows : Precedes(x, Sort(rows, sort)[i], sort)}) = i - 1
<1> DEFINE R == {p \in rows \X rows : Precedes(p[1], p[2], sort)}
           s == Sort(rows, sort)
<1>1. Orders(R, rows)
  BY PrecedesOrders
<1>2. \A x, y \in rows : <<x, y>> \in R <=> Precedes(x, y, sort)
  OBVIOUS
<1> HIDE DEF R
<1>3. \E q \in [1 .. n -> rows] : \A i, j \in DOMAIN q : i < j => Precedes(q[i], q[j], sort)
  <2>1. PICK q \in [1 .. n -> rows] : InOrder(q, R)
    BY <1>1, OrderExists
  <2>2. \A i, j \in DOMAIN q : i < j => Precedes(q[i], q[j], sort)
    BY <1>2, <2>1 DEF InOrder
  <2> QED
    BY <2>2
<1>4. /\ s \in [1 .. n -> rows]
      /\ \A i, j \in DOMAIN s : i < j => Precedes(s[i], s[j], sort)
  BY <1>3 DEF Sort, Sorted
<1> HIDE DEF s
<1>5. InOrder(s, R)
  BY <1>2, <1>4 DEF InOrder
<1>6. /\ \A x \in rows : \E i \in 1 .. n : s[i] = x
      /\ \A i, j \in 1 .. n : s[i] = s[j] => i = j
      /\ \A i \in 1 .. n : Cardinality(Below(s[i], R, rows)) = i - 1
  <2>1. Placed(s, n, R, rows)
    BY <1>1, <1>4, <1>5, PlacesInOrder
  <2> QED
    BY <2>1 DEF Placed
<1>7. ASSUME NEW i \in 1 .. n PROVE Below(s[i], R, rows) = {x \in rows : Precedes(x, s[i], sort)}
  BY <1>2, <1>4 DEF Below
<1>8. \A i \in 1 .. n : Cardinality({x \in rows : Precedes(x, s[i], sort)}) = i - 1
  BY <1>6, <1>7
<1> QED
  BY <1>4, <1>6, <1>8 DEF s

(* What a filter of the API loads is what was wanted.                      *)
Words(p) == {Lower[x] : x \in p.tags \cup ({p.q} \ {None})}

(* The fields of the parameters of a filter, and of a row.                 *)
LEMMA ParameterTypes ==
  ASSUME NEW p \in Parameters(Int)
  PROVE  /\ p.q \in Names \cup {None} /\ p.tags \in SUBSET Names /\ p.type \in Names \cup {None, Bad}
         /\ p.from \in Int \cup {None, Bad} /\ p.to \in Int \cup {None, Bad}
BY DEF Parameters

LEMMA MediaTypes ==
  ASSUME NEW m \in Media(Nat)
  PROVE  /\ m.id \in Nat /\ m.at \in Nat /\ m.size \in Nat /\ m.title \in Int /\ m.type \in DOMAIN Family
         /\ m.tags \in SUBSET Names /\ m.words \in SUBSET Names
BY DEF Media

(* The database finds a name that is spelled as it can read, and no other. *)
LEMMA DbLowerIs ==
  ASSUME NEW m \in Media(Nat), NEW t \in Names, Spelled(m, Lower[t]), NEW x \in m.tags \cup m.words
  PROVE  DbLower(x) = Lower[t] <=> Same(x, t)
<1>1. x \in Names /\ Lower[Lower[t]] = Lower[t]
  BY QueryAssumption, MediaTypes
<1> QED
  BY <1>1 DEF DbLower, Same, Spelled

(* The query of a filter without errors says what its parameters say.      *)
LEMMA FilterIs ==
  ASSUME NEW p \in Parameters(Int), Filter(p).errors = {}
  PROVE  /\ p.match \in {None, "any", "all"} /\ p.type # Bad /\ p.from # Bad /\ p.to # Bad
         /\ Filter(p).query.text = p.q /\ Filter(p).query.tags = {Lower[t] : t \in p.tags}
         /\ Filter(p).query.match = "all" <=> p.match = "all"
         /\ Filter(p).query.type = p.type /\ Filter(p).query.from = p.from /\ Filter(p).query.to = p.to
<1>1. /\ "tagMatch" \notin Filter(p).errors /\ "contentType" \notin Filter(p).errors
      /\ "from" \notin Filter(p).errors /\ "to" \notin Filter(p).errors
  OBVIOUS
<1>2. p.match \in {None, "any", "all"} /\ p.type # Bad /\ p.from # Bad /\ p.to # Bad
  BY <1>1 DEF Filter, When
<1> QED
  BY <1>2 DEF Filter, ContentType, Instant

(* A row is loaded when it is wanted.                                      *)
LEMMA LoadIsWanted ==
  ASSUME NEW p \in Parameters(Int), Filter(p).errors = {}, NEW m \in Media(Nat), \A n \in Words(p) : Spelled(m, n),
         NEW rows, m \in rows
  PROVE  m \in LoadRows(rows, Filter(p).query) <=> Wanted(m, p)
<1> DEFINE q == Filter(p).query
<1>1. /\ q.text = p.q /\ q.tags = {Lower[t] : t \in p.tags}
      /\ q.match = "all" <=> p.match = "all"
      /\ q.type = p.type /\ q.from = p.from /\ q.to = p.to
  BY FilterIs
<1>2. p.type # Bad /\ p.from # Bad /\ p.to # Bad
  BY FilterIs
<1> HIDE DEF q
<1>3. (q.text # None => \E w \in m.words : DbLower(w) = Lower[q.text])
        <=> (p.q # None => \E w \in m.words : Same(w, p.q))
  <2> SUFFICES ASSUME p.q # None
               PROVE  (\E w \in m.words : DbLower(w) = Lower[p.q]) <=> \E w \in m.words : Same(w, p.q)
    BY <1>1
  <2>1. p.q \in Names /\ Spelled(m, Lower[p.q])
    BY ParameterTypes DEF Words
  <2> QED
    BY <2>1, DbLowerIs
<1>4. ASSUME NEW t \in p.tags PROVE HasTag(m, Lower[t]) <=> \E n \in m.tags : Same(n, t)
  <2>1. t \in Names /\ Spelled(m, Lower[t])
    BY ParameterTypes DEF Words
  <2> QED
    BY <2>1, DbLowerIs DEF HasTag
<1>5. (q.tags # {} => MatchesTags(m, q))
        <=> /\ p.tags # {} /\ p.match = "all" => \A t \in p.tags : \E n \in m.tags : Same(n, t)
            /\ p.tags # {} /\ p.match # "all" => \E t \in p.tags, n \in m.tags : Same(n, t)
  <2>1. q.tags # {} <=> p.tags # {}
    BY <1>1
  <2>2. (\A t \in q.tags : HasTag(m, t)) <=> \A t \in p.tags : \E n \in m.tags : Same(n, t)
    BY <1>1, <1>4
  <2>3. (\E t \in q.tags : HasTag(m, t)) <=> \E t \in p.tags : \E n \in m.tags : Same(n, t)
    BY <1>1, <1>4
  <2> QED
    BY <1>1, <2>1, <2>2, <2>3 DEF MatchesTags
<1>6. (q.type # None => IF Exact(q.type) THEN m.type = q.type ELSE Family[m.type] = q.type)
        <=> (p.type # None => p.type \in {m.type, Family[m.type]})
  <2>1. m.type \in DOMAIN Family /\ Family[m.type] \notin DOMAIN Family
    BY QueryAssumption, MediaTypes
  <2> QED
    BY <1>1, <2>1 DEF Exact
<1>7. (q.from # None => m.at >= q.from) <=> (p.from # None => p.from <= m.at)
  <2>1. m.at \in Nat /\ (p.from # None => p.from \in Int)
    BY <1>2, ParameterTypes, MediaTypes
  <2> QED
    BY <1>1, <2>1
<1> QED
  BY <1>1, <1>3, <1>5, <1>6, <1>7 DEF LoadRows, Wanted, q

-----------------------------------------------------------------------------
(* The pages of a search.                                                  *)

Place(m, rows, sort) == 1 + Cardinality({x \in rows : Precedes(x, m, sort)})

(* The items are the rows whose places come after `low` up to `high`, each *)
(* once and in this order.                                                 *)
PageIs(items, rows, sort, low, high) ==
  /\ items \in Seq(rows)
  /\ \A i \in DOMAIN items : Place(items[i], rows, sort) = low + i
  /\ \A i, j \in DOMAIN items : items[i] = items[j] => i = j
  /\ \A m \in rows : Place(m, rows, sort) \in low + 1 .. high => \E i \in DOMAIN items : items[i] = m
  /\ Len(items) <= high - low

(* An int that does not overflow stays itself.                             *)
LEMMA IntKeeps ==
  ASSUME NEW x \in Nat, x <= IntMax
  PROVE  Int32(x) = x
<1> DEFINE k == x + IntMax + 1
           m == 2 * IntMax + 2
<1>1. IntMax \in Nat
  BY QueryAssumption
<1>2. m \in Nat \ {0} /\ k \in 0 .. m - 1
  BY <1>1
<1>3. k = x + IntMax + 1
  OBVIOUS
<1> HIDE DEF k, m
<1>4. k % m = k
  BY <1>2
<1>5. k - IntMax - 1 = x
  BY <1>1, <1>3
<1> QED
  BY <1>4, <1>5 DEF Int32, k, m

(* A slice of a sequence.                                                  *)
LEMMA SliceIs ==
  ASSUME NEW S, NEW s \in Seq(S), NEW a \in Nat, NEW b \in Nat, b <= Len(s)
  PROVE  /\ SubSeq(s, a + 1, b) \in Seq(S)
         /\ Len(SubSeq(s, a + 1, b)) = IF a <= b THEN b - a ELSE 0
         /\ \A i \in 1 .. b - a : SubSeq(s, a + 1, b)[i] = s[a + i]
OBVIOUS

(* A slice of the sorted rows is a page.                                   *)
LEMMA SlicePages ==
  ASSUME NEW rows \in SUBSET Media(Nat), IsFiniteSet(rows), Unique(rows), NEW sort,
         NEW low \in Nat, NEW high \in Nat, low <= high
  PROVE  LET s == Sort(rows, sort)
         IN  /\ Len(s) = Cardinality(rows) /\ Len(s) \in Nat
             /\ PageIs(SubSeq(s, low + 1, Min({Len(s), high})), rows, sort, low, high)
<1> DEFINE s == Sort(rows, sort)
           n == Cardinality(rows)
           b == Min({Len(s), high})
           items == SubSeq(s, low + 1, b)
<1>1. n \in Nat
  BY FS_CardinalityType
<1>2. /\ s \in [1 .. n -> rows]
      /\ \A x \in rows : \E i \in 1 .. n : s[i] = x
      /\ \A i, j \in 1 .. n : s[i] = s[j] => i = j
      /\ \A i \in 1 .. n : Cardinality({x \in rows : Precedes(x, s[i], sort)}) = i - 1
  BY <1>1, SortIs
<1> HIDE DEF s, n
<1>3. s \in Seq(rows) /\ Len(s) = n
  BY <1>1, <1>2
<1>4. b \in {n, high} /\ b <= n /\ b <= high
  <2>1. {n, high} \in SUBSET Nat
    BY <1>1
  <2> QED
    BY <1>3, <2>1, MinIs
<1> HIDE DEF b
<1>5. \A i \in 1 .. n : Place(s[i], rows, sort) = i
  BY <1>1, <1>2 DEF Place
<1>6. /\ items \in Seq(rows)
      /\ Len(items) = IF low <= b THEN b - low ELSE 0
      /\ \A i \in 1 .. b - low : items[i] = s[low + i]
  BY <1>1, <1>3, <1>4, SliceIs
<1> HIDE DEF items
<1>7. ASSUME NEW i \in DOMAIN items PROVE items[i] = s[low + i] /\ low + i \in 1 .. n
  BY <1>1, <1>4, <1>6
<1>8. \A i \in DOMAIN items : Place(items[i], rows, sort) = low + i
  BY <1>5, <1>7
<1>9. ASSUME NEW i \in DOMAIN items, NEW j \in DOMAIN items, items[i] = items[j] PROVE i = j
  <2>1. i \in Nat /\ j \in Nat
    BY <1>6
  <2>2. low + i = low + j
    BY <1>2, <1>7, <1>9
  <2> QED
    BY <2>1, <2>2
<1>10. ASSUME NEW m \in rows, Place(m, rows, sort) \in low + 1 .. high
       PROVE  \E i \in DOMAIN items : items[i] = m
  <2>1. PICK k \in 1 .. n : s[k] = m
    BY <1>2
  <2>2. k \in low + 1 .. high
    BY <1>5, <1>10, <2>1
  <2>3. k - low \in 1 .. b - low /\ k - low \in 1 .. Len(items)
    BY <1>1, <1>4, <1>6, <2>2
  <2>4. items[k - low] = s[low + (k - low)]
    BY <1>6, <2>3
  <2>5. low + (k - low) = k
    BY <2>2
  <2> QED
    BY <1>6, <2>1, <2>3, <2>4, <2>5
<1>11. Len(items) <= high - low
  BY <1>1, <1>4, <1>6
<1>12. PageIs(items, rows, sort, low, high)
  BY <1>6, <1>8, <1>9, <1>10, <1>11 DEF PageIs
<1> QED
  BY <1>1, <1>3, <1>12 DEF items, b, s, n

(* The answer to a search is its page of the rows that the filter loads.   *)
LEMMA SearchIs ==
  ASSUME NEW lib \in SUBSET Media(Nat), IsFiniteSet(lib), Unique(lib), NEW q,
         q.page \in Nat, q.page >= 1, q.size \in Nat, (q.page - 1) * q.size <= IntMax
  PROVE  LET rows == LoadRows(lib, q.filter)
         IN  /\ Search(lib, q).total = Cardinality(rows)
             /\ PageIs(Search(lib, q).items, rows, q.sort, (q.page - 1) * q.size, q.page * q.size)
<1> DEFINE rows == LoadRows(lib, q.filter)
           s == Sort(rows, q.sort)
           low == (q.page - 1) * q.size
<1>1. rows \in SUBSET Media(Nat) /\ IsFiniteSet(rows) /\ Unique(rows)
  <2>1. rows \in SUBSET lib
    BY DEF LoadRows
  <2> QED
    BY <2>1, FS_Subset DEF Unique
<1>2. low \in Nat
  <2>1. q.page - 1 \in Nat
    OBVIOUS
  <2>2. \A x, y \in Nat : x * y \in Nat
    OBVIOUS
  <2> QED
    BY <2>1, <2>2
<1>3. low + q.size = q.page * q.size
  OBVIOUS
<1>4. low <= IntMax
  OBVIOUS
<1>5. Search(lib, q) = [items |-> SubSeq(s, Max({0, Int32(low)}) + 1, Min({Len(s), Max({0, Int32(low)}) + q.size})),
                        total |-> Len(s)]
  BY DEF Search, Offset
<1> HIDE DEF rows, low
<1>6. Max({0, Int32(low)}) = low
  <2>1. Int32(low) = low
    BY <1>2, <1>4, IntKeeps
  <2>2. {0, low} \in SUBSET Int /\ {0, low} # {} /\ \A x \in {0, low} : x <= low
    BY <1>2
  <2>3. Max({0, low}) \in {0, low} /\ \A x \in {0, low} : x <= Max({0, low})
    BY <1>2, <2>2, MaxIs
  <2> QED
    BY <1>2, <2>1, <2>3
<1>7. Search(lib, q) = [items |-> SubSeq(s, low + 1, Min({Len(s), low + q.size})), total |-> Len(s)]
  BY <1>5, <1>6
<1>8. /\ Len(s) = Cardinality(rows) /\ Len(s) \in Nat
      /\ PageIs(SubSeq(s, low + 1, Min({Len(s), low + q.size})), rows, q.sort, low, low + q.size)
  <2>1. low + q.size \in Nat /\ low <= low + q.size
    BY <1>2
  <2> QED
    BY <1>1, <1>2, <2>1, SlicePages
<1> HIDE DEF s
<1>9. /\ Search(lib, q).total = Cardinality(rows)
      /\ PageIs(Search(lib, q).items, rows, q.sort, low, q.page * q.size)
  BY <1>3, <1>7, <1>8
<1> QED
  BY <1>9 DEF rows, low

(* A tool hands on the first items of its list.                            *)
LEMMA FitListIs ==
  ASSUME NEW S, NEW items \in Seq(S)
  PROVE  \E n \in 0 .. Len(items) : FitList(items) = [items |-> SubSeq(items, 1, n), truncated |-> n < Len(items)]
<1> DEFINE fit == {0} \cup {k \in 1 .. Len(items) : Fits(items, k)}
<1>1. fit \in SUBSET Int /\ 0 \in fit /\ Len(items) \in Int /\ \A x \in fit : x <= Len(items) /\ x \in 0 .. Len(items)
  OBVIOUS
<1>2. Max(fit) \in fit
  BY <1>1, MaxIs
<1>3. FitList(items) = [items |-> SubSeq(items, 1, Max(fit)), truncated |-> Max(fit) < Len(items)]
  BY DEF FitList
<1> HIDE DEF fit
<1> QED
  BY <1>1, <1>2, <1>3

(* A parsed search.                                                        *)
LEMMA ParsedSearchIs ==
  ASSUME NEW p, p.filter \in Parameters(Int), {p.page, p.pageSize} \subseteq Int \cup {None},
         ParseSearch(p).errors = {}
  PROVE  LET q == ParseSearch(p).query
         IN  /\ q.filter = Filter(p.filter).query /\ Filter(p.filter).errors = {}
             /\ q.page \in Nat /\ q.page >= 1 /\ q.size \in Nat
<1> DEFINE q == ParseSearch(p).query
<1>1. /\ q.filter = Filter(p.filter).query /\ q.page = Or(p.page, 1) /\ q.size = Or(p.pageSize, DefaultSize)
      /\ ParseSearch(p).errors = Filter(p.filter).errors \cup When(q.sort \notin Sorts, "sort")
                                  \cup When(q.page < 1, "page")
                                  \cup When(q.size \notin 1 .. MaxPageSize, "pageSize")
  BY DEF ParseSearch
<1>2. MaxPageSize \in Nat /\ DefaultSize \in Nat
  BY QueryAssumption
<1>3. q.page \in Int /\ q.size \in Int
  BY <1>1, <1>2 DEF Or
<1> HIDE DEF q
<1>4. ~(q.page < 1) /\ q.size \in 1 .. MaxPageSize
  BY <1>1 DEF When
<1>5. Filter(p.filter).errors = {}
  BY <1>1
<1>6. q.page \in Nat /\ q.page >= 1 /\ q.size \in Nat
  BY <1>2, <1>3, <1>4
<1> QED
  BY <1>1, <1>5, <1>6 DEF q

LibrarySound ==
  /\ library \in SUBSET Media(Nat) /\ IsFiniteSet(library) /\ Unique(library)
  /\ \A m \in library : IsFiniteSet(m.tags)

(* What is loaded is what was wanted, if its names are spelled so that the *)
(* database can read them.                                                 *)
LEMMA LoadsFound ==
  ASSUME LibrarySound, NEW p \in Parameters(Int), Filter(p).errors = {},
         \A m \in library, n \in Words(p) : Spelled(m, n)
  PROVE  LoadRows(library, Filter(p).query) = Found(p)
<1>1. LoadRows(library, Filter(p).query) \subseteq library /\ Found(p) \subseteq library
  BY DEF LoadRows, Found
<1>2. ASSUME NEW m \in library PROVE m \in LoadRows(library, Filter(p).query) <=> m \in Found(p)
  <2>1. m \in Media(Nat) /\ \A n \in Words(p) : Spelled(m, n)
    BY DEF LibrarySound
  <2>2. m \in LoadRows(library, Filter(p).query) <=> Wanted(m, p)
    BY <2>1, LoadIsWanted
  <2> QED
    BY <2>2 DEF Found
<1> QED
  BY <1>1, <1>2

(* A search that is answered finds what was asked for.                     *)
LEMMA SearchFinds ==
  ASSUME LibrarySound, asked.kind = "search", asked.p.filter \in Parameters(Int),
         {asked.p.page, asked.p.pageSize} \subseteq Int \cup {None},
         ParseSearch(asked.p).errors = {}, asked.query = ParseSearch(asked.p).query, reply = AnswerTo(asked)
  PROVE  FoundAsAsked
<1> DEFINE p == asked.p.filter
           q == asked.query
           rows == Found(p)
           low == (q.page - 1) * q.size
           high == q.page * q.size
           page == {m \in rows : Place(m, rows, q.sort) \in low + 1 .. high}
<1>1. /\ q.filter = Filter(p).query /\ Filter(p).errors = {}
      /\ q.page \in Nat /\ q.page >= 1 /\ q.size \in Nat
  BY ParsedSearchIs
<1> SUFFICES ASSUME \A m \in library, n \in Words(p) : Spelled(m, n), low <= IntMax
             PROVE  /\ reply.total = Cardinality(rows)
                    /\ \A i \in DOMAIN reply.items : Place(reply.items[i], rows, q.sort) = low + i
                    /\ IF asked.call = None THEN ToSet(reply.items) = page
                       ELSE /\ ToSet(reply.items) \subseteq page
                            /\ reply.truncated <=> ToSet(reply.items) # page
  BY DEF FoundAsAsked, Place, Words
<1>2. LoadRows(library, q.filter) = rows
  BY <1>1, LoadsFound
<1> DEFINE r == Search(library, q)
<1>3. r.total = Cardinality(rows) /\ PageIs(r.items, rows, q.sort, low, high)
  BY <1>1, <1>2, SearchIs DEF LibrarySound
<1>4. low \in Nat /\ q.size \in Nat /\ high = low + q.size
  <2>1. q.page - 1 \in Nat
    BY <1>1
  <2>2. \A x, y \in Nat : x * y \in Nat
    OBVIOUS
  <2> QED
    BY <1>1, <2>1, <2>2
<1>5. reply = IF asked.call = None THEN r
              ELSE [items |-> FitList(r.items).items, truncated |-> FitList(r.items).truncated, total |-> r.total]
  <2>1. "errors" \notin DOMAIN r
    BY DEF Search
  <2> QED
    BY <2>1 DEF AnswerTo
<1> HIDE DEF r, rows, low, high, q
<1>6. /\ r.items \in Seq(rows)
      /\ \A i \in DOMAIN r.items : Place(r.items[i], rows, q.sort) = low + i
      /\ \A i, j \in DOMAIN r.items : r.items[i] = r.items[j] => i = j
      /\ \A m \in rows : Place(m, rows, q.sort) \in low + 1 .. high => \E i \in DOMAIN r.items : r.items[i] = m
      /\ Len(r.items) <= high - low
  BY <1>3 DEF PageIs
<1>7. ToSet(r.items) = page
  <2>1. ASSUME NEW i \in DOMAIN r.items PROVE r.items[i] \in page
    <3>1. i \in Nat /\ 1 <= i /\ i <= Len(r.items) /\ Len(r.items) \in Nat
      BY <1>6
    <3>2. low + i \in low + 1 .. high /\ high \in Int
      BY <1>4, <1>6, <3>1
    <3> QED
      BY <1>6, <3>2
  <2>2. ASSUME NEW m \in page PROVE \E i \in DOMAIN r.items : r.items[i] = m
    BY <1>6
  <2> QED
    BY <2>1, <2>2 DEF ToSet
<1>8. CASE asked.call = None
  BY <1>3, <1>5, <1>6, <1>7, <1>8
<1>9. CASE asked.call # None
  <2>1. PICK n \in 0 .. Len(r.items) :
          FitList(r.items) = [items |-> SubSeq(r.items, 1, n), truncated |-> n < Len(r.items)]
    BY <1>6, FitListIs
  <2>2. /\ reply.items = SubSeq(r.items, 1, n) /\ reply.total = r.total
        /\ reply.truncated <=> n < Len(r.items)
    <3>1. FitList(r.items).items = SubSeq(r.items, 1, n) /\ FitList(r.items).truncated = (n < Len(r.items))
      BY <2>1
    <3>2. /\ reply.items = FitList(r.items).items /\ reply.total = r.total
          /\ reply.truncated = FitList(r.items).truncated
      BY <1>5, <1>9
    <3> QED
      BY <3>1, <3>2
  <2>3. n \in Nat /\ n <= Len(r.items) /\ Len(r.items) \in Nat /\ DOMAIN r.items = 1 .. Len(r.items)
    BY <1>6, <2>1
  <2>4. DOMAIN reply.items = 1 .. n /\ \A i \in 1 .. n : reply.items[i] = r.items[i]
    <3>1. /\ SubSeq(r.items, 0 + 1, n) \in Seq(rows)
          /\ Len(SubSeq(r.items, 0 + 1, n)) = IF 0 <= n THEN n - 0 ELSE 0
          /\ \A i \in 1 .. n - 0 : SubSeq(r.items, 0 + 1, n)[i] = r.items[0 + i]
      BY <1>6, <2>3, SliceIs
    <3>2. /\ SubSeq(r.items, 1, n) \in Seq(rows) /\ Len(SubSeq(r.items, 1, n)) = n
          /\ \A i \in 1 .. n : SubSeq(r.items, 1, n)[i] = r.items[i]
      BY <2>3, <3>1
    <3> QED
      BY <2>2, <3>2
  <2>5. \A i \in DOMAIN reply.items : i \in DOMAIN r.items /\ reply.items[i] = r.items[i]
    BY <2>3, <2>4
  <2>6. ToSet(reply.items) \subseteq ToSet(r.items)
    BY <2>5 DEF ToSet
  <2>7. ASSUME n < Len(r.items) PROVE ToSet(reply.items) # ToSet(r.items)
    <3>1. Len(r.items) \in DOMAIN r.items
      BY <2>3, <2>7
    <3>2. \A i \in 1 .. n : r.items[i] # r.items[Len(r.items)]
      BY <1>6, <2>3, <2>7, <3>1
    <3>3. r.items[Len(r.items)] \in ToSet(r.items)
      BY <3>1 DEF ToSet
    <3>4. r.items[Len(r.items)] \notin ToSet(reply.items)
      BY <2>4, <3>2 DEF ToSet
    <3> QED
      BY <3>3, <3>4
  <2>8. ASSUME ~(n < Len(r.items)) PROVE ToSet(reply.items) = ToSet(r.items)
    <3>1. n = Len(r.items)
      BY <2>3, <2>8
    <3> QED
      BY <2>3, <2>4, <3>1 DEF ToSet
  <2>9. reply.truncated <=> ToSet(reply.items) # page
    BY <1>7, <2>2, <2>7, <2>8
  <2> QED
    BY <1>3, <1>6, <1>7, <1>9, <2>2, <2>5, <2>6, <2>9
<1> QED
  BY <1>8, <1>9

-----------------------------------------------------------------------------
(* The calendar.                                                           *)

(* The ticks of a day.                                                     *)
LEMMA DayIs ==
  ASSUME NEW t \in Nat
  PROVE  /\ Day(t) \in Nat /\ TicksPerDay * Day(t) \in Nat
         /\ TicksPerDay * Day(t) <= t /\ t < TicksPerDay * Day(t) + TicksPerDay
<1>1. TicksPerDay \in Nat \ {0}
  BY QueryAssumption
<1> QED
  BY <1>1 DEF Day

(* Later days begin later.                                                 *)
LEMMA DaysGrow ==
  ASSUME NEW a \in Int, NEW b \in Int
  PROVE  /\ TicksPerDay * a \in Int
         /\ a <= b => TicksPerDay * a <= TicksPerDay * b
         /\ a < b => TicksPerDay * a + TicksPerDay <= TicksPerDay * b
<1>1. TicksPerDay \in Nat \ {0}
  BY QueryAssumption
<1>2. \A x, k \in Nat : x * k \in Nat
  OBVIOUS
<1>3. a <= b => TicksPerDay * (b - a) >= 0
  BY <1>1, <1>2
<1>4. a < b => TicksPerDay * (b - a - 1) >= 0
  BY <1>1, <1>2
<1>5. TicksPerDay * (b - a) = TicksPerDay * b - TicksPerDay * a
  BY <1>1
<1>6. TicksPerDay * (b - a - 1) = TicksPerDay * b - TicksPerDay * a - TicksPerDay
  BY <1>1
<1>7. TicksPerDay * a \in Int /\ TicksPerDay * b \in Int
  BY <1>1
<1> QED
  BY <1>1, <1>3, <1>4, <1>5, <1>6, <1>7

(* A month starts on its greatest start that has come.                     *)
LEMMA MonthIs ==
  ASSUME NEW t \in Nat
  PROVE  /\ BucketStart(t, "month") \in MonthStarts /\ BucketStart(t, "month") \in Nat
         /\ BucketStart(t, "month") <= Day(t)
         /\ \A d \in MonthStarts : d <= Day(t) => d <= BucketStart(t, "month")
<1> DEFINE S == {d \in MonthStarts : d <= Day(t)}
<1>1. Day(t) \in Nat /\ Day(t) \in Int
  BY DayIs
<1>2. S \in SUBSET Int /\ S # {} /\ \A d \in S : d <= Day(t)
  <2>1. MonthStarts \in SUBSET Nat /\ 0 \in MonthStarts
    BY QueryAssumption
  <2>2. 0 \in S
    BY <1>1, <2>1
  <2> QED
    <3>1. \A d \in S : d \in MonthStarts /\ d <= Day(t)
      OBVIOUS
    <3> HIDE DEF S
    <3>2. S \subseteq MonthStarts
      BY <3>1
    <3>3. S \in SUBSET Int
      BY ONLY <2>1, <3>2
    <3>4. S # {}
      BY <2>2
    <3>5. \A d \in S : d <= Day(t)
      BY <3>1
    <3> QED
      BY <3>3, <3>4, <3>5
<1> HIDE DEF S
<1>3. Max(S) \in S /\ \A d \in S : d <= Max(S)
  BY ONLY <1>1, <1>2, MaxIs
<1>4. BucketStart(t, "month") = Max(S)
  BY DEF BucketStart, S
<1>5. Max(S) \in MonthStarts /\ Max(S) <= Day(t) /\ \A d \in MonthStarts : d <= Day(t) => d <= Max(S)
  BY <1>3 DEF S
<1> QED
  BY <1>4, <1>5, QueryAssumption

(* A week starts no later than its days.                                   *)
LEMMA WeekIs ==
  ASSUME NEW t \in Nat
  PROVE  BucketStart(t, "week") \in Int /\ BucketStart(t, "week") <= Day(t)
<1>1. Day(t) \in Int /\ FirstMonday \in Int
  BY DayIs, QueryAssumption
<1>2. \A x \in Int : x % 7 \in 0 .. 6
  OBVIOUS
<1>3. (Day(t) - FirstMonday) % 7 \in 0 .. 6
  BY <1>1, <1>2
<1> QED
  BY <1>1, <1>3 DEF BucketStart

-----------------------------------------------------------------------------
(* What a tool asks.                                                       *)

(* A range of two instants is empty only if it begins now or later.        *)
RangeIs(from, to, t) ==
  /\ from \in Int \cup {None} /\ to \in Int \cup {None}
  /\ from # None /\ to # None /\ from >= to => from >= t

(* A period that resolves is such a range.                                 *)
LEMMA PeriodIs ==
  ASSUME NEW c, {c.from, c.to} \subseteq Nat \cup {None, Bad}, NEW t \in Nat, t >= Start, ~Resolve(c, t).error
  PROVE  RangeIs(Resolve(c, t).from, Resolve(c, t).to, t)
<1> DEFINE key == IF c.period # None THEN c.period
                  ELSE IF c.from # None \/ c.to # None THEN "custom" ELSE "all_time"
<1>1. Resolve(c, t) = CASE key = "custom" -> Custom(c.from, c.to, t)
        [] key \in DOMAIN Named(t) -> [error |-> FALSE, from |-> Named(t)[key][1], to |-> Named(t)[key][2]]
        [] OTHER -> [error |-> TRUE]
  BY DEF Resolve
<1> HIDE DEF key
<1>2. None \notin Int /\ Bad \notin Int /\ None # Bad /\ TicksPerDay \in Nat \ {0}
  BY QueryAssumption
<1>3. CASE key = "custom"
  <2>1. Resolve(c, t) = Custom(c.from, c.to, t)
    <3>1. "custom" \notin DOMAIN Named(t)
      BY DEF Named
    <3> QED
      BY <1>1, <1>3, <3>1
  <2>2. ~(c.from = Bad \/ c.to = Bad \/ (c.from = None /\ c.to = None) \/ Inverted(c.from, c.to))
    BY <2>1 DEF Custom
  <2>3. Resolve(c, t).from = c.from /\ Resolve(c, t).to = Or(c.to, t)
    BY <2>1, <2>2 DEF Custom
  <2> QED
    BY <1>2, <2>2, <2>3 DEF RangeIs, Inverted, Or
<1>4. CASE key # "custom"
  <2>1. key \in DOMAIN Named(t)
    BY <1>1, <1>4
  <2>2. Resolve(c, t) = [error |-> FALSE, from |-> Named(t)[key][1], to |-> Named(t)[key][2]]
    BY <1>1, <1>4, <2>1
  <2>3. Resolve(c, t).from = Named(t)[key][1] /\ Resolve(c, t).to = Named(t)[key][2]
    BY <2>2
  <2>4. key \in {"today", "yesterday", "this_week", "last_week", "last_7_days", "last_30_days", "this_month",
                 "last_month", "this_year", "all_time"}
    BY <2>1 DEF Named
  <2>5. Today(t) \in Int /\ Monday(t) \in Int
    BY <1>2, DayIs, WeekIs DEF Today, Monday
  <2>6. Month(t) \in Nat /\ Month(t) >= 1
    <3>1. PICK d \in MonthStarts \ {0} : Start >= TicksPerDay * d
      BY ToolAssumption
    <3>2. d \in Nat /\ d >= 1 /\ TicksPerDay * d <= t
      BY <1>2, <3>1, QueryAssumption, ToolAssumption
    <3>3. d <= Day(t)
      <4>1. Day(t) \in Nat /\ t < TicksPerDay * Day(t) + TicksPerDay /\ TicksPerDay * Day(t) \in Int
        BY DayIs
      <4>2. ~(Day(t) < d)
        BY <1>2, <3>2, <4>1, DaysGrow
      <4> QED
        BY <3>2, <4>1, <4>2
    <3>4. BucketStart(t, "month") \in Nat /\ d <= BucketStart(t, "month")
      BY <3>1, <3>3, MonthIs
    <3>5. TicksPerDay * 1 <= TicksPerDay * BucketStart(t, "month") /\ TicksPerDay * BucketStart(t, "month") \in Int
      BY <3>2, <3>4, DaysGrow
    <3> QED
      BY <1>2, <3>5 DEF Month
  <2>7. MonthBefore(t) \in Int /\ MonthBefore(t) < Month(t)
    <3>1. Month(t) - 1 \in Nat
      BY <2>6
    <3>2. /\ BucketStart(Month(t) - 1, "month") \in Nat
          /\ BucketStart(Month(t) - 1, "month") <= Day(Month(t) - 1)
      BY <3>1, MonthIs
    <3>3. /\ Day(Month(t) - 1) \in Nat /\ TicksPerDay * Day(Month(t) - 1) \in Nat
          /\ TicksPerDay * Day(Month(t) - 1) <= Month(t) - 1
      BY <3>1, DayIs
    <3>4. /\ TicksPerDay * BucketStart(Month(t) - 1, "month") \in Int
          /\ TicksPerDay * BucketStart(Month(t) - 1, "month") <= TicksPerDay * Day(Month(t) - 1)
      BY <3>2, <3>3, DaysGrow
    <3>5. MonthBefore(t) = TicksPerDay * BucketStart(Month(t) - 1, "month")
      BY DEF MonthBefore, Month
    <3> QED
      BY <2>6, <3>3, <3>4, <3>5
  <2>8. key = "today" \/ key = "yesterday" \/ key = "this_week" => RangeIs(Named(t)[key][1], Named(t)[key][2], t)
    BY <1>2, <2>5 DEF Named, RangeIs
  <2>9. key = "last_week" \/ key = "last_7_days" \/ key = "last_30_days"
          => RangeIs(Named(t)[key][1], Named(t)[key][2], t)
    BY <1>2, <2>5 DEF Named, RangeIs
  <2>10. key = "this_month" \/ key = "last_month" => RangeIs(Named(t)[key][1], Named(t)[key][2], t)
    BY <1>2, <2>6, <2>7 DEF Named, RangeIs
  <2>11. key = "this_year" \/ key = "all_time" => RangeIs(Named(t)[key][1], Named(t)[key][2], t)
    BY <1>2 DEF Named, RangeIs
  <2> QED
    BY <2>3, <2>4, <2>8, <2>9, <2>10, <2>11
<1> QED
  BY <1>3, <1>4

(* A clamped number is within its bounds, but NaN is 0.                    *)
LEMMA IntArgIs ==
  ASSUME NEW value \in Int \cup {None, Bad, NotANumber}, NEW max \in Nat, NEW fallback \in 1 .. max
  PROVE  /\ IntArg(value, fallback, 1, max) \in 0 .. max
         /\ value # NotANumber => IntArg(value, fallback, 1, max) \in 1 .. max
<1>0. NotANumber \notin Int \cup {None, Bad}
  BY InputAssumption
<1>3. CASE value = NotANumber
  BY <1>0, <1>3 DEF IntArg
<1>1. CASE value \in {None, Bad}
  BY <1>1 DEF IntArg
<1>2. CASE value \notin {None, Bad, NotANumber}
  <2>1. value \in Int
    BY <1>2
  <2> DEFINE S == {max, value}
             low == Min(S)
             T == {1, low}
  <2>2. low \in S /\ low <= max
    <3>1. \E x \in S : \A y \in S : x <= y
      BY <2>1
    <3>2. low \in S /\ \A y \in S : low <= y
      BY <3>1 DEF Min
    <3> QED
      BY <3>2
  <2>3. low \in Int /\ low <= max
    BY <2>1, <2>2
  <2>4. IntArg(value, fallback, 1, max) = Max(T)
    BY <1>2 DEF IntArg
  <2> HIDE DEF low
  <2>5. \E x \in T : \A y \in T : x >= y
    BY <2>3
  <2>6. Max(T) \in T /\ \A y \in T : Max(T) >= y
    BY <2>5 DEF Max
  <2> QED
    BY <2>3, <2>4, <2>6
<1> QED
  BY <1>0, <1>1, <1>2, <1>3

(* A text that was cut is no longer than the API takes.                    *)
LEMMA CutTextIs ==
  ASSUME NEW text \in Names \cup {None}
  PROVE  /\ CutText(text) \in Names \cup {None}
         /\ CutText(text) # None => NameLength[CutText(text)] <= MaxTextLength
<1>1. \A n \in Names : NameLength[n] \in Nat
  BY QueryAssumption
<1>2. MaxTextLength \in Nat
  BY QueryAssumption
<1>3. CASE text # None /\ NameLength[text] > MaxTextLength
  <2>1. \E n \in Names : NameLength[n] = MaxTextLength
    BY <1>3, ToolAssumption
  <2> QED
    BY <1>2, <1>3, <2>1 DEF CutText
<1>4. CASE ~(text # None /\ NameLength[text] > MaxTextLength)
  <2>1. text # None => NameLength[text] \in Nat
    BY <1>1
  <2> QED
    BY <1>2, <1>4, <2>1 DEF CutText
<1> QED
  BY <1>3, <1>4

(* At most n elements of a set of numbers have fewer than n before them.   *)
Firstlings(F, n) == {k \in F : Cardinality({j \in F : j < k}) < n}

LEMMA FirstlingsRank ==
  ASSUME NEW F \in SUBSET Nat, IsFiniteSet(F), NEW n \in Nat
  PROVE  \E f \in [Firstlings(F, n) -> 1 .. n] : \A a, b \in Firstlings(F, n) : f[a] = f[b] => a = b
<1> DEFINE B(k) == {j \in F : j < k}
           K == Firstlings(F, n)
           f == [k \in K |-> Cardinality(B(k)) + 1]
<1>1. ASSUME NEW k \in F PROVE IsFiniteSet(B(k)) /\ Cardinality(B(k)) \in Nat
  <2>1. B(k) \in SUBSET F
    OBVIOUS
  <2>2. IsFiniteSet(B(k))
    BY <2>1, FS_Subset
  <2> QED
    BY <2>2, FS_CardinalityType
<1>2. ASSUME NEW a \in F, NEW b \in F, a < b PROVE Cardinality(B(a)) # Cardinality(B(b))
  <2>1. B(a) \in SUBSET B(b) /\ a \in B(b) /\ a \notin B(a)
    <3>1. \A j \in F : j \in Int
      OBVIOUS
    <3>2. \A j \in F : j < a => j < b
      BY <1>2, <3>1
    <3>3. ~(a < a)
      BY <3>1
    <3> QED
      BY <1>2, <3>2, <3>3
  <2>2. IsFiniteSet(B(b))
    BY <1>1
  <2> HIDE DEF B
  <2>3. Cardinality(B(b)) = Cardinality(B(a)) => B(b) = B(a)
    BY <2>1, <2>2, FS_Subset
  <2> QED
    BY <2>1, <2>3
<1>3. \A k \in K : k \in F /\ Cardinality(B(k)) < n
  BY DEF Firstlings
<1>4. \A k \in K : Cardinality(B(k)) \in Nat
  BY <1>1, <1>3
<1> HIDE DEF B, K
<1>5. f \in [K -> 1 .. n]
  <2>1. ASSUME NEW k \in K PROVE Cardinality(B(k)) + 1 \in 1 .. n
    BY <1>3, <1>4
  <2> QED
    BY <2>1
<1>6. ASSUME NEW a \in K, NEW b \in K, f[a] = f[b] PROVE a = b
  <2>1. f[a] = Cardinality(B(a)) + 1 /\ f[b] = Cardinality(B(b)) + 1
    OBVIOUS
  <2>3. Cardinality(B(a)) = Cardinality(B(b)) /\ a \in F /\ b \in F
    BY <1>3, <1>4, <1>6, <2>1
  <2>2. a < b \/ b < a \/ a = b
    BY <2>3
  <2> QED
    BY <1>2, <2>3, <2>2
<1>7. \E g \in [K -> 1 .. n] : \A a, b \in K : g[a] = g[b] => a = b
  BY <1>5, <1>6
<1> QED
  BY <1>7 DEF K

(* A tool asks for no more tags than it takes, if none of its elements     *)
(* holds two.                                                              *)
LEMMA TagsAreFew ==
  ASSUME NEW list \in Seq(SUBSET Names), \A i \in DOMAIN list : IsFiniteSet(list[i]),
         \A i \in DOMAIN list : ~(Cardinality(list[i]) > 1)
  PROVE  Cardinality({Lower[t] : t \in UNION StringList(list)}) <= ToolTags
<1> DEFINE F == Firsts(list)
           K == Firstlings(F, ToolTags)
           T == {Lower[t] : t \in UNION StringList(list)}
<1>1. ToolTags \in Nat
  BY ToolAssumption
<1>2. F \in SUBSET Nat /\ IsFiniteSet(F) /\ F \subseteq DOMAIN list
  <2>1. F \in SUBSET (1 .. Len(list)) /\ Len(list) \in Nat
    BY DEF Firsts
  <2>2. IsFiniteSet(1 .. Len(list))
    BY <2>1, UpToSize
  <2> QED
    BY <2>1, <2>2, FS_Subset
<1>3. StringList(list) = {list[i] : i \in K}
  BY DEF StringList, Firstlings
<1>4. K \subseteq DOMAIN list
  BY <1>2 DEF Firstlings
<1>5. \A x \in T : \E i \in K : \E t \in list[i] : Lower[t] = x
  BY <1>3
<1>6. ASSUME NEW i \in DOMAIN list, NEW s \in list[i], NEW t \in list[i] PROVE s = t
  <2>1. IsFiniteSet(list[i]) /\ Cardinality(list[i]) \in Nat /\ ~(Cardinality(list[i]) > 1)
    BY FS_CardinalityType
  <2>2. {s, t} \in SUBSET list[i]
    OBVIOUS
  <2>3. Cardinality({s, t}) <= Cardinality(list[i])
    BY <2>1, <2>2, FS_Subset
  <2>4. Cardinality({s}) = 1 /\ IsFiniteSet({s})
    BY FS_Singleton
  <2>5. Cardinality({s} \cup {t}) = IF t \in {s} THEN Cardinality({s}) ELSE Cardinality({s}) + 1
    BY <2>4, FS_AddElement
  <2>6. Cardinality({s} \cup {t}) = Cardinality({s, t})
    <3>1. {s} \cup {t} = {s, t}
      OBVIOUS
    <3> QED
      BY <3>1
  <2>7. ASSUME t \notin {s} PROVE Cardinality({s, t}) = 2
    <3>1. Cardinality({s} \cup {t}) = Cardinality({s}) + 1
      BY <2>5, <2>7
    <3>2. Cardinality({s, t}) = Cardinality({s}) + 1
      BY <2>6, <3>1
    <3>3. Cardinality({s}) = 1
      BY <2>4
    <3> QED
      BY <3>2, <3>3
  <2> QED
    BY <2>1, <2>3, <2>7
<1> DEFINE h == [x \in T |-> CHOOSE i \in K : \E t \in list[i] : Lower[t] = x]
<1>7. ASSUME NEW x \in T PROVE h[x] \in K /\ \E t \in list[h[x]] : Lower[t] = x
  BY <1>5
<1>8. PICK f \in [K -> 1 .. ToolTags] : \A a, b \in K : f[a] = f[b] => a = b
  BY <1>1, <1>2, FirstlingsRank
<1> HIDE DEF h, T, K, F
<1> DEFINE g == [x \in T |-> f[h[x]]]
<1>9. g \in [T -> 1 .. ToolTags]
  BY <1>7, <1>8
<1>10. ASSUME NEW x \in T, NEW y \in T, g[x] = g[y] PROVE x = y
  <2>1. h[x] = h[y] /\ h[x] \in DOMAIN list
    BY <1>4, <1>7, <1>8, <1>10
  <2>2. PICK s \in list[h[x]] : Lower[s] = x
    BY <1>7
  <2>3. PICK t \in list[h[x]] : Lower[t] = y
    BY <1>7, <2>1
  <2> QED
    BY <1>6, <2>1, <2>2, <2>3
<1>11. g \in Injection(T, 1 .. ToolTags)
  BY <1>9, <1>10, Fun_IsInj
<1>12. IsFiniteSet(1 .. ToolTags) /\ Cardinality(1 .. ToolTags) = ToolTags
  BY <1>1, UpToSize
<1>13. Cardinality(T) <= ToolTags
  BY <1>11, <1>12, FS_Injection
<1> QED
  BY <1>13 DEF T

(* A filter within the limits has no error.                                *)
LEMMA FilterAccepts ==
  ASSUME NEW p, NEW t \in Nat,
         p.q \in Names \cup {None}, p.q # None => NameLength[p.q] <= MaxTextLength,
         p.tags \in SUBSET Names, Cardinality({Lower[x] : x \in p.tags}) \in Nat,
         Cardinality({Lower[x] : x \in p.tags}) <= MaxTags,
         ~(\E x \in p.tags : NameLength[x] > MaxTagLength),
         p.match \in {None, "any", "all"}, p.type # Bad, RangeIs(p.from, p.to, t),
         ~(p.from # None /\ p.from >= t)
  PROVE  Filter(p).errors = {}
<1>1. MaxTextLength \in Nat /\ MaxTags \in Nat /\ None \notin Int /\ Bad \notin Int /\ None # Bad
  BY QueryAssumption
<1>2. ~(p.q # None /\ NameLength[p.q] > MaxTextLength)
  <2>1. p.q # None => NameLength[p.q] \in Nat
    BY QueryAssumption
  <2> QED
    BY <1>1, <2>1
<1>3. ~(Cardinality({Lower[x] : x \in p.tags}) > MaxTags)
  BY <1>1
<1>4. ~(\E x \in {Lower[y] : y \in p.tags} : NameLength[x] > MaxTagLength)
  <2>1. \A y \in Names : NameLength[Lower[y]] = NameLength[y]
    BY QueryAssumption
  <2> QED
    BY <2>1
<1>5. p.from # Bad /\ p.to # Bad /\ ~(p.from # None /\ p.to # None /\ p.from >= p.to)
  BY <1>1 DEF RangeIs
<1>6. Instant(p.from) = p.from /\ Instant(p.to) = p.to
  BY <1>5 DEF Instant
<1>7. Filter(p).errors =
        When(p.q # None /\ NameLength[p.q] > MaxTextLength, "q")
          \cup When(Cardinality({Lower[x] : x \in p.tags}) > MaxTags, "tags")
          \cup When(\E x \in {Lower[y] : y \in p.tags} : NameLength[x] > MaxTagLength, "tags")
          \cup When(p.match \notin {None, "any", "all"}, "tagMatch")
          \cup When(p.type = Bad, "contentType")
          \cup When(p.from = Bad, "from")
          \cup When(p.to = Bad \/ (p.from # None /\ p.to # None /\ p.from >= p.to), "to")
  BY <1>6 DEF Filter
<1>8. \A f : When(FALSE, f) = {}
  BY DEF When
<1> QED
  BY <1>2, <1>3, <1>4, <1>5, <1>7 DEF When

(* The cases in which a tool's query is refused.                           *)
Excused(p, c, t) ==
  \/ p.filter.from # None /\ p.filter.from >= t
  \/ c.type = Bad
  \/ \E x \in p.filter.tags : NameLength[x] > MaxTagLength
  \/ \E i \in DOMAIN c.tags : Cardinality(c.tags[i]) > 1
  \/ c.limit = NotANumber

(* The filter of a call has an error only when it is excused.              *)
LEMMA FiltersAre ==
  ASSUME NEW c, IsCall(c), NEW t \in Nat, NEW period, RangeIs(period.from, period.to, t)
  PROVE  /\ Filters(c, period) \in Parameters(Int)
         /\ Filter(Filters(c, period)).errors # {}
              => \/ period.from # None /\ period.from >= t
                 \/ c.type = Bad
                 \/ \E x \in Filters(c, period).tags : NameLength[x] > MaxTagLength
                 \/ \E i \in DOMAIN c.tags : Cardinality(c.tags[i]) > 1
<1> DEFINE p == Filters(c, period)
           T == {Lower[x] : x \in UNION StringList(c.tags)}
<1>1. /\ p.q = CutText(c.text) /\ p.tags = UNION StringList(c.tags) /\ p.type = NormaliseContentType(c.type)
      /\ p.match = IF c.matchAll THEN "all" ELSE None
      /\ p.from = period.from /\ p.to = period.to
      /\ p = [q |-> p.q, tags |-> p.tags, match |-> p.match, type |-> p.type, from |-> p.from, to |-> p.to]
  BY DEF Filters
<1>2. /\ c.text \in Names \cup {None} /\ c.type \in Names \cup {None, Bad, AnyType}
      /\ c.tags \in Seq(SUBSET Names) /\ \A i \in DOMAIN c.tags : IsFiniteSet(c.tags[i])
  BY DEF IsCall
<1>3. p.q \in Names \cup {None} /\ (p.q # None => NameLength[p.q] <= MaxTextLength)
  BY <1>1, <1>2, CutTextIs
<1>4. p.tags \in SUBSET Names
  <2>1. \A s \in StringList(c.tags) : s \in SUBSET Names
    <3>1. \A s \in StringList(c.tags) : \E i \in DOMAIN c.tags : s = c.tags[i]
      BY DEF StringList, Firsts
    <3>2. \A i \in DOMAIN c.tags : c.tags[i] \in SUBSET Names
      BY <1>2
    <3> QED
      BY <3>1, <3>2
  <2> QED
    BY <1>1, <2>1
<1>5. p.type \in Names \cup {None, Bad} /\ (p.type = Bad => c.type = Bad)
  <2>1. AnyType \notin Names \cup {None, Bad} /\ None # Bad
    BY InputAssumption, QueryAssumption
  <2> QED
    BY <1>1, <1>2, <2>1 DEF NormaliseContentType
<1>6. p.match \in {None, "any", "all"} /\ p.match \in {"any", "all", None, Bad}
  <2>1. p.match = "all" \/ p.match = None
    BY <1>1
  <2> QED
    BY <2>1
<1>7. p.from \in Int \cup {None, Bad} /\ p.to \in Int \cup {None, Bad}
  BY <1>1 DEF RangeIs
<1> HIDE DEF p
<1>8. p \in Parameters(Int)
  BY <1>1, <1>3, <1>4, <1>5, <1>6, <1>7 DEF Parameters
<1>9. ASSUME \A i \in DOMAIN c.tags : ~(Cardinality(c.tags[i]) > 1)
      PROVE  Cardinality(T) \in Nat /\ Cardinality(T) <= MaxTags
  <2>1. Cardinality(T) <= ToolTags
    BY <1>2, <1>9, TagsAreFew
  <2>2. IsFiniteSet(T)
    <3>1. c.tags \in Seq(SUBSET Names) /\ Len(c.tags) \in Nat /\ DOMAIN c.tags = 1 .. Len(c.tags)
      BY <1>2
    <3> DEFINE D == DOMAIN c.tags
               L == {c.tags[i] : i \in D}
               f == [i \in D |-> c.tags[i]]
    <3>2. IsFiniteSet(D)
      BY <3>1, UpToSize
    <3>3. f \in Surjection(D, L)
      BY DEF Surjection
    <3>4. IsFiniteSet(L)
      BY <3>2, <3>3, FS_Surjection
    <3>5. StringList(c.tags) \in SUBSET L /\ \A s \in StringList(c.tags) : IsFiniteSet(s)
      BY <1>2 DEF StringList, Firsts
    <3>6. IsFiniteSet(StringList(c.tags))
      BY <3>4, <3>5, FS_Subset
    <3>7. IsFiniteSet(UNION StringList(c.tags))
      BY <3>5, <3>6, FS_UNION
    <3> DEFINE U == UNION StringList(c.tags)
               g == [x \in U |-> Lower[x]]
    <3>8. g \in Surjection(U, T)
      BY DEF Surjection
    <3> QED
      BY <3>7, <3>8, FS_Surjection
  <2>3. Cardinality(T) \in Nat
    BY <2>2, FS_CardinalityType
  <2>4. ToolTags \in Nat /\ MaxTags \in Nat /\ ToolTags <= MaxTags
    BY ToolAssumption, QueryAssumption
  <2> QED
    BY <2>1, <2>3, <2>4
<1>10. ASSUME ~(period.from # None /\ period.from >= t), c.type # Bad,
              ~(\E x \in p.tags : NameLength[x] > MaxTagLength),
              \A i \in DOMAIN c.tags : ~(Cardinality(c.tags[i]) > 1)
       PROVE  Filter(p).errors = {}
  <2>1. {Lower[x] : x \in p.tags} = T
    BY <1>1
  <2>2. Cardinality({Lower[x] : x \in p.tags}) \in Nat /\ Cardinality({Lower[x] : x \in p.tags}) <= MaxTags
    BY <1>9, <1>10, <2>1
  <2>3. RangeIs(p.from, p.to, t) /\ ~(p.from # None /\ p.from >= t)
    BY <1>1, <1>10
  <2>4. p.type # Bad
    BY <1>5, <1>10
  <2> QED
    BY <1>3, <1>4, <1>6, <1>10, <2>2, <2>3, <2>4, FilterAccepts
<1>11. Filter(p).errors # {}
         => \/ period.from # None /\ period.from >= t
            \/ c.type = Bad
            \/ \E x \in p.tags : NameLength[x] > MaxTagLength
            \/ \E i \in DOMAIN c.tags : Cardinality(c.tags[i]) > 1
  BY <1>10
<1> QED
  BY <1>8, <1>11 DEF p

(* So has the search, the statistics and the list of tags of a call.       *)
LEMMA SearchAccepted ==
  ASSUME NEW c \in SearchCalls, NEW t \in Nat, t >= Start, ~Resolve(c, t).error, c.sort \in Sorts,
         NEW p, p = SearchQuery(c, Resolve(c, t))
  PROVE  /\ p.filter \in Parameters(Int) /\ {p.page, p.pageSize} \subseteq Int \cup {None}
         /\ ParseSearch(p).errors # {} => Excused(p, c, t)
<1>1. IsCall(c)
  BY InputAssumption
<1>2. RangeIs(Resolve(c, t).from, Resolve(c, t).to, t)
  BY <1>1, PeriodIs DEF IsCall
<1>3. /\ p.filter = Filters(c, Resolve(c, t)) /\ p.sort = c.sort /\ p.page = 1
      /\ p.pageSize = IntArg(c.limit, DefaultLimit, 1, MaxLimit)
  BY DEF SearchQuery
<1>4. p.filter.from = Resolve(c, t).from
  BY <1>3 DEF Filters
<1>5. /\ p.filter \in Parameters(Int)
      /\ Filter(p.filter).errors # {} => Excused(p, c, t)
  BY <1>1, <1>2, <1>3, <1>4, FiltersAre DEF Excused
<1>6. /\ MaxLimit \in Nat /\ MaxPageSize \in Nat /\ MaxLimit <= MaxPageSize /\ DefaultLimit \in 1 .. MaxLimit
      /\ None \notin Int
  BY ToolAssumption, QueryAssumption
<1>7. p.pageSize \in 0 .. MaxLimit /\ (c.limit # NotANumber => p.pageSize \in 1 .. MaxLimit)
  BY <1>1, <1>3, <1>6, IntArgIs DEF IsCall
<1>8. p.pageSize \in Int /\ p.pageSize # None /\ (c.limit # NotANumber => p.pageSize \in 1 .. MaxPageSize)
  BY <1>6, <1>7
<1>9. Or(p.sort, "uploadedAt_desc") \in Sorts
  BY <1>3 DEF Or, Sorts
<1>10. Or(p.page, 1) = 1 /\ Or(p.pageSize, DefaultSize) = p.pageSize
  BY <1>3, <1>8 DEF Or
<1>11. c.limit # NotANumber => ParseSearch(p).errors = Filter(p.filter).errors
  BY <1>8, <1>9, <1>10 DEF ParseSearch, When
<1> QED
  BY <1>3, <1>5, <1>8, <1>11 DEF Excused

LEMMA StatsAccepted ==
  ASSUME NEW c \in StatsCalls, NEW t \in Nat, t >= Start, ~Resolve(c, t).error, c.groupBy \in Groupings,
         NEW p, p = StatsQuery(c, Resolve(c, t))
  PROVE  /\ p.filter \in Parameters(Int) /\ p.top \in Int \cup {None}
         /\ ParseStats(p).errors # {} => Excused(p, c, t)
<1>1. IsCall(c)
  BY InputAssumption
<1>2. RangeIs(Resolve(c, t).from, Resolve(c, t).to, t)
  BY <1>1, PeriodIs DEF IsCall
<1>3. /\ p.filter = Filters(c, Resolve(c, t)) /\ p.groupBy = c.groupBy
      /\ p.top = IntArg(c.limit, DefaultLimit, 1, MaxLimit)
  BY DEF StatsQuery
<1>4. p.filter.from = Resolve(c, t).from
  BY <1>3 DEF Filters
<1>5. /\ p.filter \in Parameters(Int)
      /\ Filter(p.filter).errors # {} => Excused(p, c, t)
  BY <1>1, <1>2, <1>3, <1>4, FiltersAre DEF Excused
<1>6. /\ MaxLimit \in Nat /\ MaxTop \in Nat /\ MaxLimit <= MaxTop /\ DefaultLimit \in 1 .. MaxLimit
      /\ None \notin Int
  BY ToolAssumption, QueryAssumption
<1>7. p.top \in 0 .. MaxLimit /\ (c.limit # NotANumber => p.top \in 1 .. MaxLimit)
  BY <1>1, <1>3, <1>6, IntArgIs DEF IsCall
<1>8. p.top \in Int /\ p.top # None /\ (c.limit # NotANumber => p.top \in 1 .. MaxTop)
  BY <1>6, <1>7
<1>9. Or(p.groupBy, "none") \in Groupings
  BY <1>3 DEF Or, Groupings
<1>10. Or(p.top, DefaultSize) = p.top
  BY <1>8 DEF Or
<1>11. c.limit # NotANumber => ParseStats(p).errors = Filter(p.filter).errors
  BY <1>8, <1>9, <1>10 DEF ParseStats, When
<1> QED
  BY <1>5, <1>8, <1>11 DEF Excused

LEMMA TagsAccepted ==
  ASSUME NEW c \in SearchCalls, NEW p, p = TagsQuery(c)
  PROVE  /\ p.filter \in Parameters(Int) /\ p.top \in Int \cup {None}
         /\ c.limit # NotANumber => ParseStats(p).errors = {}
<1>1. p.filter = NoFilter /\ p.groupBy = "tag" /\ p.top = IntArg(c.limit, DefaultListed, 1, MaxListed)
  BY DEF TagsQuery
<1>2. c.limit \in Int \cup {None, Bad, NotANumber}
  BY InputAssumption DEF IsCall
<1>3. /\ MaxListed \in Nat /\ MaxTop \in Nat /\ MaxListed <= MaxTop /\ DefaultListed \in 1 .. MaxListed
      /\ None \notin Int /\ None # Bad /\ MaxTags \in Nat
  BY ToolAssumption, QueryAssumption
<1>4. p.top \in 0 .. MaxListed /\ (c.limit # NotANumber => p.top \in 1 .. MaxListed)
  BY <1>1, <1>2, <1>3, IntArgIs
<1>5. p.top \in Int /\ p.top # None /\ (c.limit # NotANumber => p.top \in 1 .. MaxTop)
  BY <1>3, <1>4
<1>6. p.filter \in Parameters(Int)
  BY <1>1 DEF NoFilter, Parameters
<1>7. Filter(p.filter).errors = {}
  <2>1. /\ NoFilter.q = None /\ NoFilter.tags = {} /\ NoFilter.match = None /\ NoFilter.type = None
        /\ NoFilter.from = None /\ NoFilter.to = None
    BY DEF NoFilter
  <2>2. {Lower[x] : x \in NoFilter.tags} = {}
    BY <2>1
  <2>3. Cardinality({Lower[x] : x \in NoFilter.tags}) = 0
    BY <2>2, FS_EmptySet
  <2>4. RangeIs(NoFilter.from, NoFilter.to, 0)
    BY <2>1 DEF RangeIs
  <2>5. /\ NoFilter.q \in Names \cup {None} /\ NoFilter.tags \in SUBSET Names /\ NoFilter.match \in {None, "any", "all"}
        /\ NoFilter.type # Bad
    BY <1>3, <2>1
  <2>6. ~(\E x \in NoFilter.tags : NameLength[x] > MaxTagLength)
    BY <2>1
  <2>7. /\ Cardinality({Lower[x] : x \in NoFilter.tags}) \in Nat
        /\ Cardinality({Lower[x] : x \in NoFilter.tags}) <= MaxTags
    BY <1>3, <2>3
  <2>8. NoFilter.q # None => NameLength[NoFilter.q] <= MaxTextLength
    BY <2>1
  <2>9. ~(NoFilter.from # None /\ NoFilter.from >= 0)
    BY <2>1
  <2>10. 0 \in Nat
    OBVIOUS
  <2>11. Filter(NoFilter).errors = {}
    BY ONLY <2>4, <2>5, <2>6, <2>7, <2>8, <2>9, <2>10, FilterAccepts
  <2> QED
    BY <1>1, <2>11
<1>8. Or(p.groupBy, "none") \in Groupings
  BY <1>1 DEF Or, Groupings
<1>9. Or(p.top, DefaultSize) = p.top
  BY <1>5 DEF Or
<1>10. c.limit # NotANumber => ParseStats(p).errors = {}
  BY <1>5, <1>7, <1>8, <1>9 DEF ParseStats, When
<1> QED
  BY <1>5, <1>6, <1>10

(* The fields in error are those of a refusal.                             *)
LEMMA ErrorsAre ==
  ASSUME NEW kind, NEW p
  PROVE  Parsed(kind, p).errors \in SUBSET ErrorFields
<1>1. \A c, f : When(c, f) \subseteq {f}
  BY DEF When
<1>2. \A q : Filter(q).errors \subseteq {"q", "tags", "tagMatch", "contentType", "from", "to"}
  <2> SUFFICES ASSUME NEW q
               PROVE  Filter(q).errors \subseteq {"q", "tags", "tagMatch", "contentType", "from", "to"}
    OBVIOUS
  <2> DEFINE tags == {Lower[x] : x \in q.tags}
             from == Instant(q.from)
             to == Instant(q.to)
  <2>1. Filter(q).errors =
          When(q.q # None /\ NameLength[q.q] > MaxTextLength, "q")
            \cup When(Cardinality(tags) > MaxTags, "tags")
            \cup When(\E x \in tags : NameLength[x] > MaxTagLength, "tags")
            \cup When(q.match \notin {None, "any", "all"}, "tagMatch")
            \cup When(q.type = Bad, "contentType")
            \cup When(q.from = Bad, "from")
            \cup When(q.to = Bad \/ (from # None /\ to # None /\ from >= to), "to")
    BY DEF Filter
  <2> QED
    BY <2>1 DEF When
<1>3. ParseSearch(p).errors \subseteq {"q", "tags", "tagMatch", "contentType", "from", "to", "sort", "page", "pageSize"}
  <2>1. \E a, b, c : ParseSearch(p).errors = Filter(p.filter).errors \cup When(a, "sort") \cup When(b, "page")
                                             \cup When(c, "pageSize")
    BY DEF ParseSearch
  <2> QED
    BY <1>1, <1>2, <2>1
<1>4. ParseStats(p).errors \subseteq {"q", "tags", "tagMatch", "contentType", "from", "to", "groupBy", "top"}
  <2>1. \E a, b : ParseStats(p).errors = Filter(p.filter).errors \cup When(a, "groupBy") \cup When(b, "top")
    BY DEF ParseStats
  <2> QED
    BY <1>1, <1>2, <2>1
<1> QED
  BY <1>3, <1>4 DEF Parsed, ErrorFields

-----------------------------------------------------------------------------
(* The inductive invariant.                                                *)

(* A question p that the frontend, or a tool for its call c, may ask at t. *)
Legit(kind, p, c, t) ==
  /\ t \in Nat /\ t >= Start
  /\ \/ kind = "search" /\ c = None /\ p \in Searches
     \/ kind = "stats" /\ c = None /\ p \in Statistics
     \/ /\ kind = "search" /\ c \in SearchCalls /\ ~Resolve(c, t).error /\ c.sort \in Sorts
        /\ p = SearchQuery(c, Resolve(c, t))
     \/ /\ kind = "stats" /\ c \in StatsCalls /\ ~Resolve(c, t).error /\ c.groupBy \in Groupings
        /\ p = StatsQuery(c, Resolve(c, t))
     \/ kind = "stats" /\ c \in SearchCalls /\ p = TagsQuery(c)

(* No question; a call that the tool itself refused; or a question with    *)
(* its query, that is refused, or is answered from the library as it is.   *)
Refused == asked = [kind |-> "tool_error", call |-> asked.call] /\ reply = [errors |-> {"invalid_argument"}]
Underway ==
  /\ Legit(asked.kind, asked.p, asked.call, asked.at)
  /\ asked.query = Parsed(asked.kind, asked.p).query
  /\ IF Parsed(asked.kind, asked.p).errors = {} THEN reply = None \/ reply = AnswerTo(asked)
     ELSE reply = [errors |-> Parsed(asked.kind, asked.p).errors]
QuestionSound == (asked = None /\ reply = None) \/ Refused \/ Underway

ToolsInductive == LibrarySound /\ now \in Nat /\ now >= Start /\ QuestionSound

(* A refusal is a reply.                                                   *)
LEMMA RefusalIsNoAnswer ==
  ASSUME NEW errors \in SUBSET ErrorFields
  PROVE  [errors |-> errors] # None
<1>1. [errors |-> errors] \in [errors : SUBSET ErrorFields]
  OBVIOUS
<1> QED
  BY <1>1, InputAssumption

(* The invariant holds at first.                                           *)
LEMMA ToolsInit == Init => ToolsInductive
<1> SUFFICES ASSUME Init PROVE ToolsInductive
  OBVIOUS
<1>1. library = {} /\ now = Start /\ asked = None /\ reply = None
  BY DEF Init
<1>2. LibrarySound
  BY <1>1, FS_EmptySet DEF LibrarySound, Unique
<1> QED
  BY <1>1, <1>2, ToolAssumption DEF ToolsInductive, QuestionSound

(* A question leaves the answer open, or is refused.                       *)
LEMMA AskKeeps ==
  ASSUME NEW kind, NEW p, NEW c, Legit(kind, p, c, now), Ask(kind, p, c)
  PROVE  QuestionSound'
<1>1. /\ asked' = [kind |-> kind, p |-> p, query |-> Parsed(kind, p).query, call |-> c, at |-> now]
      /\ reply' = IF Parsed(kind, p).errors = {} THEN None ELSE [errors |-> Parsed(kind, p).errors]
  BY DEF Ask
<1>2. /\ asked'.kind = kind /\ asked'.p = p /\ asked'.call = c /\ asked'.at = now
      /\ asked'.query = Parsed(kind, p).query
  BY <1>1
<1>3. Underway'
  BY <1>1, <1>2 DEF Underway
<1> QED
  BY <1>3 DEF QuestionSound

(* Every step keeps the invariant.                                         *)
LEMMA ToolsNext == ToolsInductive /\ [Next]_vars => ToolsInductive'
<1> SUFFICES ASSUME ToolsInductive, [Next]_vars PROVE ToolsInductive'
  OBVIOUS
<1> USE DEF ToolsInductive
<1>1. CASE UNCHANGED vars
  <2>1. library' = library /\ now' = now /\ asked' = asked /\ reply' = reply
    BY <1>1 DEF vars
  <2>2. LibrarySound'
    BY <2>1 DEF LibrarySound, Unique
  <2>3. QuestionSound'
    BY <2>1 DEF QuestionSound, Refused, Underway, AnswerTo
  <2> QED
    BY <2>1, <2>2, <2>3
<1>2. ASSUME NEW row \in Rows, Upload(row) PROVE ToolsInductive'
  <2>1. /\ reply = None /\ \A m \in library : m.id # row.id
        /\ library' = library \cup {[row EXCEPT !.at = now]}
        /\ now' = now /\ asked' = asked /\ reply' = reply
    BY <1>2 DEF Upload
  <2> DEFINE new == [row EXCEPT !.at = now]
  <2>2. row \in Media({None})
    BY InputAssumption
  <2>3. new \in Media(Nat) /\ new.id = row.id /\ new.tags = row.tags
    BY <2>2 DEF Media
  <2> HIDE DEF new
  <2>4. library' = library \cup {new}
    BY <2>1 DEF new
  <2>5. LibrarySound'
    <3>1. IsFiniteSet(library \cup {new})
      BY FS_AddElement DEF LibrarySound
    <3>2. library \cup {new} \in SUBSET Media(Nat)
      BY <2>3 DEF LibrarySound
    <3>3. Unique(library \cup {new})
      BY <2>1, <2>3 DEF LibrarySound, Unique
    <3>4. \A m \in library \cup {new} : IsFiniteSet(m.tags)
      BY <2>3, InputAssumption DEF LibrarySound
    <3> QED
      BY <2>4, <3>1, <3>2, <3>3, <3>4 DEF LibrarySound
  <2>6. QuestionSound'
    <3>1. CASE asked = None
      BY <2>1, <3>1 DEF QuestionSound
    <3>2. CASE Underway
      BY <2>1, <3>2, ErrorsAre, RefusalIsNoAnswer DEF QuestionSound, Underway
    <3>3. CASE Refused
      BY <2>1, <3>3 DEF QuestionSound, Refused
    <3> QED
      BY <3>1, <3>2, <3>3 DEF QuestionSound
  <2> QED
    BY <2>1, <2>5, <2>6
<1>3. CASE Tick
  <2>1. /\ reply = None /\ now' = now + 1
        /\ library' = library /\ asked' = asked /\ reply' = reply
    BY <1>3 DEF Tick
  <2>2. LibrarySound'
    BY <2>1 DEF LibrarySound, Unique
  <2>3. QuestionSound'
    BY <2>1 DEF QuestionSound, Refused, Underway, AnswerTo
  <2>4. now' \in Nat /\ now' >= Start
    BY <2>1, ToolAssumption
  <2> QED
    BY <2>2, <2>3, <2>4
<1>4. CASE Question
  <2>1. library' = library /\ now' = now
    BY <1>4 DEF Question
  <2>2. LibrarySound'
    BY <2>1 DEF LibrarySound, Unique
  <2>3. now \in Nat /\ now >= Start
    OBVIOUS
  <2> SUFFICES QuestionSound'
    BY <2>1, <2>2, <2>3
  <2>4. ASSUME NEW c, ToolError(c) PROVE QuestionSound'
    <3>1. asked' = [kind |-> "tool_error", call |-> c] /\ reply' = [errors |-> {"invalid_argument"}]
      BY <2>4 DEF ToolError
    <3>2. asked'.call = c
      BY <3>1
    <3> QED
      BY <3>1, <3>2 DEF QuestionSound, Refused
  <2>5. CASE AskSearch
    <3>1. PICK p \in Searches : Ask("search", p, None)
      BY <2>5 DEF AskSearch
    <3>2. Legit("search", p, None, now)
      BY <2>3 DEF Legit
    <3> QED
      BY <3>1, <3>2, AskKeeps
  <2>6. CASE AskStats
    <3>1. PICK p \in Statistics : Ask("stats", p, None)
      BY <2>6 DEF AskStats
    <3>2. Legit("stats", p, None, now)
      BY <2>3 DEF Legit
    <3> QED
      BY <3>1, <3>2, AskKeeps
  <2>7. CASE CallSearch
    <3>1. PICK c \in SearchCalls :
            IF Resolve(c, now).error \/ c.sort \notin Sorts THEN ToolError(c)
            ELSE Ask("search", SearchQuery(c, Resolve(c, now)), c)
      BY <2>7 DEF CallSearch
    <3>2. CASE Resolve(c, now).error \/ c.sort \notin Sorts
      BY <2>4, <3>1, <3>2
    <3>3. CASE ~(Resolve(c, now).error \/ c.sort \notin Sorts)
      <4>1. PICK p : p = SearchQuery(c, Resolve(c, now))
        OBVIOUS
      <4>2. Legit("search", p, c, now)
        BY <2>3, <3>3, <4>1 DEF Legit
      <4>3. Ask("search", p, c)
        BY <3>1, <3>3, <4>1
      <4> QED
        BY <4>2, <4>3, AskKeeps
    <3> QED
      BY <3>2, <3>3
  <2>8. CASE CallStats
    <3>1. PICK c \in StatsCalls :
            IF Resolve(c, now).error \/ c.groupBy \notin Groupings THEN ToolError(c)
            ELSE Ask("stats", StatsQuery(c, Resolve(c, now)), c)
      BY <2>8 DEF CallStats
    <3>2. CASE Resolve(c, now).error \/ c.groupBy \notin Groupings
      BY <2>4, <3>1, <3>2
    <3>3. CASE ~(Resolve(c, now).error \/ c.groupBy \notin Groupings)
      <4>1. PICK p : p = StatsQuery(c, Resolve(c, now))
        OBVIOUS
      <4>2. Legit("stats", p, c, now)
        BY <2>3, <3>3, <4>1 DEF Legit
      <4>3. Ask("stats", p, c)
        BY <3>1, <3>3, <4>1
      <4> QED
        BY <4>2, <4>3, AskKeeps
    <3> QED
      BY <3>2, <3>3
  <2>9. CASE CallTags
    <3>1. PICK c \in SearchCalls : Ask("stats", TagsQuery(c), c)
      BY <2>9 DEF CallTags
    <3>2. Legit("stats", TagsQuery(c), c, now)
      BY <2>3 DEF Legit
    <3> QED
      BY <3>1, <3>2, AskKeeps
  <2> QED
    BY <1>4, <2>5, <2>6, <2>7, <2>8, <2>9 DEF Question
<1>5. CASE Answer
  <2>1. /\ asked # None /\ reply = None /\ reply' = AnswerTo(asked)
        /\ library' = library /\ now' = now /\ asked' = asked
    BY <1>5 DEF Answer
  <2>2. LibrarySound'
    BY <2>1 DEF LibrarySound, Unique
  <2>3. Underway
    BY <2>1, RefusalIsNoAnswer DEF QuestionSound, Refused, ErrorFields
  <2>4. Parsed(asked.kind, asked.p).errors = {}
    BY <2>1, <2>3, ErrorsAre, RefusalIsNoAnswer DEF Underway
  <2>5. AnswerTo(asked)' = AnswerTo(asked)
    BY <2>1 DEF AnswerTo
  <2>6. Underway'
    BY <2>1, <2>3, <2>4, <2>5 DEF Underway
  <2> QED
    BY <2>1, <2>2, <2>6 DEF QuestionSound
<1>6. CASE Forget
  <2>1. asked' = None /\ reply' = None /\ library' = library /\ now' = now
    BY <1>6 DEF Forget
  <2>2. LibrarySound'
    BY <2>1 DEF LibrarySound, Unique
  <2> QED
    BY <2>1, <2>2 DEF QuestionSound
<1> QED
  BY <1>1, <1>2, <1>3, <1>4, <1>5, <1>6 DEF Next

(* The types of a question that is asked.                                  *)
LEMMA LegitTypes ==
  ASSUME NEW kind, NEW p, NEW c, NEW t, Legit(kind, p, c, t)
  PROVE  /\ kind \in {"search", "stats"} /\ p.filter \in Parameters(Int)
         /\ kind = "search" => {p.page, p.pageSize} \subseteq Int \cup {None}
         /\ kind = "stats" => p.top \in Int \cup {None}
         /\ c = None => p.filter \in Parameters(Nat)
         /\ c # None /\ Parsed(kind, p).errors # {} => Excused(p, c, t)
<1>1. t \in Nat /\ t >= Start
  BY DEF Legit
<1>2. \A q \in Parameters(Nat) : q \in Parameters(Int)
  BY DEF Parameters
<1>3. /\ \A q \in Searches : q.filter \in Parameters(Nat) /\ {q.page, q.pageSize} \subseteq Int \cup {None}
      /\ \A q \in Statistics : q.filter \in Parameters(Nat) /\ q.top \in Int \cup {None}
      /\ None \notin SearchCalls /\ None \notin StatsCalls
  BY InputAssumption
<1>4. CASE kind = "search" /\ c = None /\ p \in Searches
  BY <1>2, <1>3, <1>4
<1>5. CASE kind = "stats" /\ c = None /\ p \in Statistics
  BY <1>2, <1>3, <1>5
<1>6. CASE /\ kind = "search" /\ c \in SearchCalls /\ ~Resolve(c, t).error /\ c.sort \in Sorts
           /\ p = SearchQuery(c, Resolve(c, t))
  BY <1>1, <1>3, <1>6, SearchAccepted DEF Parsed
<1>7. CASE /\ kind = "stats" /\ c \in StatsCalls /\ ~Resolve(c, t).error /\ c.groupBy \in Groupings
           /\ p = StatsQuery(c, Resolve(c, t))
  BY <1>1, <1>3, <1>7, StatsAccepted DEF Parsed
<1>8. CASE kind = "stats" /\ c \in SearchCalls /\ p = TagsQuery(c)
  BY <1>3, <1>8, TagsAccepted DEF Parsed, Excused
<1> QED
  BY <1>4, <1>5, <1>6, <1>7, <1>8 DEF Legit

(* Statistics of too many buckets are refused.                             *)
TooManyBuckets(lib, q, t) ==
  q.groupBy \in TimeGroups /\ Cardinality(BucketDays(LoadRows(lib, q.filter), q, t)) > MaxTimeBuckets

(* An answer is an error only for too many buckets.                        *)
LEMMA AnswersAreNoErrors ==
  ASSUME asked.kind \in {"search", "stats"}, "errors" \in DOMAIN AnswerTo(asked)
  PROVE  asked.kind = "stats" /\ TooManyBuckets(library, asked.query, asked.at)
<1>1. CASE asked.kind = "search"
  <2> DEFINE r == Search(library, asked.query)
  <2>1. "errors" \notin DOMAIN r
    BY DEF Search
  <2>2. AnswerTo(asked) = IF asked.call = None \/ "errors" \in DOMAIN r THEN r
                          ELSE [items |-> FitList(r.items).items, truncated |-> FitList(r.items).truncated,
                                total |-> r.total]
    BY <1>1 DEF AnswerTo
  <2> HIDE DEF r
  <2> QED
    BY <2>1, <2>2
<1>2. CASE asked.kind = "stats"
  <2> DEFINE r == Stats(library, asked.query, asked.at)
             f == FitList(r.groups)
  <2>1. AnswerTo(asked) = IF asked.call = None \/ "errors" \in DOMAIN r THEN r
                          ELSE [totals |-> r.totals, groups |-> f.items, truncated |-> r.truncated \/ f.truncated]
    BY <1>2 DEF AnswerTo
  <2> HIDE DEF r, f
  <2>2. "errors" \in DOMAIN r
    BY <2>1
  <2>3. ~TooManyBuckets(library, asked.query, asked.at) => "errors" \notin DOMAIN r
    BY DEF r, Stats, TooManyBuckets
  <2> QED
    BY <1>2, <2>2, <2>3
<1> QED
  BY <1>1, <1>2

(* An answer that is no refusal answers the question under way.            *)
LEMMA AnsweredIs ==
  ASSUME QuestionSound, NEW kind, Answered(kind)
  PROVE  /\ asked.kind = kind /\ Legit(kind, asked.p, asked.call, asked.at)
         /\ Parsed(kind, asked.p).errors = {} /\ asked.query = Parsed(kind, asked.p).query
         /\ reply = AnswerTo(asked)
<1>1. reply # None /\ "errors" \notin DOMAIN reply /\ asked.kind = kind
  BY DEF Answered
<1>2. ~Refused
  BY <1>1 DEF Refused
<1>3. Underway
  BY <1>1, <1>2 DEF QuestionSound
<1>4. Parsed(asked.kind, asked.p).errors = {}
  BY <1>1, <1>3 DEF Underway
<1> QED
  BY <1>1, <1>3, <1>4 DEF Underway

-----------------------------------------------------------------------------
(* The buckets of a range of time.                                         *)

(* A sum over the numbers up to n, when the counts are those of the rows   *)
(* that a function puts there, is the number of rows.                      *)
CountOf(g) == MapThenSumSet(LAMBDA i : g[i].count, DOMAIN g)

LEMMA CountsAddUp ==
  ASSUME NEW n \in Nat, NEW g, DOMAIN g = 1 .. n, NEW R, IsFiniteSet(R), NEW w \in [R -> 1 .. n],
         \A i \in 1 .. n : g[i].count = Cardinality({m \in R : w[m] = i})
  PROVE  CountOf(g) = Cardinality(R)
<1> DEFINE S == 1 .. n
           In(s) == {m \in R : w[m] \in s}
           Step(h, s) == IF s = {} THEN 0
                         ELSE LET x == CHOOSE x \in s : TRUE IN g[x].count + h[s \ {x}]
           f == [s \in SUBSET S |-> Cardinality(In(s))]
           iter == CHOOSE h : h = [s \in SUBSET S |-> Step(h, s)]
<1>1. CountOf(g) = iter[S]
  BY DEF CountOf, MapThenSumSet, MapThenFoldSet
<1>2. \A s : IsFiniteSet(In(s)) /\ Cardinality(In(s)) \in Nat
  <2>1. \A s : In(s) \in SUBSET R
    OBVIOUS
  <2> HIDE DEF In
  <2> QED
    BY <2>1, FS_Subset, FS_CardinalityType
<1>3. ASSUME NEW s \in SUBSET S, NEW x \in s
      PROVE  Cardinality(In(s)) = g[x].count + Cardinality(In(s \ {x}))
  <2>1. In(s) = In(s \ {x}) \cup {m \in R : w[m] = x} /\ In(s \ {x}) \cap {m \in R : w[m] = x} = {}
    OBVIOUS
  <2>2. IsFiniteSet({m \in R : w[m] = x})
    <3>1. {m \in R : w[m] = x} \in SUBSET R
      OBVIOUS
    <3> QED
      BY <3>1, FS_Subset
  <2>3. IsFiniteSet(In(s \ {x})) /\ Cardinality(In(s \ {x})) \in Nat
    BY <1>2
  <2>4. Cardinality({m \in R : w[m] = x}) \in Nat /\ g[x].count = Cardinality({m \in R : w[m] = x})
    BY <2>2, FS_CardinalityType
  <2> DEFINE A == In(s \ {x})
             B == {m \in R : w[m] = x}
  <2>5. Cardinality({}) = 0
    BY FS_EmptySet
  <2>6. /\ In(s) = A \cup B /\ A \cap B = {} /\ IsFiniteSet(A) /\ IsFiniteSet(B)
        /\ Cardinality(A) \in Nat /\ Cardinality(B) \in Nat /\ g[x].count = Cardinality(B)
    BY <2>1, <2>2, <2>3, <2>4
  <2> HIDE DEF A, B, In
  <2>7. Cardinality(A \cup B) = Cardinality(A) + Cardinality(B) - Cardinality(A \cap B)
    BY <2>6, FS_Union
  <2>8. Cardinality(In(s)) = g[x].count + Cardinality(A)
    <3>1. Cardinality(A \cap B) = 0 /\ Cardinality(In(s)) = Cardinality(A \cup B)
      BY <2>5, <2>6
    <3>2. Cardinality(In(s)) = Cardinality(B) + Cardinality(A)
      BY <2>6, <2>7, <3>1
    <3> QED
      BY <2>6, <3>2
  <2> QED
    BY <2>8 DEF A
<1>4. f = [s \in SUBSET S |-> Step(f, s)]
  <2>1. ASSUME NEW s \in SUBSET S PROVE f[s] = Step(f, s)
    <3>1. CASE s = {}
      <4>1. In(s) = {}
        BY <3>1
      <4> QED
        BY <3>1, <4>1, FS_EmptySet
    <3>2. CASE s # {}
      <4>1. PICK x \in s : x = CHOOSE y \in s : TRUE
        BY <3>2
      <4>2. s \ {x} \in SUBSET S
        OBVIOUS
      <4>3. f[s] = Cardinality(In(s)) /\ f[s \ {x}] = Cardinality(In(s \ {x}))
        BY <4>2
      <4>4. Step(f, s) = g[x].count + f[s \ {x}]
        BY <3>2, <4>1
      <4> QED
        BY <1>3, <4>3, <4>4
    <3> QED
      BY <3>1, <3>2
  <2> HIDE DEF Step
  <2>2. f = [s \in SUBSET S |-> f[s]]
    OBVIOUS
  <2> QED
    BY <2>1, <2>2
<1>5. iter = [s \in SUBSET S |-> Step(iter, s)]
  <2>1. \E h : h = [s \in SUBSET S |-> Step(h, s)]
    BY <1>4
  <2> HIDE DEF Step
  <2> QED
    BY <2>1
<1> HIDE DEF iter
<1>6. iter[{}] = 0 /\ \A s \in SUBSET S : s # {} => \E x \in s : iter[s] = g[x].count + iter[s \ {x}]
  <2>1. \A s \in SUBSET S : iter[s] = Step(iter, s)
    BY <1>5
  <2>2. ASSUME NEW s \in SUBSET S, s # {} PROVE \E x \in s : iter[s] = g[x].count + iter[s \ {x}]
    <3>1. PICK x \in s : x = CHOOSE y \in s : TRUE
      BY <2>2
    <3> QED
      BY <2>1, <2>2, <3>1
  <2> QED
    BY <2>1, <2>2
<1> HIDE DEF Step, f
<1>7. \A s \in SUBSET S : IsFiniteSet(s) /\ Cardinality(s) \in Nat
  BY UpToSize, FS_Subset, FS_CardinalityType
<1> DEFINE Wrong == {k \in Nat : \E s \in SUBSET S : Cardinality(s) = k /\ iter[s] # Cardinality(In(s))}
<1>8. ASSUME Wrong # {} PROVE FALSE
  <2>1. PICK k \in Wrong : \A j \in Wrong : k <= j
    BY <1>8, LeastExists
  <2>2. PICK s \in SUBSET S : Cardinality(s) = k /\ iter[s] # Cardinality(In(s))
    BY <2>1
  <2>3. s # {}
    <3> SUFFICES ASSUME s = {} PROVE FALSE
      OBVIOUS
    <3>1. In(s) = {}
      OBVIOUS
    <3> QED
      BY <1>6, <2>2, <3>1, FS_EmptySet
  <2>4. PICK x \in s : iter[s] = g[x].count + iter[s \ {x}]
    BY <1>6, <2>3
  <2>5. s \ {x} \in SUBSET S /\ Cardinality(s \ {x}) = Cardinality(s) - 1
    BY <1>7, FS_RemoveElement
  <2>6. Cardinality(s \ {x}) \in Nat /\ Cardinality(s \ {x}) < k
    BY <1>7, <2>2, <2>5
  <2>7. iter[s \ {x}] = Cardinality(In(s \ {x}))
    <3> DEFINE j == Cardinality(s \ {x})
    <3>1. j \in Nat /\ k \in Nat /\ j < k
      BY <2>6
    <3>2. j \notin Wrong
      <4> HIDE DEF j, Wrong
      <4> QED
        BY <2>1, <3>1
    <3> QED
      BY <2>5, <2>6, <3>2
  <2>8. Cardinality(In(s)) = g[x].count + Cardinality(In(s \ {x}))
    BY <1>3
  <2> QED
    BY <2>2, <2>4, <2>7, <2>8
<1>9. iter[S] = Cardinality(In(S))
  <2>1. S \in SUBSET S /\ Cardinality(S) \in Nat
    BY <1>7
  <2> QED
    BY <1>8, <2>1
<1>10. In(S) = R
  OBVIOUS
<1> QED
  BY <1>1, <1>9, <1>10

(* The day that begins with its first tick.                                *)
LEMMA DayOfTicks ==
  ASSUME NEW d \in Int
  PROVE  Day(TicksPerDay * d) = d
<1> DEFINE t == TicksPerDay * d
           k == t \div TicksPerDay
<1>1. TicksPerDay \in Nat \ {0}
  BY QueryAssumption
<1>2. t \in Int
  BY <1>1
<1> HIDE DEF t
<1>3. k \in Int /\ TicksPerDay * k <= t /\ t < TicksPerDay * k + TicksPerDay
  BY <1>1, <1>2
<1>4. k = Day(t)
  BY DEF Day
<1> HIDE DEF k
<1>5. TicksPerDay * k \in Int
  BY <1>1, <1>3
<1>6. ~(k < d)
  BY <1>2, <1>3, <1>5, DaysGrow, <1>1 DEF t
<1>7. ~(d < k)
  BY <1>2, <1>3, <1>5, DaysGrow, <1>1 DEF t
<1>8. k = d
  BY <1>3, <1>6, <1>7
<1> QED
  BY <1>4, <1>8 DEF t

(* Later instants are on later days.                                       *)
LEMMA DayGrows ==
  ASSUME NEW a \in Nat, NEW b \in Nat, a <= b
  PROVE  Day(a) <= Day(b)
<1>1. /\ Day(a) \in Nat /\ TicksPerDay * Day(a) \in Nat /\ TicksPerDay * Day(a) <= a
      /\ Day(b) \in Nat /\ TicksPerDay * Day(b) \in Nat /\ b < TicksPerDay * Day(b) + TicksPerDay
  BY DayIs
<1>2. Day(b) < Day(a) => TicksPerDay * Day(b) + TicksPerDay <= TicksPerDay * Day(a)
  BY <1>1, DaysGrow
<1>3. TicksPerDay \in Nat
  BY QueryAssumption
<1> QED
  BY <1>1, <1>2, <1>3

(* The bucket of a day.  Months are known from day 0 on.                   *)
BucketOf(d, by) == BucketStart(TicksPerDay * d, by)
Days(by) == IF by = "month" THEN Nat ELSE Int

(* A bucket starts on one of its own days, later days have later buckets,  *)
(* and the day that starts a bucket starts its own.                        *)
BucketsGrow(by) ==
  /\ \A d \in Days(by) : BucketOf(d, by) \in Days(by) /\ BucketOf(d, by) <= d
  /\ \A a, d \in Days(by) : a <= d => BucketOf(a, by) <= BucketOf(d, by)
  /\ \A d \in Days(by) : BucketOf(BucketOf(d, by), by) = BucketOf(d, by)

LEMMA WeeksGrow == BucketsGrow("week")
<1>1. FirstMonday \in Int
  BY QueryAssumption
<1> DEFINE W(d) == d - ((d - FirstMonday) % 7)
<1>2. \A d \in Int : BucketOf(d, "week") = W(d)
  BY DayOfTicks DEF BucketOf, BucketStart
<1>3. \A d \in Int : W(d) \in Int /\ W(d) <= d
  BY <1>1
<1>4. ASSUME NEW a \in Int, NEW d \in Int, a <= d PROVE W(a) <= W(d)
  <2>1. \A x \in Int : x - (x % 7) = 7 * (x \div 7)
    OBVIOUS
  <2>2. \A x, y \in Int : x <= y => x \div 7 <= y \div 7
    OBVIOUS
  <2> DEFINE x == a - FirstMonday
             y == d - FirstMonday
  <2>3. x \in Int /\ y \in Int /\ x <= y
    BY <1>1, <1>4
  <2>4. W(a) = (x - (x % 7)) + FirstMonday /\ W(d) = (y - (y % 7)) + FirstMonday
    BY <1>1
  <2> HIDE DEF x, y, W
  <2>5. W(a) = 7 * (x \div 7) + FirstMonday /\ W(d) = 7 * (y \div 7) + FirstMonday
    BY <2>1, <2>3, <2>4
  <2>6. x \div 7 <= y \div 7 /\ x \div 7 \in Int /\ y \div 7 \in Int
    BY <2>2, <2>3
  <2> QED
    BY <1>1, <2>5, <2>6
<1>5. ASSUME NEW d \in Int PROVE W(W(d)) = W(d)
  <2>1. \A x \in Int : (x - (x % 7)) % 7 = 0 /\ x - (x % 7) \in Int
    OBVIOUS
  <2>2. d - FirstMonday \in Int
    BY <1>1
  <2>3. W(d) - FirstMonday = (d - FirstMonday) - ((d - FirstMonday) % 7)
    BY <1>1
  <2>4. (W(d) - FirstMonday) % 7 = 0
    BY <2>1, <2>2, <2>3
  <2>5. W(d) \in Int
    BY <1>3
  <2>6. \A y \in Int : (y - FirstMonday) % 7 = 0 => W(y) = y
    BY <1>1
  <2> HIDE DEF W
  <2> QED
    BY <2>4, <2>5, <2>6
<1> HIDE DEF W
<1> QED
  BY <1>2, <1>3, <1>4, <1>5 DEF BucketsGrow, Days

LEMMA MonthsGrow == BucketsGrow("month")
<1>1. ASSUME NEW d \in Nat
      PROVE  /\ BucketOf(d, "month") \in MonthStarts /\ BucketOf(d, "month") \in Nat /\ BucketOf(d, "month") <= d
             /\ \A x \in MonthStarts : x <= d => x <= BucketOf(d, "month")
  <2>1. TicksPerDay * d \in Nat
    BY QueryAssumption
  <2>2. Day(TicksPerDay * d) = d
    BY DayOfTicks
  <2> QED
    BY <2>1, <2>2, MonthIs DEF BucketOf
<1>2. ASSUME NEW a \in Nat, NEW d \in Nat, a <= d PROVE BucketOf(a, "month") <= BucketOf(d, "month")
  <2>1. BucketOf(a, "month") \in MonthStarts /\ BucketOf(a, "month") \in Nat /\ BucketOf(a, "month") <= a
    BY <1>1
  <2>2. BucketOf(a, "month") <= d
    BY <1>2, <2>1
  <2> QED
    BY <1>1, <2>1, <2>2
<1>3. ASSUME NEW d \in Nat PROVE BucketOf(BucketOf(d, "month"), "month") = BucketOf(d, "month")
  <2>1. PICK b \in MonthStarts : b = BucketOf(d, "month") /\ b \in Nat
    BY <1>1
  <2>2. BucketOf(b, "month") \in Nat /\ BucketOf(b, "month") <= b /\ b <= BucketOf(b, "month")
    BY <1>1, <2>1
  <2> QED
    BY <2>1, <2>2
<1> QED
  BY <1>1, <1>2, <1>3 DEF BucketsGrow, Days

LEMMA BucketsGrowAll ==
  ASSUME NEW by \in TimeGroups
  PROVE  BucketsGrow(by)
<1>1. CASE by = "day"
  <2>1. \A d \in Int : BucketOf(d, "day") = d
    BY DayOfTicks DEF BucketOf, BucketStart
  <2> QED
    BY <1>1, <2>1 DEF BucketsGrow, Days
<1> QED
  BY <1>1, WeeksGrow, MonthsGrow DEF TimeGroups

(* The bucket of an instant is that of its day.                            *)
LEMMA BucketOfDay ==
  ASSUME NEW t \in Nat, NEW by
  PROVE  BucketStart(t, by) = BucketOf(Day(t), by)
<1>1. Day(t) \in Int
  BY DayIs
<1>2. Day(TicksPerDay * Day(t)) = Day(t)
  BY <1>1, DayOfTicks
<1> QED
  BY <1>2 DEF BucketOf, BucketStart

(* The days of a range are consecutive.                                    *)
LEMMA DaysOfRange ==
  ASSUME NEW start \in Nat, NEW last \in Nat, start <= last, NEW by
  PROVE  /\ \A t \in start .. last : \E d \in Day(start) .. Day(last) : BucketStart(t, by) = BucketOf(d, by)
         /\ \A d \in Day(start) .. Day(last) : \E t \in start .. last : BucketStart(t, by) = BucketOf(d, by)
<1>1. ASSUME NEW t \in start .. last PROVE Day(t) \in Day(start) .. Day(last) /\ BucketStart(t, by) = BucketOf(Day(t), by)
  <2>1. t \in Nat /\ start <= t /\ t <= last
    OBVIOUS
  <2>2. Day(start) <= Day(t) /\ Day(t) <= Day(last) /\ Day(t) \in Nat /\ Day(start) \in Nat /\ Day(last) \in Nat
    BY <2>1, DayGrows, DayIs
  <2> QED
    BY <2>1, <2>2, BucketOfDay
<1>2. ASSUME NEW d \in Day(start) .. Day(last) PROVE \E t \in start .. last : Day(t) = d
  <2>1. /\ Day(start) \in Nat /\ Day(last) \in Nat /\ TicksPerDay * Day(last) \in Nat
        /\ TicksPerDay * Day(last) <= last /\ TicksPerDay * Day(start) \in Nat
        /\ start < TicksPerDay * Day(start) + TicksPerDay
    BY DayIs
  <2>2. d \in Nat /\ Day(start) <= d /\ d <= Day(last)
    BY <2>1
  <2>3. CASE d = Day(start)
    BY <2>3
  <2>4. CASE Day(start) < d
    <3>1. /\ TicksPerDay * Day(start) + TicksPerDay <= TicksPerDay * d /\ TicksPerDay * d \in Int
          /\ TicksPerDay * d <= TicksPerDay * Day(last)
      BY <2>1, <2>2, <2>4, DaysGrow
    <3>2. TicksPerDay \in Nat
      BY QueryAssumption
    <3>3. TicksPerDay * d \in start .. last
      BY <2>1, <3>1, <3>2
    <3>4. Day(TicksPerDay * d) = d
      BY <2>2, DayOfTicks
    <3> QED
      BY <3>3, <3>4
  <2> QED
    BY <2>1, <2>2, <2>3, <2>4
<1> QED
  BY <1>1, <1>2

-----------------------------------------------------------------------------
(* Groups.                                                                 *)

ByKey(a, b) == a.key < b.key
ByCount(a, b) == a.count > b.count \/ (a.count = b.count /\ a.key < b.key)

(* Groups with different keys and whole counts.                            *)
Distinct(G) ==
  /\ \A x \in G : x.key \in Int /\ x.count \in Nat
  /\ \A x, y \in G : x.key = y.key => x = y

(* Both are orders.                                                        *)
LEMMA KeyOrders ==
  ASSUME NEW G, Distinct(G)
  PROVE  /\ Orders({p \in G \X G : ByKey(p[1], p[2])}, G)
         /\ Orders({p \in G \X G : ByCount(p[1], p[2])}, G)
<1> DEFINE R == {p \in G \X G : ByKey(p[1], p[2])}
           T == {p \in G \X G : ByCount(p[1], p[2])}
<1>1. \A x, y \in G : (<<x, y>> \in R <=> ByKey(x, y)) /\ (<<x, y>> \in T <=> ByCount(x, y))
  OBVIOUS
<1> HIDE DEF R, T
<1>2. /\ \A x \in G : x.key \in Int /\ x.count \in Nat
      /\ \A x, y \in G : x.key = y.key => x = y
  BY DEF Distinct
<1>3. Orders(R, G)
  BY <1>1, <1>2 DEF Orders, ByKey
<1>4. Orders(T, G)
  <2>1. \A x, y \in G : x # y => ByCount(x, y) \/ ByCount(y, x)
    BY <1>2 DEF ByCount
  <2>2. \A x \in G : ~ByCount(x, x)
    BY <1>2 DEF ByCount
  <2>3. \A x, y, z \in G : ByCount(x, y) /\ ByCount(y, z) => ByCount(x, z)
    BY <1>2 DEF ByCount
  <2> QED
    BY <1>1, <2>1, <2>2, <2>3 DEF Orders
<1> QED
  BY <1>3, <1>4 DEF R, T

(* The groups G in the order of their keys, and what that says of them.    *)
KeySorted(s, G) == s = Sorted(G, LAMBDA a, b : a.key < b.key)
KeysRise(s, G, n) ==
  /\ s \in [1 .. n -> G]
  /\ \A i, j \in 1 .. n : i < j => s[i].key < s[j].key
  /\ \A x \in G : \E i \in 1 .. n : s[i] = x

(* The groups in order.                                                    *)
LEMMA SortedByKey ==
  ASSUME NEW G, Distinct(G), IsFiniteSet(G), NEW n \in Nat, n = Cardinality(G), NEW s, KeySorted(s, G)
  PROVE  KeysRise(s, G, n)
<1> DEFINE R == {p \in G \X G : ByKey(p[1], p[2])}
<1>1. Orders(R, G)
  BY KeyOrders
<1>2. \A x, y \in G : <<x, y>> \in R <=> x.key < y.key
  BY DEF ByKey
<1> HIDE DEF R
<1>3. \E q \in [1 .. n -> G] : \A i, j \in DOMAIN q : i < j => q[i].key < q[j].key
  <2>1. PICK q \in [1 .. n -> G] : InOrder(q, R)
    BY <1>1, OrderExists
  <2>2. \A i, j \in DOMAIN q : i < j => q[i].key < q[j].key
    BY <1>2, <2>1 DEF InOrder
  <2> QED
    BY <2>2
<1>4. s \in [1 .. n -> G] /\ \A i, j \in DOMAIN s : i < j => s[i].key < s[j].key
  BY <1>3 DEF Sorted, KeySorted
<1>5. InOrder(s, R)
  BY <1>2, <1>4 DEF InOrder
<1>6. Placed(s, n, R, G)
  BY <1>1, <1>4, <1>5, PlacesInOrder
<1>7. \A x \in G : \E i \in 1 .. n : s[i] = x
  BY <1>6 DEF Placed
<1>8. \A i, j \in 1 .. n : i < j => s[i].key < s[j].key
  BY <1>4
<1> QED
  BY <1>4, <1>7, <1>8 DEF KeysRise

LEMMA SortedByCount ==
  ASSUME NEW G, Distinct(G), IsFiniteSet(G), NEW n \in Nat, n = Cardinality(G)
  PROVE  LET s == Sorted(G, LAMBDA a, b : a.count > b.count \/ (a.count = b.count /\ a.key < b.key))
         IN  /\ s \in [1 .. n -> G]
             /\ \A i, j \in 1 .. n : i < j => s[i].count >= s[j].count
             /\ \A x \in G : \E i \in 1 .. n : s[i] = x
<1> DEFINE R == {p \in G \X G : ByCount(p[1], p[2])}
           s == Sorted(G, LAMBDA a, b : a.count > b.count \/ (a.count = b.count /\ a.key < b.key))
<1>1. Orders(R, G)
  BY KeyOrders
<1>2. \A x, y \in G : <<x, y>> \in R <=> x.count > y.count \/ (x.count = y.count /\ x.key < y.key)
  BY DEF ByCount
<1> HIDE DEF R
<1>3. \E q \in [1 .. n -> G] : \A i, j \in DOMAIN q :
         i < j => q[i].count > q[j].count \/ (q[i].count = q[j].count /\ q[i].key < q[j].key)
  <2>1. PICK q \in [1 .. n -> G] : InOrder(q, R)
    BY <1>1, OrderExists
  <2>2. \A i, j \in DOMAIN q :
          i < j => q[i].count > q[j].count \/ (q[i].count = q[j].count /\ q[i].key < q[j].key)
    BY <1>2, <2>1 DEF InOrder
  <2> QED
    BY <2>2
<1>4. /\ s \in [1 .. n -> G]
      /\ \A i, j \in DOMAIN s :
           i < j => s[i].count > s[j].count \/ (s[i].count = s[j].count /\ s[i].key < s[j].key)
  BY <1>3 DEF Sorted
<1> HIDE DEF s
<1>5. InOrder(s, R)
  BY <1>2, <1>4 DEF InOrder
<1>6. Placed(s, n, R, G)
  BY <1>1, <1>4, <1>5, PlacesInOrder
<1>7. \A i, j \in 1 .. n : i < j => s[i].count >= s[j].count
  BY <1>4 DEF Distinct
<1>8. \A x \in G : \E i \in 1 .. n : s[i] = x
  BY <1>6 DEF Placed
<1> QED
  BY <1>4, <1>7, <1>8 DEF s

(* The set K of keys, each with its rows in F, has a group for every key.  *)
AreGroups(G, K, F) ==
  (\A x \in G : \E k \in K : x = Group(k, F[k])) /\ \A k \in K : Group(k, F[k]) \in G
GroupsSay(G, K, F) ==
  /\ IsFiniteSet(G) /\ Cardinality(G) = Cardinality(K) /\ Distinct(G)
  /\ \A x \in G : x.key \in K /\ x.count = Cardinality(F[x.key])
  /\ \A k \in K : \E x \in G : x.key = k

LEMMA GroupsAre ==
  ASSUME NEW K \in SUBSET Int, IsFiniteSet(K), NEW F, \A k \in K : IsFiniteSet(F[k]),
         NEW G, AreGroups(G, K, F)
  PROVE  GroupsSay(G, K, F)
<1> DEFINE f == [k \in K |-> Group(k, F[k])]
<1>1. f \in [K -> G]
  BY DEF AreGroups
<1>2. \A k \in K : f[k].key = k /\ f[k].count = Cardinality(F[k])
  BY DEF Group
<1>3. \A x \in G : \E k \in K : f[k] = x
  BY DEF AreGroups
<1> HIDE DEF f
<1>4. \A a, b \in K : f[a] = f[b] => a = b
  BY <1>2
<1>5. f \in Bijection(K, G)
  BY <1>1, <1>3, <1>4, Fun_IsBij
<1>6. IsFiniteSet(G) /\ Cardinality(G) = Cardinality(K)
  BY <1>5, FS_Bijection DEF ExistsBijection
<1>7. \A x \in G : x.key \in K /\ x.count = Cardinality(F[x.key])
  BY <1>2, <1>3
<1>8. \A k \in K : Cardinality(F[k]) \in Nat
  BY FS_CardinalityType
<1>9. \A x, y \in G : x.key = y.key => x = y
  BY <1>2, <1>3
<1>10. Distinct(G)
  BY <1>7, <1>8, <1>9 DEF Distinct
<1> QED
  BY <1>1, <1>2, <1>6, <1>7, <1>10 DEF GroupsSay

(* What the buckets of a range of time are to say.                         *)
Within(g, i, rows) ==
  {m \in rows : TicksPerDay * g[i].key <= m.at /\ (i < Len(g) => m.at < TicksPerDay * g[i + 1].key)}
Covers(g, rows, q, t, start, end) ==
  /\ g # <<>> /\ g[1].key = BucketStart(start, q.groupBy)
  /\ IF start < end THEN g[Len(g)].key = BucketStart(end - 1, q.groupBy) ELSE Len(g) = 1
  /\ \A i \in 1 .. Len(g) - 1 :
       /\ g[i].key < g[i + 1].key
       /\ \A d \in g[i].key + 1 .. g[i + 1].key - 1 : BucketStart(TicksPerDay * d, q.groupBy) = g[i].key
  /\ (\A m \in rows : q.filter.to = None => m.at < t) =>
       /\ \A i \in DOMAIN g : g[i].count = Cardinality(Within(g, i, rows))
       /\ CountOf(g) = Cardinality(rows)

(* The buckets of a range, in order.                                       *)
AreBuckets(g, rows, q, start, end) ==
  g = Sorted({Group(d, {m \in rows : BucketStart(m.at, q.groupBy) = d}) :
                d \in {BucketStart(x, q.groupBy) : x \in start .. LastIncluded(start, end)}},
             LAMBDA a, b : a.key < b.key)

(* They cover the range, and hold its rows.                                *)
LEMMA BucketsAddUp ==
  ASSUME NEW rows \in SUBSET Media(Nat), IsFiniteSet(rows), NEW q, q.groupBy \in TimeGroups, NEW t \in Nat,
         NEW start \in Nat, NEW end \in Nat, end = Or(q.filter.to, t),
         \A m \in rows : start <= m.at /\ (q.filter.to # None => m.at < end),
         NEW g, AreBuckets(g, rows, q, start, end)
  PROVE  Covers(g, rows, q, t, start, end)
<1> DEFINE by == q.groupBy
           last == LastIncluded(start, end)
           days == {BucketStart(x, by) : x \in start .. last}
           F == [d \in days |-> {m \in rows : BucketStart(m.at, by) = d}]
           G == {Group(d, {m \in rows : BucketStart(m.at, by) = d}) : d \in days}
           W(d) == BucketOf(d, by)
           lo == Day(start)
           hi == Day(last)
           n == Cardinality(days)
<1>1. last \in Nat /\ start <= last /\ (end > start => last = end - 1) /\ (~(end > start) => last = start)
  BY DEF LastIncluded
<1>2. by \in TimeGroups /\ BucketsGrow(by)
  BY BucketsGrowAll
<1>3. lo \in Nat /\ hi \in Nat /\ lo <= hi /\ TicksPerDay * hi \in Nat /\ TicksPerDay * hi <= last
  BY <1>1, DayIs, DayGrows
<1>4. (\A k \in days : \E d \in lo .. hi : k = W(d)) /\ \A d \in lo .. hi : W(d) \in days
  <2>1. /\ \A x \in start .. last : \E d \in lo .. hi : BucketStart(x, by) = W(d)
        /\ \A d \in lo .. hi : \E x \in start .. last : BucketStart(x, by) = W(d)
    BY ONLY <1>1, DaysOfRange, start \in Nat DEF W, lo, hi
  <2> HIDE DEF lo, hi, last, W
  <2> QED
    BY <2>1
<1>5. \A d \in Nat : d \in Days(by)
  BY DEF Days
<1>6. Days(by) \subseteq Int
  BY DEF Days
<1> HIDE DEF days, F, lo, hi, last, W
<1>7. /\ \A d \in Days(by) : W(d) \in Days(by) /\ W(d) <= d
      /\ \A a, d \in Days(by) : a <= d => W(a) <= W(d)
      /\ \A d \in Days(by) : W(W(d)) = W(d)
  BY <1>2 DEF BucketsGrow, W
<1>8. \A x \in lo .. hi : x \in Nat
  BY <1>3
<1>9. days \in SUBSET Int /\ \A k \in days : k \in Days(by)
  BY <1>4, <1>5, <1>6, <1>7, <1>8
<1>10. IsFiniteSet(days)
  <2> DEFINE h == [d \in lo .. hi |-> W(d)]
  <2>1. h \in Surjection(lo .. hi, days)
    BY <1>4 DEF Surjection
  <2>2. IsFiniteSet(lo .. hi)
    BY <1>3, FS_Interval
  <2> QED
    BY <2>1, <2>2, FS_Surjection
<1>11. \A d \in days : F[d] = {m \in rows : BucketStart(m.at, by) = d} /\ IsFiniteSet(F[d])
  <2>1. \A d \in days : F[d] = {m \in rows : BucketStart(m.at, by) = d} /\ F[d] \in SUBSET rows
    BY DEF F
  <2> QED
    BY <2>1, FS_Subset
<1>12. (\A x \in G : \E d \in days : x = Group(d, F[d])) /\ \A d \in days : Group(d, F[d]) \in G
  BY <1>11
<1>13. KeySorted(g, G)
  BY DEF days, last, AreBuckets, KeySorted
<1> HIDE DEF G, by
<1>14. /\ IsFiniteSet(G) /\ Cardinality(G) = n /\ Distinct(G)
       /\ \A x \in G : x.key \in days /\ x.count = Cardinality(F[x.key])
       /\ \A k \in days : \E x \in G : x.key = k
  <2>1. AreGroups(G, days, F)
    BY <1>12 DEF AreGroups
  <2>2. GroupsSay(G, days, F)
    BY <1>9, <1>10, <1>11, <2>1, GroupsAre
  <2> QED
    BY <2>2 DEF GroupsSay
<1>15. n \in Nat
  BY <1>10, FS_CardinalityType
<1> HIDE DEF n
<1>16. /\ g \in [1 .. n -> G]
       /\ \A i, j \in 1 .. n : i < j => g[i].key < g[j].key
       /\ \A x \in G : \E i \in 1 .. n : g[i] = x
  <2>1. KeysRise(g, G, n)
    BY <1>13, <1>14, <1>15, SortedByKey
  <2> QED
    BY <2>1 DEF KeysRise
<1>17. DOMAIN g = 1 .. n /\ Len(g) = n
  BY <1>15, <1>16
<1>18. \A i \in 1 .. n : g[i].key \in days /\ g[i].count = Cardinality({m \in rows : BucketStart(m.at, by) = g[i].key})
  <2> SUFFICES ASSUME NEW i \in 1 .. n
               PROVE  /\ g[i].key \in days
                      /\ g[i].count = Cardinality({m \in rows : BucketStart(m.at, by) = g[i].key})
    OBVIOUS
  <2>1. g[i] \in G
    BY <1>16
  <2>2. PICK k \in days : k = g[i].key /\ g[i].count = Cardinality(F[k])
    BY <1>14, <2>1
  <2>3. F[k] = {m \in rows : BucketStart(m.at, by) = k}
    BY <1>11
  <2> QED
    BY <2>2, <2>3
<1>19. \A k \in days : \E i \in 1 .. n : g[i].key = k
  BY <1>14, <1>16
<1>20. ASSUME \A m \in rows : q.filter.to = None => m.at < t
       PROVE  CountOf(g) = Cardinality(rows)
  <2>1. ASSUME NEW m \in rows PROVE BucketStart(m.at, by) \in days
    <3>1. m.at \in Nat
      BY MediaTypes
    <3>2. m.at < end /\ start <= m.at
      BY <1>20 DEF Or
    <3>3. m.at \in start .. last
      BY <1>1, <3>1, <3>2
    <3> QED
      BY <3>3 DEF days
  <2> DEFINE w == [m \in rows |-> CHOOSE i \in 1 .. n : g[i].key = BucketStart(m.at, by)]
  <2>2. ASSUME NEW m \in rows PROVE w[m] \in 1 .. n /\ g[w[m]].key = BucketStart(m.at, by)
    BY <1>19, <2>1
  <2>3. w \in [rows -> 1 .. n]
    BY <2>2
  <2> HIDE DEF w
  <2>4. ASSUME NEW i \in 1 .. n PROVE g[i].count = Cardinality({m \in rows : w[m] = i})
    <3>1. ASSUME NEW m \in rows PROVE w[m] = i <=> BucketStart(m.at, by) = g[i].key
      <4>1. w[m] \in 1 .. n /\ g[w[m]].key = BucketStart(m.at, by)
        BY <2>2
      <4>2. g[i].key \in Int /\ g[w[m]].key \in Int
        BY <1>9, <1>18, <4>1
      <4>3. w[m] < i \/ i < w[m] \/ w[m] = i
        BY <1>15, <4>1
      <4> QED
        BY <1>16, <4>1, <4>2, <4>3
    <3>2. {m \in rows : w[m] = i} = {m \in rows : BucketStart(m.at, by) = g[i].key}
      BY <3>1
    <3> QED
      BY <1>18, <3>2
  <2>5. \A i \in 1 .. n : g[i].count = Cardinality({m \in rows : w[m] = i})
    BY <2>4
  <2> QED
    BY ONLY <1>15, <1>17, <2>3, <2>5, IsFiniteSet(rows), CountsAddUp
<1>21. ASSUME NEW i \in 1 .. n - 1, NEW d \in g[i].key + 1 .. g[i + 1].key - 1 PROVE W(d) = g[i].key
  <2>1. i \in 1 .. n /\ i + 1 \in 1 .. n /\ i < i + 1
    BY <1>15
  <2> DEFINE a == g[i].key
             b == g[i + 1].key
  <2>2. a \in days /\ b \in days /\ a \in Int /\ b \in Int /\ a \in Days(by)
    BY <1>9, <1>18, <2>1
  <2>3. d \in Int /\ a < d /\ d < b
    BY <2>2
  <2>4. PICK x \in lo .. hi : a = W(x)
    BY <1>4, <2>2
  <2>5. PICK y \in lo .. hi : b = W(y)
    BY <1>4, <2>2
  <2>6. x \in Nat /\ y \in Nat /\ x \in Days(by) /\ y \in Days(by) /\ lo \in Days(by)
    BY <1>3, <1>5, <1>8
  <2>7. d \in Days(by)
    BY <2>2, <2>3 DEF Days
  <2>8. W(d) \in Int /\ W(d) <= d /\ a <= W(d)
    <3>1. W(a) = a
      BY <1>7, <2>4, <2>6
    <3>2. W(a) <= W(d)
      BY <1>7, <2>2, <2>3, <2>7
    <3> QED
      BY <1>6, <1>7, <2>7, <3>1, <3>2
  <2>9. CASE d < lo
    <3>1. W(d) <= W(lo) /\ W(lo) <= W(x)
      BY <1>3, <1>7, <2>3, <2>4, <2>6, <2>7, <2>9
    <3>2. W(lo) \in Int
      BY <1>6, <1>7, <2>6
    <3> QED
      BY <2>2, <2>4, <2>8, <3>1, <3>2
  <2>10. CASE lo <= d
    <3>1. W(y) <= y /\ y <= hi
      BY <1>3, <1>7, <2>6
    <3>2. d \in lo .. hi
      BY <1>3, <2>2, <2>3, <2>5, <2>6, <2>10, <3>1
    <3>3. PICK l \in 1 .. n : g[l].key = W(d)
      BY <1>4, <1>19, <3>2
    <3>4. ~(l < i)
      <4>1. l < i => g[l].key < a
        BY <1>16, <2>1
      <4> QED
        BY <2>2, <2>8, <3>3, <4>1
    <3>6. l # i + 1
      BY <2>2, <2>3, <2>8, <3>3
    <3>7. ~(i + 1 < l)
      <4>1. i + 1 < l => b < g[l].key
        BY <1>16, <2>1
      <4> QED
        BY <2>2, <2>3, <2>8, <3>3, <4>1
    <3>5. l = i
      BY <1>15, <2>1, <3>3, <3>4, <3>6, <3>7
    <3> QED
      BY <3>3, <3>5
  <2>11. lo \in Int
    BY <1>3
  <2> QED
    BY <2>3, <2>9, <2>10, <2>11
<1>22. /\ W(lo) = BucketStart(start, by) /\ W(hi) = BucketStart(last, by)
       /\ lo \in lo .. hi /\ hi \in lo .. hi
       /\ \A k \in days : W(lo) <= k /\ k <= W(hi)
  <2>1. W(lo) = BucketStart(start, by) /\ W(hi) = BucketStart(last, by)
    BY <1>1, BucketOfDay DEF W, lo, hi
  <2>2. lo \in lo .. hi /\ hi \in lo .. hi /\ lo \in Days(by) /\ hi \in Days(by)
    BY <1>3, <1>5
  <2>3. ASSUME NEW k \in days PROVE W(lo) <= k /\ k <= W(hi)
    <3>1. PICK x \in lo .. hi : k = W(x)
      BY <1>4
    <3>2. x \in Days(by) /\ lo <= x /\ x <= hi
      BY <1>3, <1>5, <1>8
    <3> QED
      BY <1>7, <2>2, <3>1, <3>2
  <2> QED
    BY <2>1, <2>2, <2>3
<1>23. n >= 1 /\ g[1].key = W(lo) /\ g[n].key = W(hi)
  <2>1. PICK i \in 1 .. n : g[i].key = W(lo)
    BY <1>4, <1>19, <1>22
  <2>2. PICK j \in 1 .. n : g[j].key = W(hi)
    BY <1>4, <1>19, <1>22
  <2>3. n >= 1 /\ 1 \in 1 .. n /\ n \in 1 .. n
    BY <1>15, <2>1
  <2>4. g[1].key \in days /\ g[n].key \in days /\ g[i].key \in days /\ g[j].key \in days
    BY <1>18, <2>1, <2>2, <2>3
  <2>5. g[1].key \in Int /\ g[n].key \in Int /\ g[i].key \in Int /\ g[j].key \in Int
    BY <1>9, <2>4
  <2>6. W(lo) <= g[1].key /\ g[n].key <= W(hi)
    BY <1>22, <2>4
  <2>7. (1 < i => g[1].key < g[i].key) /\ (j < n => g[j].key < g[n].key)
    BY <1>16, <2>1, <2>2, <2>3
  <2>8. i = 1 \/ 1 < i
    BY <1>15, <2>1
  <2>9. j = n \/ j < n
    BY <1>15, <2>2
  <2> QED
    BY <2>1, <2>2, <2>3, <2>5, <2>6, <2>7, <2>8, <2>9
<1>24. IF start < end THEN g[n].key = BucketStart(end - 1, by) ELSE n = 1
  <2>1. CASE start < end
    BY <1>1, <1>22, <1>23, <2>1
  <2>2. CASE ~(start < end)
    <3>1. last = start
      BY <1>1, <2>2
    <3>2. lo = hi
      BY <3>1 DEF lo, hi
    <3>3. ~(1 < n)
      <4>1. 1 \in 1 .. n /\ n \in 1 .. n
        BY <1>15, <1>23
      <4>3. g[1].key \in days
        BY <1>18, <4>1
      <4>4. g[1].key \in Int
        BY <1>9, <4>3
      <4>2. 1 < n => g[1].key < g[n].key
        BY <1>16, <4>1
      <4> QED
        BY <1>23, <3>2, <4>2, <4>4
    <3> QED
      BY <1>15, <1>23, <2>2, <3>3
  <2> QED
    BY <2>1, <2>2
<1>25. ASSUME \A m \in rows : q.filter.to = None => m.at < t, NEW i \in 1 .. n
       PROVE  g[i].count = Cardinality(Within(g, i, rows))
  <2>1. ASSUME NEW m \in rows PROVE BucketStart(m.at, by) = g[i].key <=> m \in Within(g, i, rows)
    <3> DEFINE d == Day(m.at)
    <3>1. m.at \in Nat /\ m.at < end /\ start <= m.at
      BY <1>25, MediaTypes DEF Or
    <3>2. m.at \in start .. last
      BY <1>1, <3>1
    <3>3. /\ d \in Nat /\ d \in Days(by) /\ TicksPerDay * d \in Nat /\ TicksPerDay * d <= m.at
          /\ m.at < TicksPerDay * d + TicksPerDay
      BY <1>5, <3>1, DayIs
    <3>4. BucketStart(m.at, by) = W(d)
      BY <3>1, BucketOfDay DEF W
    <3>5. PICK j \in 1 .. n : g[j].key = W(d)
      <4>1. W(d) \in days
        BY <3>2, <3>4 DEF days
      <4> QED
        BY <1>19, <4>1
    <3> HIDE DEF d
    <3>6. \A l \in 1 .. n : g[l].key \in Int /\ g[l].key \in Days(by) /\ W(g[l].key) = g[l].key
      <4> SUFFICES ASSUME NEW l \in 1 .. n
                   PROVE  g[l].key \in Int /\ g[l].key \in Days(by) /\ W(g[l].key) = g[l].key
        OBVIOUS
      <4>1. g[l].key \in days /\ g[l].key \in Int /\ g[l].key \in Days(by)
        BY <1>9, <1>18
      <4>2. PICK x \in lo .. hi : g[l].key = W(x)
        BY <1>4, <4>1
      <4>3. W(W(x)) = W(x)
        BY <1>5, <1>7, <1>8
      <4> QED
        BY <4>1, <4>2, <4>3
    <3>7. \A k \in Int : TicksPerDay * k <= m.at <=> k <= d
      <4> SUFFICES ASSUME NEW k \in Int PROVE TicksPerDay * k <= m.at <=> k <= d
        OBVIOUS
      <4>1. TicksPerDay \in Nat /\ TicksPerDay * k \in Int
        BY QueryAssumption
      <4>2. k <= d => TicksPerDay * k <= TicksPerDay * d
        BY <3>3, DaysGrow
      <4>3. d < k => TicksPerDay * d + TicksPerDay <= TicksPerDay * k
        BY <3>3, DaysGrow
      <4> QED
        BY <3>1, <3>3, <4>1, <4>2, <4>3
    <3>8. \A l \in 1 .. n : g[l].key <= d <=> g[l].key <= g[j].key
      <4> SUFFICES ASSUME NEW l \in 1 .. n PROVE g[l].key <= d <=> g[l].key <= g[j].key
        OBVIOUS
      <4>1. W(d) \in Int /\ W(d) <= d
        BY <1>6, <1>7, <3>3
      <4>2. g[l].key <= d => W(g[l].key) <= W(d)
        BY <1>7, <3>3, <3>6
      <4> QED
        BY <3>3, <3>5, <3>6, <4>1, <4>2
    <3>9. \A l \in 1 .. n : g[l].key <= g[j].key <=> l <= j
      <4> SUFFICES ASSUME NEW l \in 1 .. n PROVE g[l].key <= g[j].key <=> l <= j
        OBVIOUS
      <4>1. (l < j => g[l].key < g[j].key) /\ (j < l => g[j].key < g[l].key)
        BY <1>16, <3>5
      <4>2. l < j \/ j < l \/ l = j
        BY <1>15, <3>5
      <4>3. g[l].key \in Int /\ g[j].key \in Int
        BY <3>5, <3>6
      <4> QED
        BY <1>15, <3>5, <4>1, <4>2, <4>3
    <3>10. \A l \in 1 .. n : TicksPerDay * g[l].key <= m.at <=> l <= j
      BY <3>6, <3>7, <3>8, <3>9
    <3>11. i < n => i + 1 \in 1 .. n /\ (m.at < TicksPerDay * g[i + 1].key <=> ~(i + 1 <= j))
      <4> SUFFICES ASSUME i < n
                   PROVE  i + 1 \in 1 .. n /\ (m.at < TicksPerDay * g[i + 1].key <=> ~(i + 1 <= j))
        OBVIOUS
      <4>1. i + 1 \in 1 .. n
        BY <1>15
      <4>2. TicksPerDay * g[i + 1].key \in Int
        BY <3>6, <4>1, QueryAssumption
      <4> QED
        BY <3>1, <3>10, <4>1, <4>2
    <3>12. m \in Within(g, i, rows) <=> i = j
      <4>1. m \in Within(g, i, rows)
              <=> TicksPerDay * g[i].key <= m.at /\ (i < n => m.at < TicksPerDay * g[i + 1].key)
        BY <1>17 DEF Within
      <4>2. m \in Within(g, i, rows) <=> i <= j /\ (i < n => ~(i + 1 <= j))
        BY <3>10, <3>11, <4>1
      <4> QED
        BY <1>15, <3>5, <4>2
    <3>13. W(d) = g[i].key <=> i = j
      <4>1. (i < j => g[i].key < g[j].key) /\ (j < i => g[j].key < g[i].key)
        BY <1>16, <3>5
      <4>2. i < j \/ j < i \/ i = j
        BY <1>15, <3>5
      <4>3. g[i].key \in Int /\ g[j].key \in Int
        BY <3>5, <3>6
      <4> QED
        BY <3>5, <4>1, <4>2, <4>3
    <3> QED
      BY <3>4, <3>12, <3>13
  <2>2. Within(g, i, rows) \subseteq rows
    BY DEF Within
  <2>3. {m \in rows : BucketStart(m.at, by) = g[i].key} = Within(g, i, rows)
    BY <2>1, <2>2
  <2> QED
    BY <1>18, <2>3
<1>26. \A i \in 1 .. Len(g) - 1 :
         /\ g[i].key < g[i + 1].key
         /\ \A d \in g[i].key + 1 .. g[i + 1].key - 1 : BucketStart(TicksPerDay * d, q.groupBy) = g[i].key
  <2> SUFFICES ASSUME NEW i \in 1 .. n - 1
               PROVE  /\ g[i].key < g[i + 1].key
                      /\ \A d \in g[i].key + 1 .. g[i + 1].key - 1 :
                           BucketStart(TicksPerDay * d, q.groupBy) = g[i].key
    BY <1>17
  <2>1. i \in 1 .. n /\ i + 1 \in 1 .. n /\ i < i + 1
    BY <1>15
  <2> QED
    BY <1>16, <1>21, <2>1 DEF W, BucketOf, by
<1>27. g # <<>>
  BY <1>17, <1>23
<1>28. \A i \in DOMAIN g : (\A m \in rows : q.filter.to = None => m.at < t) => g[i].count = Cardinality(Within(g, i, rows))
  BY <1>17, <1>25
<1>29. g[1].key = BucketStart(start, q.groupBy)
  BY <1>22, <1>23 DEF by
<1>30. IF start < end THEN g[Len(g)].key = BucketStart(end - 1, q.groupBy) ELSE Len(g) = 1
  BY <1>17, <1>24 DEF by
<1> QED
  BY <1>20, <1>26, <1>27, <1>28, <1>29, <1>30 DEF Covers

(* The buckets of a query say what they are to say.                        *)
LEMMA TimeBucketsOk ==
  ASSUME NEW rows \in SUBSET Media(Nat), IsFiniteSet(rows), NEW q, q.groupBy \in TimeGroups, NEW t \in Nat,
         q.filter.from \in Nat \cup {None}, q.filter.to \in Nat \cup {None},
         \A m \in rows : (q.filter.from # None => m.at >= q.filter.from) /\ (q.filter.to # None => m.at < q.filter.to)
  PROVE  Buckets(TimeBuckets(rows, q, t), rows, q, t)
<1> DEFINE g == TimeBuckets(rows, q, t)
           start == RangeStart(rows, q)
           end == Or(q.filter.to, t)
<1>1. None \notin Int
  BY QueryAssumption
<1>2. \A m \in rows : m.at \in Nat
  BY MediaTypes
<1>3. rows # {} => Min({m.at : m \in rows}) \in Nat /\ \A row \in rows : Min({m.at : m \in rows}) <= row.at
  <2> DEFINE T == {m.at : m \in rows}
  <2>1. T \in SUBSET Nat /\ (rows # {} => T # {}) /\ \A m \in rows : m.at \in T
    BY <1>2
  <2> HIDE DEF T
  <2>2. rows # {} => Min(T) \in T /\ \A x \in T : Min(T) <= x
    BY <2>1, MinIs
  <2>3. rows # {} => Min(T) \in Nat /\ \A m \in rows : Min(T) <= m.at
    BY <2>1, <2>2
  <2> QED
    BY <2>3 DEF T
<1>4. end \in Nat /\ (q.filter.to # None => end = q.filter.to)
  BY DEF Or
<1>5. CASE rows = {} /\ q.filter.from = None
  <2>1. BucketDays(rows, q, t) = {}
    BY <1>5 DEF BucketDays, RangeStart
  <2> DEFINE G == {Group(d, {m \in rows : BucketStart(m.at, q.groupBy) = d}) : d \in BucketDays(rows, q, t)}
  <2>2. KeySorted(g, G)
    BY DEF TimeBuckets, KeySorted
  <2>3. G = {}
    BY <2>1
  <2> HIDE DEF G, g
  <2>4. Distinct(G) /\ IsFiniteSet(G) /\ Cardinality(G) = 0
    BY <2>3, FS_EmptySet DEF Distinct
  <2>5. KeysRise(g, G, 0)
    BY <2>2, <2>4, SortedByKey
  <2>6. g = <<>>
    BY <2>5 DEF KeysRise
  <2> QED
    BY <1>5, <2>6 DEF Buckets, g
<1>6. CASE ~(rows = {} /\ q.filter.from = None)
  <2>1. /\ start = IF q.filter.from # None THEN q.filter.from ELSE Min({m.at : m \in rows})
        /\ start \in Nat /\ start # None /\ \A m \in rows : start <= m.at
    BY <1>1, <1>2, <1>3, <1>6 DEF RangeStart
  <2>2. AreBuckets(g, rows, q, start, end)
    BY <2>1 DEF TimeBuckets, BucketDays, AreBuckets
  <2> HIDE DEF g, start
  <2>3. \A m \in rows : start <= m.at /\ (q.filter.to # None => m.at < end)
    BY <1>4, <2>1
  <2>4. end = Or(q.filter.to, t)
    OBVIOUS
  <2> HIDE DEF end
  <2>5. Covers(g, rows, q, t, start, end)
    BY <1>4, <2>1, <2>2, <2>3, <2>4, BucketsAddUp
  <2> QED
    BY <1>6, <2>1, <2>4, <2>5 DEF Covers, Buckets, Within, CountOf, g
<1> QED
  BY <1>5, <1>6

(* Too many buckets come from a range that is too long.                    *)
LEMMA TooManyIsTooLong ==
  ASSUME asked.kind = "stats", TooManyBuckets(library, asked.query, asked.at), asked.at \in Int,
         asked.query.filter.from \in Int \cup {None}, asked.query.filter.to \in Int \cup {None},
         LibrarySound
  PROVE  TooLong
<1> DEFINE q == asked.query
           by == q.groupBy
           rows == LoadRows(library, q.filter)
           start == IF q.filter.from # None THEN q.filter.from ELSE Min({m.at : m \in rows})
           end == Or(q.filter.to, asked.at)
           last == LastIncluded(start, end)
           days == {BucketStart(x, by) : x \in start .. last}
           spanned == {BucketStart(TicksPerDay * d, by) : d \in Day(start) .. Day(last)}
<1>1. by \in TimeGroups /\ Cardinality(BucketDays(rows, q, asked.at)) > MaxTimeBuckets
  BY DEF TooManyBuckets
<1>2. None \notin Int /\ MaxTimeBuckets \in Nat /\ TicksPerDay \in Nat \ {0}
  BY QueryAssumption
<1>3. q.filter.from # None \/ rows # {}
  <2> SUFFICES ASSUME q.filter.from = None, rows = {} PROVE FALSE
    OBVIOUS
  <2>1. BucketDays(rows, q, asked.at) = {}
    BY DEF BucketDays, RangeStart
  <2> HIDE DEF rows
  <2> QED
    BY <1>1, <1>2, <2>1, FS_EmptySet
<1>4. start \in Int /\ end \in Int
  <2>1. rows \in SUBSET Media(Nat)
    BY DEF LoadRows, LibrarySound
  <2> HIDE DEF rows
  <2>2. rows # {} => Min({m.at : m \in rows}) \in Nat
    <3> DEFINE T == {m.at : m \in rows}
    <3>1. T \in SUBSET Nat /\ (rows # {} => T # {})
      BY <2>1, MediaTypes
    <3> HIDE DEF T
    <3>2. rows # {} => Min(T) \in T
      BY <3>1, MinIs
    <3> QED
      BY <3>1, <3>2 DEF T
  <2>3. start \in Int
    BY <1>3, <2>2
  <2> HIDE DEF start
  <2> QED
    BY <2>3 DEF Or
<1>5. BucketDays(rows, q, asked.at) = days
  <2>1. RangeStart(rows, q) = start
    BY <1>3 DEF RangeStart
  <2>2. start # None
    BY <1>2, <1>4
  <2> HIDE DEF start, rows
  <2> QED
    BY <2>1, <2>2 DEF BucketDays
<1> HIDE DEF start, end, rows
<1>6. last \in Int /\ start <= last /\ last = Max({start, end - 1})
  <2>1. last \in Int /\ start <= last /\ end - 1 <= last /\ last \in {start, end - 1}
    BY <1>4 DEF LastIncluded
  <2> HIDE DEF last
  <2>2. \A x \in {start, end - 1} : last >= x
    BY <1>4, <2>1
  <2>3. \A y \in {start, end - 1} : (\A x \in {start, end - 1} : y >= x) => y = last
    BY <1>4, <2>1
  <2>4. Max({start, end - 1}) = last
    BY <2>1, <2>2, <2>3 DEF Max
  <2> QED
    BY <2>1, <2>4
<1> HIDE DEF last
<1>7. ASSUME NEW x \in start .. last PROVE BucketStart(x, by) \in spanned
  <2>1. x \in Int /\ start <= x /\ x <= last
    BY <1>4, <1>6
  <2>2. \A a, b \in Int : a <= b => a \div TicksPerDay <= b \div TicksPerDay
    <3> SUFFICES ASSUME NEW a \in Int, NEW b \in Int, a <= b PROVE a \div TicksPerDay <= b \div TicksPerDay
      OBVIOUS
    <3> DEFINE i == a \div TicksPerDay
               j == b \div TicksPerDay
    <3>1. i \in Int /\ TicksPerDay * i <= a /\ j \in Int /\ b < TicksPerDay * j + TicksPerDay
      BY <1>2
    <3> HIDE DEF i, j
    <3>2. j < i => TicksPerDay * j + TicksPerDay <= TicksPerDay * i
      BY <3>1, DaysGrow
    <3>3. TicksPerDay * i \in Int /\ TicksPerDay * j \in Int /\ TicksPerDay \in Int
      BY <1>2, <3>1
    <3>4. i <= j
      BY <3>1, <3>2, <3>3
    <3> QED
      BY <3>4 DEF i, j
  <2>3. Day(start) <= Day(x) /\ Day(x) <= Day(last) /\ Day(x) \in Int /\ Day(start) \in Int /\ Day(last) \in Int
    BY <1>2, <1>4, <1>6, <2>1, <2>2 DEF Day
  <2>4. Day(TicksPerDay * Day(x)) = Day(x)
    BY <2>3, DayOfTicks
  <2>5. BucketStart(TicksPerDay * Day(x), by) = BucketStart(x, by)
    BY <2>4 DEF BucketStart
  <2> QED
    BY <2>3, <2>5
<1>8. days \subseteq spanned
  BY <1>7
<1>9. IsFiniteSet(spanned)
  <2> DEFINE D == Day(start) .. Day(last)
             h == [d \in D |-> BucketStart(TicksPerDay * d, by)]
  <2>1. h \in Surjection(D, spanned)
    BY DEF Surjection
  <2>2. Day(start) \in Int /\ Day(last) \in Int
    BY <1>2, <1>4, <1>6 DEF Day
  <2>3. IsFiniteSet(D)
    BY <2>2, FS_Interval
  <2> QED
    BY <2>1, <2>3, FS_Surjection
<1> HIDE DEF days, spanned
<1>10. /\ Cardinality(days) \in Nat /\ Cardinality(spanned) \in Nat
       /\ Cardinality(days) <= Cardinality(spanned)
  BY <1>8, <1>9, FS_Subset, FS_CardinalityType
<1>11. Cardinality(spanned) > MaxTimeBuckets
  BY <1>1, <1>2, <1>5, <1>10
<1> QED
  BY <1>1, <1>3, <1>6, <1>11 DEF TooLong, spanned, start, end, rows

-----------------------------------------------------------------------------
(* Groups by tag or by content type.                                       *)

KeysOf(m, by) == {Lower[n] : n \in IF by = "tag" THEN m.tags ELSE {m.type}}
Keys(rows, by) == UNION {KeysOf(m, by) : m \in rows}
RowsOf(k, rows, by) == {m \in rows : k \in KeysOf(m, by)}

(* A list g of groups, the first of those in order of their sizes.         *)
KeyedSay(g, n, rows, by) ==
  /\ n \in Nat /\ Len(g) = n /\ \E S : g \in Seq(S)
  /\ \A i \in 1 .. n : g[i].key \in Keys(rows, by) /\ g[i].count = Cardinality(RowsOf(g[i].key, rows, by))
  /\ \A i, j \in 1 .. n : i < j => g[i].count >= g[j].count
  /\ \A k \in Keys(rows, by) : \E i \in 1 .. n : g[i].key = k

(* The rows have finitely many keys.                                       *)
LEMMA KeysAreFinite ==
  ASSUME NEW rows \in SUBSET Media(Nat), IsFiniteSet(rows), \A m \in rows : IsFiniteSet(m.tags), NEW by
  PROVE  Keys(rows, by) \in SUBSET Int /\ IsFiniteSet(Keys(rows, by))
<1>1. ASSUME NEW m \in rows PROVE KeysOf(m, by) \in SUBSET Int /\ IsFiniteSet(KeysOf(m, by))
  <2> DEFINE T == IF by = "tag" THEN m.tags ELSE {m.type}
             f == [n \in T |-> Lower[n]]
  <2>1. m.tags \in SUBSET Names /\ m.type \in Names
    BY MediaTypes, QueryAssumption
  <2>2. T \in SUBSET Names /\ IsFiniteSet(T)
    BY <2>1, FS_Singleton
  <2>3. f \in Surjection(T, KeysOf(m, by))
    BY DEF Surjection, KeysOf
  <2>4. \A n \in Names : Lower[n] \in Int
    <3>1. \A n \in Names : Lower[n] \in Names
      BY QueryAssumption
    <3>2. \A n \in Names : n \in Int
      BY QueryAssumption
    <3> QED
      BY <3>1, <3>2
  <2>5. KeysOf(m, by) \in SUBSET Int
    BY <2>2, <2>4 DEF KeysOf
  <2> QED
    BY <2>2, <2>3, <2>5, FS_Surjection
<1> DEFINE S == {KeysOf(m, by) : m \in rows}
           h == [m \in rows |-> KeysOf(m, by)]
<1>2. h \in Surjection(rows, S)
  BY DEF Surjection
<1>3. IsFiniteSet(S)
  BY <1>2, FS_Surjection
<1>4. \A T \in S : IsFiniteSet(T) /\ T \in SUBSET Int
  BY <1>1
<1>5. Keys(rows, by) = UNION S
  BY DEF Keys
<1> HIDE DEF S
<1> QED
  BY <1>3, <1>4, <1>5, FS_UNION

(* Grouping by key gives such a list, one group a key.                     *)
LEMMA GroupByKeyIs ==
  ASSUME NEW rows \in SUBSET Media(Nat), IsFiniteSet(rows), \A m \in rows : IsFiniteSet(m.tags), NEW by
  PROVE  KeyedSay(GroupByKey(rows, [m \in rows |-> IF by = "tag" THEN m.tags ELSE {m.type}]),
                  Cardinality(Keys(rows, by)), rows, by)
<1> DEFINE keys == [m \in rows |-> IF by = "tag" THEN m.tags ELSE {m.type}]
           G == {Group(k, {m \in rows : \E n \in keys[m] : Lower[n] = k}) :
                   k \in {Lower[n] : n \in UNION {keys[m] : m \in rows}}}
           K == Keys(rows, by)
           F == [k \in K |-> RowsOf(k, rows, by)]
           many == Cardinality(K)
           g == Sorted(G, LAMBDA a, b : a.count > b.count \/ (a.count = b.count /\ a.key < b.key))
<1>1. GroupByKey(rows, keys) = g
  BY DEF GroupByKey
<1>2. K \in SUBSET Int /\ IsFiniteSet(K)
  BY KeysAreFinite
<1>3. \A k : k \in {Lower[n] : n \in UNION {keys[m] : m \in rows}} <=> k \in K
  BY DEF Keys, KeysOf
<1>4. \A k : {m \in rows : \E n \in keys[m] : Lower[n] = k} = RowsOf(k, rows, by)
  BY DEF RowsOf, KeysOf
<1>5. (\A x \in G : \E k \in K : x = Group(k, RowsOf(k, rows, by))) /\ \A k \in K : Group(k, RowsOf(k, rows, by)) \in G
  BY <1>3, <1>4
<1>6. \A k \in K : F[k] = RowsOf(k, rows, by) /\ IsFiniteSet(F[k])
  <2>1. \A k \in K : F[k] = RowsOf(k, rows, by) /\ F[k] \in SUBSET rows
    BY DEF RowsOf
  <2> HIDE DEF F
  <2> QED
    BY <2>1, FS_Subset
<1> HIDE DEF G, K, F, keys, g
<1>7. AreGroups(G, K, F)
  BY <1>5, <1>6 DEF AreGroups
<1>8. GroupsSay(G, K, F)
  BY <1>2, <1>6, <1>7, GroupsAre
<1>9. /\ IsFiniteSet(G) /\ Cardinality(G) = many /\ Distinct(G) /\ many \in Nat
      /\ \A x \in G : x.key \in K /\ x.count = Cardinality(F[x.key])
      /\ \A k \in K : \E x \in G : x.key = k
  BY <1>2, <1>8, FS_CardinalityType DEF GroupsSay
<1> HIDE DEF many
<1>10. /\ g \in [1 .. many -> G]
       /\ \A i, j \in 1 .. many : i < j => g[i].count >= g[j].count
       /\ \A x \in G : \E i \in 1 .. many : g[i] = x
  BY <1>9, SortedByCount DEF g
<1>11. \A i \in 1 .. many : g[i].key \in K /\ g[i].count = Cardinality(RowsOf(g[i].key, rows, by))
  BY <1>6, <1>9, <1>10
<1>12. \A k \in K : \E i \in 1 .. many : g[i].key = k
  BY <1>9, <1>10
<1>13. g \in Seq(G) /\ Len(g) = many
  BY <1>9, <1>10
<1>14. KeyedSay(g, many, rows, by)
  BY <1>9, <1>10, <1>11, <1>12, <1>13 DEF KeyedSay, K
<1> QED
  BY <1>1, <1>14 DEF many, K, keys

(* A prefix of a sequence.                                                 *)
PrefixIs(g, s, l) == l \in 0 .. Len(s) /\ DOMAIN g = 1 .. l /\ Len(g) = l /\ \A i \in 1 .. l : g[i] = s[i]

LEMMA SubSeqIsPrefix ==
  ASSUME NEW S, NEW s \in Seq(S), NEW l \in 0 .. Len(s)
  PROVE  SubSeq(s, 1, l) \in Seq(S) /\ PrefixIs(SubSeq(s, 1, l), s, l)
BY DEF PrefixIs

LEMMA PrefixOfPrefix ==
  ASSUME NEW s, NEW a, NEW b, NEW n, NEW k, Len(s) \in Nat, PrefixIs(a, s, n), PrefixIs(b, a, k)
  PROVE  PrefixIs(b, s, k) /\ k <= n
BY DEF PrefixIs

(* The top groups are a prefix, and truncated if it is not all.            *)
LEMMA ApplyTopIs ==
  ASSUME NEW S, NEW s \in Seq(S), NEW top \in Nat
  PROVE  \E l \in 0 .. Len(s) : /\ ApplyTop(s, top).groups \in Seq(S) /\ PrefixIs(ApplyTop(s, top).groups, s, l)
                                /\ ApplyTop(s, top).truncated = (l < Len(s))
<1> DEFINE l == Min({Len(s), top})
<1>1. Len(s) \in Nat
  OBVIOUS
<1>2. l \in {Len(s), top} /\ l <= Len(s) /\ l <= top
  <2>1. {Len(s), top} \in SUBSET Nat
    BY <1>1
  <2> QED
    BY <2>1, MinIs
<1>3. ApplyTop(s, top).groups = SubSeq(s, 1, l) /\ ApplyTop(s, top).truncated = (Len(s) > top)
  BY DEF ApplyTop
<1> HIDE DEF l
<1>4. l \in 0 .. Len(s) /\ (Len(s) > top <=> l < Len(s))
  BY <1>1, <1>2
<1> QED
  BY <1>3, <1>4, SubSeqIsPrefix

(* Groups by key that are handed on in part say the same.                  *)
LEMMA KeyedAddUp ==
  ASSUME NEW s, NEW n, NEW rows, NEW by, KeyedSay(s, n, rows, by), NEW g, NEW l, PrefixIs(g, s, l)
  PROVE  /\ \A i \in DOMAIN g : g[i].key \in Keys(rows, by) /\ g[i].count = Cardinality(RowsOf(g[i].key, rows, by))
         /\ \A k \in Keys(rows, by) \ {g[i].key : i \in DOMAIN g} :
              \A i \in DOMAIN g : g[i].count >= Cardinality(RowsOf(k, rows, by))
         /\ l < n <=> Len(g) < n
<1>1. /\ n \in Nat /\ Len(s) = n
      /\ \A i \in 1 .. n : s[i].key \in Keys(rows, by) /\ s[i].count = Cardinality(RowsOf(s[i].key, rows, by))
      /\ \A i, j \in 1 .. n : i < j => s[i].count >= s[j].count
      /\ \A k \in Keys(rows, by) : \E i \in 1 .. n : s[i].key = k
  BY DEF KeyedSay
<1>2. l \in 0 .. n /\ DOMAIN g = 1 .. l /\ Len(g) = l /\ \A i \in 1 .. l : g[i] = s[i]
  BY <1>1 DEF PrefixIs
<1>3. \A i \in 1 .. l : i \in 1 .. n
  BY <1>1, <1>2
<1>4. ASSUME NEW k \in Keys(rows, by) \ {g[i].key : i \in DOMAIN g}, NEW i \in DOMAIN g
      PROVE  g[i].count >= Cardinality(RowsOf(k, rows, by))
  <2>1. PICK j \in 1 .. n : s[j].key = k
    BY <1>1
  <2>2. j \notin 1 .. l
    BY <1>2, <2>1
  <2>3. i < j
    BY <1>1, <1>2, <2>2
  <2>4. s[i].count >= s[j].count /\ s[j].count = Cardinality(RowsOf(k, rows, by)) /\ g[i] = s[i]
    BY <1>1, <1>2, <1>3, <2>1, <2>3
  <2> QED
    BY <2>4
<1> QED
  BY <1>1, <1>2, <1>3, <1>4

(* Parsed statistics.                                                      *)
LEMMA ParsedStatsIs ==
  ASSUME NEW p, p.filter \in Parameters(Int), p.top \in Int \cup {None}, ParseStats(p).errors = {}
  PROVE  LET q == ParseStats(p).query
         IN  /\ q.filter = Filter(p.filter).query /\ Filter(p.filter).errors = {}
             /\ q.groupBy \in Groupings /\ q.top \in Nat
<1> DEFINE q == ParseStats(p).query
<1>1. /\ q.filter = Filter(p.filter).query /\ q.top = Or(p.top, DefaultSize)
      /\ ParseStats(p).errors = Filter(p.filter).errors \cup When(q.groupBy \notin Groupings, "groupBy")
                                 \cup When(q.top \notin 1 .. MaxTop, "top")
  BY DEF ParseStats
<1>2. MaxTop \in Nat
  BY QueryAssumption
<1> HIDE DEF q
<1>3. q.groupBy \in Groupings /\ q.top \in 1 .. MaxTop
  BY <1>1 DEF When
<1>4. Filter(p.filter).errors = {}
  BY <1>1
<1>5. q.top \in Nat
  BY <1>2, <1>3
<1> QED
  BY <1>1, <1>3, <1>4, <1>5 DEF q

(* The statistics of the API.                                              *)
KeyedBy(rows, q) == GroupByKey(rows, [m \in rows |-> IF q.groupBy = "tag" THEN m.tags ELSE {m.type}])

LEMMA StatsIs ==
  ASSUME NEW lib, NEW q, NEW t, ~TooManyBuckets(lib, q, t)
  PROVE  LET rows == LoadRows(lib, q.filter)
             r == Stats(lib, q, t)
         IN  /\ r.totals = Totals(rows) /\ "errors" \notin DOMAIN r
             /\ q.groupBy \in {"tag", "contentType"} =>
                  /\ r.groups = ApplyTop(KeyedBy(rows, q), q.top).groups
                  /\ r.truncated = ApplyTop(KeyedBy(rows, q), q.top).truncated
             /\ q.groupBy \in TimeGroups => r.groups = TimeBuckets(rows, q, t)
<1> DEFINE rows == LoadRows(lib, q.filter)
           r == Stats(lib, q, t)
           top == ApplyTop(KeyedBy(rows, q), q.top)
           groups == CASE q.groupBy = "none" -> [groups |-> <<>>, truncated |-> FALSE]
                       [] q.groupBy \in {"tag", "contentType"} -> top
                       [] OTHER -> [groups |-> TimeBuckets(rows, q, t), truncated |-> FALSE]
<1>1. r = [totals |-> Totals(rows), groups |-> groups.groups, truncated |-> groups.truncated]
  BY DEF Stats, KeyedBy, TooManyBuckets
<1> HIDE DEF r, rows, top
<1>2. q.groupBy \in {"tag", "contentType"} => groups = top
  OBVIOUS
<1>3. q.groupBy \in TimeGroups => groups = [groups |-> TimeBuckets(rows, q, t), truncated |-> FALSE]
  BY DEF TimeGroups
<1> HIDE DEF groups
<1>4. r.totals = Totals(rows) /\ r.groups = groups.groups /\ r.truncated = groups.truncated /\ "errors" \notin DOMAIN r
  BY <1>1
<1> QED
  BY <1>2, <1>3, <1>4 DEF r, rows, top

(* An answer that is none of a refusal is one of few enough buckets.       *)
LEMMA AnswersAreFew ==
  ASSUME asked.kind = "stats", "errors" \notin DOMAIN AnswerTo(asked)
  PROVE  ~TooManyBuckets(library, asked.query, asked.at)
<1> DEFINE r == Stats(library, asked.query, asked.at)
<1>1. ~("errors" \in DOMAIN r)
  BY DEF AnswerTo
<1>2. TooManyBuckets(library, asked.query, asked.at) => r = [errors |-> {"groupBy"}]
  BY DEF Stats, TooManyBuckets
<1> HIDE DEF r
<1> QED
  BY <1>1, <1>2

(* The total counts the rows.                                              *)
LEMMA TotalsCount ==
  ASSUME NEW rows
  PROVE  Totals(rows).count = Cardinality(rows)
<1>1. CASE rows = {}
  BY <1>1, FS_EmptySet DEF Totals
<1>2. CASE rows # {}
  <2>1. \E a, b, c, d : Totals(rows) = [count |-> Cardinality(rows), bytes |-> a, average |-> b, untagged |-> c,
                                         largest |-> d]
    BY <1>2 DEF Totals
  <2> QED
    BY <2>1
<1> QED
  BY <1>1, <1>2

(* What is handed on of the groups by key is a prefix of them.             *)
LEMMA RepliesPrefix ==
  ASSUME asked.kind = "stats", reply = AnswerTo(asked), NEW S, NEW s \in Seq(S), asked.query.top \in Nat,
         "errors" \notin DOMAIN Stats(library, asked.query, asked.at),
         Stats(library, asked.query, asked.at).groups = ApplyTop(s, asked.query.top).groups,
         Stats(library, asked.query, asked.at).truncated = ApplyTop(s, asked.query.top).truncated
  PROVE  \E l \in 0 .. Len(s) : PrefixIs(reply.groups, s, l) /\ (reply.truncated <=> l < Len(s))
<1> DEFINE r == Stats(library, asked.query, asked.at)
           f == FitList(r.groups)
<1>1. PICK l \in 0 .. Len(s) : r.groups \in Seq(S) /\ PrefixIs(r.groups, s, l) /\ r.truncated = (l < Len(s))
  <2> DEFINE top == asked.query.top
             first == ApplyTop(s, top)
  <2>1. top \in Nat /\ r.groups = first.groups /\ r.truncated = first.truncated
    OBVIOUS
  <2>2. PICK l \in 0 .. Len(s) : first.groups \in Seq(S) /\ PrefixIs(first.groups, s, l) /\ first.truncated = (l < Len(s))
    BY <2>1, ApplyTopIs
  <2> HIDE DEF r, first
  <2> QED
    BY <2>1, <2>2
<1>2. reply = IF asked.call = None THEN r
              ELSE [totals |-> r.totals, groups |-> f.items, truncated |-> r.truncated \/ f.truncated]
  BY DEF AnswerTo
<1> HIDE DEF r
<1>3. CASE asked.call = None
  <2>1. reply = r
    BY <1>2, <1>3
  <2> QED
    BY <1>1, <2>1
<1>4. CASE asked.call # None
  <2>1. PICK k \in 0 .. Len(r.groups) : f = [items |-> SubSeq(r.groups, 1, k), truncated |-> k < Len(r.groups)]
    BY <1>1, FitListIs
  <2>2. f.items = SubSeq(r.groups, 1, k) /\ f.truncated = (k < Len(r.groups))
    BY <2>1
  <2> HIDE DEF f
  <2>3. reply.groups = f.items /\ (reply.truncated <=> r.truncated \/ f.truncated)
    <3>1. reply = [totals |-> r.totals, groups |-> f.items, truncated |-> r.truncated \/ f.truncated]
      BY <1>2, <1>4
    <3>2. reply.truncated = (r.truncated \/ f.truncated)
      BY <3>1
    <3>3. reply.groups = f.items
      BY <3>1
    <3> QED
      BY <3>2, <3>3
  <2>4. PrefixIs(reply.groups, r.groups, k)
    BY <1>1, <2>2, <2>3, SubSeqIsPrefix
  <2>5. PrefixIs(reply.groups, s, k) /\ k <= l
    <3>1. Len(s) \in Nat
      OBVIOUS
    <3> QED
      BY <1>1, <2>4, <3>1, PrefixOfPrefix
  <2>6. Len(r.groups) = l /\ Len(s) \in Nat
    BY <1>1 DEF PrefixIs
  <2>7. reply.truncated <=> l < Len(s) \/ k < l
    BY <1>1, <2>2, <2>3, <2>6
  <2>8. k \in 0 .. Len(s)
    BY <2>5 DEF PrefixIs
  <2>9. reply.truncated <=> k < Len(s)
    BY <2>5, <2>6, <2>7, <2>8
  <2> QED
    BY <2>5, <2>8, <2>9
<1> QED
  BY <1>3, <1>4

(* Statistics that are answered add up.                                    *)
LEMMA StatsSay ==
  ASSUME LibrarySound, asked.kind = "stats", asked.p.filter \in Parameters(Int),
         asked.call = None => asked.p.filter \in Parameters(Nat), asked.p.top \in Int \cup {None}, asked.at \in Nat,
         ParseStats(asked.p).errors = {}, asked.query = ParseStats(asked.p).query, reply = AnswerTo(asked),
         "errors" \notin DOMAIN reply
  PROVE  StatsAddUp
<1> DEFINE p == asked.p.filter
           q == asked.query
           rows == LoadRows(library, q.filter)
           by == q.groupBy
           g == reply.groups
           r == Stats(library, q, asked.at)
           n == Cardinality(Keys(rows, by))
<1>0. ~TooManyBuckets(library, q, asked.at)
  BY AnswersAreFew
<1>1. /\ q.filter = Filter(p).query /\ Filter(p).errors = {} /\ by \in Groupings /\ q.top \in Nat
  BY ParsedStatsIs
<1>2. q.filter.from = p.from /\ q.filter.to = p.to /\ p.from # Bad /\ p.to # Bad
  BY <1>1, FilterIs
<1>3. /\ rows \in SUBSET Media(Nat) /\ IsFiniteSet(rows) /\ \A m \in rows : IsFiniteSet(m.tags)
      /\ \A m \in rows : (q.filter.from # None => m.at >= q.filter.from) /\ (q.filter.to # None => m.at < q.filter.to)
  <2>1. /\ rows \in SUBSET library
        /\ \A m \in rows : (q.filter.from # None => m.at >= q.filter.from) /\ (q.filter.to # None => m.at < q.filter.to)
    BY DEF LoadRows
  <2> QED
    BY <2>1, FS_Subset DEF LibrarySound
<1>4. r.totals.count = Cardinality(rows) /\ "errors" \notin DOMAIN r
  BY <1>0, StatsIs, TotalsCount
<1>5. ASSUME by \in {"tag", "contentType"}
      PROVE  /\ \A i \in DOMAIN g : g[i].key \in Keys(rows, by) /\ g[i].count = Cardinality(RowsOf(g[i].key, rows, by))
             /\ \A k \in Keys(rows, by) \ {g[i].key : i \in DOMAIN g} :
                  \A i \in DOMAIN g : g[i].count >= Cardinality(RowsOf(k, rows, by))
             /\ reply.truncated <=> Len(g) < n
  <2> DEFINE s == KeyedBy(rows, q)
  <2>1. KeyedSay(s, n, rows, by)
    BY <1>3, GroupByKeyIs DEF KeyedBy
  <2>2. r.groups = ApplyTop(s, q.top).groups /\ r.truncated = ApplyTop(s, q.top).truncated
    BY <1>0, <1>5, StatsIs
  <2> HIDE DEF s
  <2>3. PICK S : s \in Seq(S) /\ Len(s) = n /\ n \in Nat
    BY <2>1 DEF KeyedSay
  <2>4. PICK l \in 0 .. Len(s) : PrefixIs(g, s, l) /\ (reply.truncated <=> l < Len(s))
    BY <1>1, <1>4, <2>2, <2>3, RepliesPrefix
  <2>5. /\ \A i \in DOMAIN g : g[i].key \in Keys(rows, by) /\ g[i].count = Cardinality(RowsOf(g[i].key, rows, by))
        /\ \A k \in Keys(rows, by) \ {g[i].key : i \in DOMAIN g} :
             \A i \in DOMAIN g : g[i].count >= Cardinality(RowsOf(k, rows, by))
        /\ l < n <=> Len(g) < n
    BY <2>1, <2>4, KeyedAddUp
  <2> QED
    BY <2>3, <2>4, <2>5
<1>6. ASSUME by \in TimeGroups, asked.call = None
      PROVE  reply.totals.count = Cardinality(rows) /\ Buckets(g, rows, q, asked.at)
  <2>1. p.from \in Nat \cup {None} /\ p.to \in Nat \cup {None}
    BY <1>2, <1>6 DEF Parameters
  <2>2. reply = r
    BY <1>6 DEF AnswerTo
  <2>3. g = TimeBuckets(rows, q, asked.at)
    BY <1>0, <1>6, <2>2, StatsIs
  <2> QED
    BY <1>2, <1>3, <1>4, <1>6, <2>1, <2>2, <2>3, TimeBucketsOk
<1> HIDE DEF rows, by, q, g, n
<1>7. by \in {"tag", "contentType"} =>
        /\ \A i \in DOMAIN g : g[i].key \in Keys(rows, by) /\ g[i].count = Cardinality(RowsOf(g[i].key, rows, by))
        /\ \A k \in Keys(rows, by) \ {g[i].key : i \in DOMAIN g} :
             \A i \in DOMAIN g : g[i].count >= Cardinality(RowsOf(k, rows, by))
        /\ reply.truncated <=> Len(g) < n
  BY <1>5
<1>8. by \in TimeGroups /\ asked.call = None =>
        Buckets(g, rows, q, asked.at) /\ reply.totals.count = Cardinality(rows)
  BY <1>6
<1> QED
  BY <1>7, <1>8 DEF StatsAddUp, Keys, KeysOf, RowsOf, rows, by, q, g, n

-----------------------------------------------------------------------------
(* The theorems.                                                           *)

(* The library is a set of media with ids of their own, and a question     *)
(* under way is one that may be asked, with its query, unanswered, refused *)
(* for its errors, or answered from the library as it is (MediaController, *)
(* MediaToolset).                                                          *)
THEOREM ToolsInvariant == Spec => []ToolsInductive
<1>1. Init => ToolsInductive
  BY ToolsInit
<1>2. ToolsInductive /\ [Next]_vars => ToolsInductive'
  BY ToolsNext
<1> QED
  BY <1>1, <1>2, PTL DEF Spec

(* The pages of a search hold every matching row once, in order, and a     *)
(* tool hands on a prefix of its page and says so (MediaQueryService,      *)
(* MediaToolset), but for names that the database cannot lower and pages   *)
(* beyond the ints.                                                        *)
THEOREM PagesAreWhatWasAsked == Spec => []FoundAsAsked
<1>1. ToolsInductive => FoundAsAsked
  <2> SUFFICES ASSUME ToolsInductive, Answered("search") PROVE FoundAsAsked
    BY DEF FoundAsAsked
  <2>1. LibrarySound /\ QuestionSound
    BY DEF ToolsInductive
  <2>2. /\ asked.kind = "search" /\ Legit("search", asked.p, asked.call, asked.at)
        /\ Parsed("search", asked.p).errors = {} /\ asked.query = Parsed("search", asked.p).query
        /\ reply = AnswerTo(asked)
    BY <2>1, AnsweredIs
  <2>3. asked.p.filter \in Parameters(Int) /\ {asked.p.page, asked.p.pageSize} \subseteq Int \cup {None}
    BY <2>2, LegitTypes
  <2>4. ParseSearch(asked.p).errors = {} /\ asked.query = ParseSearch(asked.p).query
    BY <2>2 DEF Parsed
  <2> QED
    BY <2>1, <2>2, <2>3, <2>4, SearchFinds
<1> QED
  BY <1>1, ToolsInvariant, PTL

(* What the model asks through a tool is never refused by the API, unless  *)
(* its period is empty, its content type is none, its tags are too long or *)
(* hold commas, its limit is NaN, or its range has too many buckets        *)
(* (MediaToolset.Filters against MediaQueryParser, MediaQueryService).     *)
THEOREM ToolsAskWhatIsAccepted == Spec => []ToolQueriesAreAccepted
<1>1. ToolsInductive => ToolQueriesAreAccepted
  <2> SUFFICES ASSUME ToolsInductive, reply # None, "errors" \in DOMAIN reply, asked.kind # "tool_error",
                      asked.call # None
               PROVE  Excused(asked.p, asked.call, asked.at) \/ TooLong
    BY DEF ToolQueriesAreAccepted, Excused
  <2>1. ~Refused
    <3> SUFFICES ASSUME Refused PROVE FALSE
      OBVIOUS
    <3>1. asked = [kind |-> "tool_error", call |-> asked.call]
      BY DEF Refused
    <3>2. asked.kind = "tool_error"
      BY <3>1
    <3> QED
      BY <3>2
  <2>2. Underway
    BY <2>1 DEF ToolsInductive, QuestionSound
  <2>3. Legit(asked.kind, asked.p, asked.call, asked.at)
    BY <2>2 DEF Underway
  <2>4. PICK kind, p, c, t : kind = asked.kind /\ p = asked.p /\ c = asked.call /\ t = asked.at
    OBVIOUS
  <2>5. Legit(kind, p, c, t)
    BY <2>3, <2>4
  <2>6. kind \in {"search", "stats"} /\ (c # None /\ Parsed(kind, p).errors # {} => Excused(p, c, t))
    BY <2>5, LegitTypes
  <2>7. CASE Parsed(asked.kind, asked.p).errors # {}
    BY <2>4, <2>6, <2>7
  <2>8. CASE Parsed(asked.kind, asked.p).errors = {}
    <3>1. asked.kind = "stats" /\ TooManyBuckets(library, asked.query, asked.at)
      BY <2>2, <2>4, <2>6, <2>8, AnswersAreNoErrors DEF Underway
    <3>2. asked.p.filter \in Parameters(Int) /\ asked.p.top \in Int \cup {None} /\ asked.at \in Int
      BY <2>4, <2>5, <3>1, LegitTypes DEF Legit
    <3>3. ParseStats(asked.p).errors = {} /\ asked.query = ParseStats(asked.p).query
      BY <2>2, <2>8, <3>1 DEF Underway, Parsed
    <3>4. asked.query.filter = Filter(asked.p.filter).query /\ Filter(asked.p.filter).errors = {}
      BY <3>2, <3>3, ParsedStatsIs
    <3>5. /\ asked.query.filter.from = asked.p.filter.from /\ asked.query.filter.to = asked.p.filter.to
          /\ asked.p.filter.from # Bad /\ asked.p.filter.to # Bad
      BY <3>2, <3>4, FilterIs
    <3>6. asked.query.filter.from \in Int \cup {None} /\ asked.query.filter.to \in Int \cup {None}
      BY <3>2, <3>5 DEF Parameters
    <3>7. LibrarySound
      BY DEF ToolsInductive
    <3> QED
      BY <3>1, <3>2, <3>6, <3>7, TooManyIsTooLong
  <2> QED
    BY <2>7, <2>8
<1> QED
  BY <1>1, ToolsInvariant, PTL

(* The groups of the statistics count their rows, the dropped ones are no  *)
(* larger than the kept ones, and the buckets of a range of time run from  *)
(* its start to its end without a gap, each with the rows of its own days  *)
(* (MediaQueryService).                                                    *)
THEOREM StatisticsAddUp == Spec => []StatsAddUp
<1>1. ToolsInductive => StatsAddUp
  <2> SUFFICES ASSUME ToolsInductive, Answered("stats") PROVE StatsAddUp
    BY DEF StatsAddUp
  <2>1. LibrarySound /\ QuestionSound
    BY DEF ToolsInductive
  <2>2. /\ asked.kind = "stats" /\ Legit("stats", asked.p, asked.call, asked.at)
        /\ Parsed("stats", asked.p).errors = {} /\ asked.query = Parsed("stats", asked.p).query
        /\ reply = AnswerTo(asked) /\ "errors" \notin DOMAIN reply
    BY <2>1, AnsweredIs DEF Answered
  <2>3. /\ asked.p.filter \in Parameters(Int) /\ asked.p.top \in Int \cup {None}
        /\ asked.call = None => asked.p.filter \in Parameters(Nat)
    BY <2>2, LegitTypes
  <2>4. asked.at \in Nat
    BY <2>2 DEF Legit
  <2>5. ParseStats(asked.p).errors = {} /\ asked.query = ParseStats(asked.p).query
    BY <2>2 DEF Parsed
  <2> QED
    BY <2>1, <2>2, <2>3, <2>4, <2>5, StatsSay
<1> QED
  BY <1>1, ToolsInvariant, PTL
=============================================================================
