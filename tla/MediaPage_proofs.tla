-------------------------- MODULE MediaPage_proofs --------------------------
(***************************************************************************)
(* Theorems about MediaPage, for any cards, texts and budgets.             *)
(*                                                                         *)
(*   FilesAreStoredOnce    a picked file is stored once                    *)
(*   GalleryComesToMatch   the gallery comes to show the rows              *)
(*   NothingIsUndone       a save brings no text back that was replaced    *)
(*                                                                         *)
(* All follow from PageStaysSound, the invariance of PageInductive, which  *)
(* has a part for each component. UploadsOK: what may store a card (a row, *)
(* a post on its way, a place in a loop of Upload All) is there once, and  *)
(* while the card is offered for upload there is a place at most (Once).   *)
(* GallerySound: the list differs from the rows by the answers that are    *)
(* still to come. ModalSound: a form that was opened up to date and not    *)
(* filled since has one request under way, its own. An action touches one  *)
(* or two of them; UploadsStay, GalleryStays and ModalStays are the frames *)
(* of the rest.                                                            *)
(***************************************************************************)
EXTENDS MediaPage, SequenceTheorems, FiniteSetTheorems, WellFoundedInduction, TLAPS

(* The types of what the page holds.                                       *)
Text == Texts \cup {Pristine, Elsewhere}
Sources == {"user", "open", "outdated", "cancel", "remount"}
Row == [card : Cards \cup {Pristine}, text : Text, gone : BOOLEAN]
Item == [id : Nat, text : Text]
States == {"ready", "up", "done", "err"}
File == [card : Cards, st : States]
Upload == [card : Cards \cup {Pristine}, loop : Nat, at : {"sent", "done", "over"}, id : Nat]
Load == [at : {"sent", "read", "over"}, snap : Seq(Item), stale : BOOLEAN]
Request ==
  [op : {"save", "delete"}, id : Nat, text : Text, at : {"sent", "done", "over"}, own : BOOLEAN,
   from : Sources]
Form == [text : Text, typed : BOOLEAN, editing : BOOLEAN, busy : BOOLEAN, from : Sources]

ListTyped == list \in Seq(Item) /\ \A i \in DOMAIN list : list[i].id \in DOMAIN rows

LoadsTyped ==
  /\ loads \in Seq(Load)
  /\ \A l \in DOMAIN loads : \A i \in DOMAIN loads[l].snap : loads[l].snap[i].id \in DOMAIN rows

CallsTyped ==
  /\ calls \in Seq(Request)
  /\ \A c \in DOMAIN calls : Pending(calls[c]) => calls[c].id \in DOMAIN rows

ModalTyped ==
  /\ shown \in Item /\ form \in Form
  /\ shown # Nothing => shown.id \in DOMAIN rows

(* Types; ids are those of rows.                                           *)
PageTyped ==
  rows \in Seq(Row) /\ ListTyped /\ LoadsTyped /\ CallsTyped /\ ModalTyped /\ dirty \in BOOLEAN

(* A post that is under way has a card, and is of the loop it says.        *)
PostsSound ==
  /\ \A i \in DOMAIN posts :
       /\ Pending(posts[i]) => posts[i].card \in Cards /\ posts[i].loop \in 0 .. Len(loops)
       /\ posts[i].at = "done" => /\ posts[i].id \in DOMAIN rows
                                  /\ rows[posts[i].id].card = posts[i].card
  /\ \A i, j \in DOMAIN posts :
       posts[i].at = "done" /\ posts[j].at = "done" /\ posts[i].id = posts[j].id => i = j

-----------------------------------------------------------------------------
(* What may store a card c: a row, a post on its way, a place in a loop.   *)

HasRow(rs, c) == \E m \in DOMAIN rs : rs[m].card = c
HasPost(ps, c) == \E i \in DOMAIN ps : ps[i].at = "sent" /\ ps[i].card = c
HasPlace(ls, c) == \E k \in DOMAIN ls : \E i \in DOMAIN ls[k] : ls[k][i] = c
Offered(fs, c) == \E i \in DOMAIN fs : fs[i].card = c /\ fs[i].st \in {"ready", "err"}

OneRow(rs, c) == \A m, n \in DOMAIN rs : rs[m].card = c /\ rs[n].card = c => m = n
OnePost(ps, c) ==
  \A i, j \in DOMAIN ps :
    ps[i].at = "sent" /\ ps[i].card = c /\ ps[j].at = "sent" /\ ps[j].card = c => i = j
OnePlace(ls, c) ==
  \A k, l \in DOMAIN ls : \A i \in DOMAIN ls[k], j \in DOMAIN ls[l] :
    ls[k][i] = c /\ ls[l][j] = c => k = l /\ i = j

(* A card has one of them, and one that is offered for upload has at most  *)
(* a place in a loop.                                                      *)
Once(c, rs, ps, ls, fs) ==
  /\ OneRow(rs, c) /\ OnePost(ps, c) /\ OnePlace(ls, c)
  /\ ~(HasRow(rs, c) /\ HasPost(ps, c))
  /\ ~(HasRow(rs, c) /\ HasPlace(ls, c))
  /\ ~(HasPost(ps, c) /\ HasPlace(ls, c))
  /\ Offered(fs, c) => ~HasRow(rs, c) /\ ~HasPost(ps, c)

CardsDiffer(fs) == \A i, j \in DOMAIN fs : fs[i].card = fs[j].card => i = j

UploadsSound ==
  /\ CardsDiffer(files)
  /\ \A c \in Cards \ doubled : Once(c, rows, posts, loops, files)

(* All of the upload page.                                                 *)
UploadsOK ==
  /\ files \in Seq(File) /\ posts \in Seq(Upload) /\ loops \in Seq(Seq(Cards))
  /\ doubled \subseteq Cards /\ rows \in Seq(Row)
  /\ PostsSound /\ UploadsSound

-----------------------------------------------------------------------------
(* A request of the modal is answered and not yet heard.                   *)
DoneDelete(m) ==
  \E c \in DOMAIN calls : calls[c].at = "done" /\ calls[c].op = "delete" /\ calls[c].id = m
DoneSave(m, t) ==
  \E c \in DOMAIN calls :
    calls[c].at = "done" /\ calls[c].op = "save" /\ calls[c].id = m /\ calls[c].text = t

IsListed(m) == \E i \in DOMAIN list : list[i].id = m
Fresh(m) == \E i \in DOMAIN posts : posts[i].at = "done" /\ posts[i].id = m

(* What the list shows differs from the rows only by answers that are to   *)
(* come.                                                                   *)
ListsOnce == \A i, j \in DOMAIN list : list[i].id = list[j].id => i = j
ListsRight(e) ==
  IF rows[e.id].gone THEN DoneDelete(e.id)
  ELSE e.text = rows[e.id].text \/ DoneSave(e.id, rows[e.id].text)
ListsAll == \A m \in DOMAIN rows : rows[m].gone \/ IsListed(m) \/ Fresh(m)
ListSound == ListsOnce /\ (\A i \in DOMAIN list : ListsRight(list[i])) /\ ListsAll

(* Nobody knows of a row whose upload is not answered.                     *)
FreshSound ==
  \A m \in DOMAIN rows : Fresh(m) =>
    /\ ~rows[m].gone /\ rows[m].text = Pristine
    /\ ~IsListed(m) /\ shown.id # m
    /\ \A c \in DOMAIN calls : Pending(calls[c]) => calls[c].id # m

DeletesSound ==
  \A c \in DOMAIN calls :
    calls[c].at = "done" /\ calls[c].op = "delete" => rows[calls[c].id].gone

LoadsSound ==
  \A l \in DOMAIN loads :
    loads[l].at = "read" /\ ~loads[l].stale => loads[l].snap = Listed /\ ~Unanswered(posts)

GallerySound == (dirty \/ (ListSound /\ FreshSound)) /\ DeletesSound /\ LoadsSound

-----------------------------------------------------------------------------
(* The row has this text, unless it is gone.                               *)
Says(m, t) == rows[m].gone \/ rows[m].text = t

(* While the form is that of a media that was opened up to date, and not   *)
(* filled since, a request under way is its own, and it shows the row      *)
(* unless its user has typed.                                              *)
OpenSound ==
  form.from = "open" =>
    /\ \A c \in DOMAIN calls : Pending(calls[c]) =>
         /\ calls[c].own
         /\ shown # Nothing => calls[c].id = shown.id
         /\ calls[c].op = "save" /\ ~form.typed => calls[c].from = "open"
         /\ calls[c].op = "save" /\ calls[c].at = "done" => Says(calls[c].id, calls[c].text)
    /\ shown # Nothing /\ ~form.typed => Says(shown.id, form.text)

(* One request of a modal is under way at a time, and none at all beside   *)
(* one whose text is that of an open form: that one changes nothing.       *)
CallsSound ==
  /\ \A c, d \in DOMAIN calls :
       Pending(calls[c]) /\ calls[c].own /\ Pending(calls[d]) /\ calls[d].own => c = d
  /\ \A c \in DOMAIN calls : Pending(calls[c]) /\ calls[c].own => form.busy
  /\ \A c \in DOMAIN calls : Pending(calls[c]) /\ calls[c].from = "open" =>
       /\ \A d \in DOMAIN calls : Pending(calls[d]) => d = c
       /\ calls[c].at = "sent" /\ calls[c].op = "save" => Says(calls[c].id, calls[c].text)

ModalSound == OpenSound /\ CallsSound /\ "open" \notin undone

PageInductive == PageTyped /\ UploadsOK /\ GallerySound /\ ModalSound

-----------------------------------------------------------------------------
(* What Kept keeps.                                                        *)

(* A set of numbers that is not empty has a least one.                     *)
LEMMA LeastNumber ==
  ASSUME NEW S \in SUBSET Nat, S # {}
  PROVE  \E i \in S : \A j \in S : i <= j
<1>1. IsWellFoundedOn(OpToRel(<, Nat), Nat)
  BY NatLessThanWellFounded
<1>2. PICK i \in S : \A j \in S : <<j, i>> \notin OpToRel(<, Nat)
  BY <1>1, WFMin
<1>3. \A j \in S : i <= j
  <2> SUFFICES ASSUME NEW j \in S, j < i PROVE FALSE
    OBVIOUS
  <2>1. <<j, i>> \in {ss \in Nat \X Nat : ss[1] < ss[2]}
    OBVIOUS
  <2> QED
    BY <1>2, <2>1 DEF OpToRel
<1> QED
  BY <1>3

(* The recursion of Kept up to n.                                          *)
Filters(f, s, K, n) ==
  f = [i \in 0 .. n |->
        IF i = 0 THEN <<>> ELSE IF s[i] \in K THEN Append(f[i - 1], s[i]) ELSE f[i - 1]]

LEMMA FiltersExist ==
  ASSUME NEW s, NEW K, NEW n \in Nat
  PROVE  \E f : Filters(f, s, K, n)
<1> DEFINE Bad == {m \in Nat : \A f : ~Filters(f, s, K, m)}
<1> SUFFICES ASSUME Bad # {} PROVE FALSE
  OBVIOUS
<1>1. PICK m \in Bad : \A j \in Bad : m <= j
  BY LeastNumber
<1>2. CASE m = 0
  <2> DEFINE g == [i \in 0 .. 0 |-> <<>>]
  <2>1. Filters(g, s, K, 0)
    BY DEF Filters
  <2> QED
    BY <1>1, <1>2, <2>1
<1>3. CASE m # 0
  <2>1. m - 1 \in Nat /\ m - 1 \notin Bad
    BY <1>1, <1>3
  <2>2. PICK f : Filters(f, s, K, m - 1)
    BY <2>1
  <2> DEFINE g == [i \in 0 .. m |->
                    IF i < m THEN f[i] ELSE IF s[m] \in K THEN Append(f[m - 1], s[m]) ELSE f[m - 1]]
  <2>3. \A i \in 0 .. m :
          g[i] = IF i = 0 THEN <<>> ELSE IF s[i] \in K THEN Append(g[i - 1], s[i]) ELSE g[i - 1]
    <3> TAKE i \in 0 .. m
    <3>1. CASE i = m
      BY <1>3, <2>1, <3>1
    <3>2. CASE i < m
      <4>1. i \in 0 .. m - 1 /\ (i # 0 => i - 1 \in 0 .. m /\ i - 1 < m)
        BY <3>2
      <4>2. f[i] = IF i = 0 THEN <<>> ELSE IF s[i] \in K THEN Append(f[i - 1], s[i]) ELSE f[i - 1]
        BY <2>2, <4>1 DEF Filters
      <4> QED
        BY <3>2, <4>1, <4>2
    <3> QED
      BY <3>1, <3>2
  <2>4. Filters(g, s, K, m)
    BY <2>3 DEF Filters
  <2> QED
    BY <1>1, <2>4
<1> QED
  BY <1>2, <1>3

(* The places h that t takes its elements from are those of s, up to n,    *)
(* whose elements are in K, each taken once.                               *)
Takes(h, s, K, n, t) ==
  /\ h \in [1 .. Len(t) -> {j \in 1 .. n : s[j] \in K}]
  /\ \A k, l \in 1 .. Len(t) : h[k] = h[l] => k = l
  /\ \A j \in 1 .. n : s[j] \in K => \E k \in 1 .. Len(t) : h[k] = j
  /\ \A k \in 1 .. Len(t) : t[k] = s[h[k]]

LEMMA FiltersTake ==
  ASSUME NEW S, NEW s \in Seq(S), NEW K, NEW f, Filters(f, s, K, Len(s)), NEW n \in 0 .. Len(s)
  PROVE  f[n] \in Seq(S) /\ \E h : Takes(h, s, K, n, f[n])
<1> DEFINE Bad == {m \in 0 .. Len(s) : ~(f[m] \in Seq(S) /\ \E h : Takes(h, s, K, m, f[m]))}
<1> SUFFICES ASSUME Bad # {} PROVE FALSE
  OBVIOUS
<1>1. PICK m \in Bad : \A j \in Bad : m <= j
  <2>1. Len(s) \in Nat
    OBVIOUS
  <2>2. Bad \in SUBSET Nat
    BY <2>1
  <2> HIDE DEF Bad
  <2> QED
    BY <2>2, LeastNumber
<1>2. f[m] = IF m = 0 THEN <<>> ELSE IF s[m] \in K THEN Append(f[m - 1], s[m]) ELSE f[m - 1]
  BY DEF Filters
<1>3. CASE m = 0
  <2>1. f[m] = <<>>
    BY <1>2, <1>3
  <2> DEFINE g == [k \in 1 .. 0 |-> 0]
  <2>2. Takes(g, s, K, 0, <<>>)
    BY DEF Takes
  <2>3. <<>> \in Seq(S)
    OBVIOUS
  <2> HIDE DEF g
  <2>4. f[m] \in Seq(S) /\ Takes(g, s, K, m, f[m])
    BY <1>3, <2>1, <2>2, <2>3
  <2> QED
    BY <1>1, <2>4
<1>4. CASE m # 0
  <2>1. m - 1 \in 0 .. Len(s) /\ m - 1 \notin Bad /\ m \in 1 .. Len(s)
    BY <1>1, <1>4
  <2>2. PICK h : f[m - 1] \in Seq(S) /\ Takes(h, s, K, m - 1, f[m - 1])
    BY <2>1
  <2> DEFINE t == f[m - 1]
  <2>3. t \in Seq(S) /\ Takes(h, s, K, m - 1, t) /\ Len(t) \in Nat
    BY <2>2
  <2> HIDE DEF t
  <2>4. CASE s[m] \notin K
    <3>1. f[m] = t
      BY <1>2, <1>4, <2>4 DEF t
    <3>2. {j \in 1 .. m : s[j] \in K} = {j \in 1 .. m - 1 : s[j] \in K}
      BY <2>1, <2>4
    <3>3. Takes(h, s, K, m, t)
      BY <2>1, <2>3, <2>4, <3>2 DEF Takes
    <3> QED
      BY <1>1, <2>3, <3>1, <3>3
  <2>5. CASE s[m] \in K
    <3>1. f[m] = Append(t, s[m])
      BY <1>2, <1>4, <2>5 DEF t
    <3> DEFINE u == Append(t, s[m])
               g == [k \in 1 .. Len(t) + 1 |-> IF k <= Len(t) THEN h[k] ELSE m]
    <3>2. s[m] \in S
      BY <2>1
    <3>3. /\ u \in Seq(S) /\ Len(u) = Len(t) + 1 /\ u[Len(t) + 1] = s[m]
          /\ \A k \in 1 .. Len(t) : u[k] = t[k]
      BY <2>3, <3>2, AppendProperties
    <3> HIDE DEF u
    <3>4. \A k \in 1 .. Len(t) : h[k] \in 1 .. m - 1 /\ s[h[k]] \in K /\ t[k] = s[h[k]]
      BY <2>3 DEF Takes
    <3>5. g \in [1 .. Len(u) -> {j \in 1 .. m : s[j] \in K}]
      BY <2>1, <2>3, <2>5, <3>3, <3>4
    <3>6. \A k, l \in 1 .. Len(u) : g[k] = g[l] => k = l
      BY <2>1, <2>3, <3>3, <3>4 DEF Takes
    <3>7. ASSUME NEW j \in 1 .. m, s[j] \in K
          PROVE  \E k \in 1 .. Len(u) : g[k] = j
      <4>1. CASE j = m
        <5>1. Len(t) + 1 \in 1 .. Len(u) /\ g[Len(t) + 1] = m
          BY <2>3, <3>3
        <5> QED
          BY <4>1, <5>1
      <4>2. CASE j # m
        <5>1. j \in 1 .. m - 1
          BY <2>1, <4>2
        <5>2. PICK k \in 1 .. Len(t) : h[k] = j
          BY <2>3, <3>7, <5>1 DEF Takes
        <5>3. k \in 1 .. Len(u) /\ g[k] = j
          BY <2>3, <3>3, <5>2
        <5> QED
          BY <5>3
      <4> QED
        BY <4>1, <4>2
    <3>8. \A k \in 1 .. Len(u) : u[k] = s[g[k]]
      BY <2>3, <3>3, <3>4
    <3> HIDE DEF g
    <3>9. Takes(g, s, K, m, u)
      BY <3>5, <3>6, <3>7, <3>8 DEF Takes
    <3> QED
      BY <1>1, <3>1, <3>3, <3>9 DEF u
  <2> QED
    BY <2>4, <2>5
<1> QED
  BY <1>3, <1>4

LEMMA KeptTakes ==
  ASSUME NEW S, NEW s \in Seq(S), NEW K
  PROVE  Kept(s, K) \in Seq(S) /\ \E h : Takes(h, s, K, Len(s), Kept(s, K))
<1>1. Len(s) \in Nat
  OBVIOUS
<1> DEFINE F == CHOOSE f : Filters(f, s, K, Len(s))
<1>2. Filters(F, s, K, Len(s))
  BY <1>1, FiltersExist
<1>3. Kept(s, K) = F[Len(s)]
  BY DEF Kept, Filters
<1> HIDE DEF F
<1> QED
  BY <1>1, <1>2, <1>3, FiltersTake

(* What is kept is what was there and is in K, as often as it was there.   *)
LEMMA KeptHas ==
  ASSUME NEW S, NEW s \in Seq(S), NEW K
  PROVE  /\ \A k \in DOMAIN Kept(s, K) : \E j \in DOMAIN s : s[j] \in K /\ Kept(s, K)[k] = s[j]
         /\ \A j \in DOMAIN s : s[j] \in K => \E k \in DOMAIN Kept(s, K) : Kept(s, K)[k] = s[j]
<1>1. PICK h : Takes(h, s, K, Len(s), Kept(s, K))
  BY KeptTakes
<1>2. DOMAIN s = 1 .. Len(s) /\ DOMAIN Kept(s, K) = 1 .. Len(Kept(s, K))
  BY KeptTakes
<1> DEFINE t == Kept(s, K)
<1> HIDE DEF t
<1>3. ASSUME NEW k \in 1 .. Len(t), Takes(h, s, K, Len(s), t)
      PROVE  h[k] \in 1 .. Len(s) /\ s[h[k]] \in K /\ t[k] = s[h[k]]
  BY <1>3 DEF Takes
<1>4. ASSUME NEW j \in 1 .. Len(s), s[j] \in K, Takes(h, s, K, Len(s), t)
      PROVE  \E k \in 1 .. Len(t) : t[k] = s[j]
  BY <1>4 DEF Takes
<1> QED
  BY <1>1, <1>2, <1>3, <1>4 DEF t

LEMMA KeptOnce ==
  ASSUME NEW S, NEW s \in Seq(S), NEW K, NEW k \in DOMAIN Kept(s, K), NEW l \in DOMAIN Kept(s, K), k # l
  PROVE  \E i, j \in DOMAIN s : i # j /\ Kept(s, K)[k] = s[i] /\ Kept(s, K)[l] = s[j]
<1>1. PICK h : Takes(h, s, K, Len(s), Kept(s, K))
  BY KeptTakes
<1>2. DOMAIN s = 1 .. Len(s) /\ DOMAIN Kept(s, K) = 1 .. Len(Kept(s, K))
  BY KeptTakes
<1>3. h[k] \in DOMAIN s /\ h[l] \in DOMAIN s /\ h[k] # h[l]
      /\ Kept(s, K)[k] = s[h[k]] /\ Kept(s, K)[l] = s[h[l]]
  BY <1>1, <1>2 DEF Takes
<1> QED
  BY <1>3

LEMMA KeptLength ==
  ASSUME NEW S, NEW s \in Seq(S), NEW K
  PROVE  Len(Kept(s, K)) = Cardinality({j \in DOMAIN s : s[j] \in K})
<1> DEFINE T == Kept(s, K)
           P == {j \in DOMAIN s : s[j] \in K}
<1>1. PICK h : Takes(h, s, K, Len(s), T)
  BY KeptTakes
<1>2. T \in Seq(S) /\ Len(T) \in Nat /\ DOMAIN s = 1 .. Len(s)
  BY KeptTakes
<1> HIDE DEF T
<1>3. h \in Bijection(1 .. Len(T), P)
  BY <1>1, <1>2 DEF Takes, Bijection, Injection, Surjection, IsInjective
<1>4. IsFiniteSet(1 .. Len(T)) /\ Cardinality(1 .. Len(T)) = Len(T)
  <2>1. 1 \in Int /\ Len(T) \in Int
    BY <1>2
  <2>2. /\ IsFiniteSet(1 .. Len(T))
        /\ Cardinality(1 .. Len(T)) = IF 1 > Len(T) THEN 0 ELSE Len(T) - 1 + 1
    BY <2>1, FS_Interval
  <2> QED
    BY <1>2, <2>2
<1>5. Cardinality(P) = Len(T)
  BY <1>3, <1>4, FS_Bijection DEF ExistsBijection
<1> QED
  BY <1>5 DEF T
-----------------------------------------------------------------------------
(* Sequences that grow, or change in one place.                            *)

LEMMA Appended ==
  ASSUME NEW S, NEW s \in Seq(S), NEW x \in S
  PROVE  /\ Append(s, x) \in Seq(S) /\ Len(Append(s, x)) = Len(s) + 1
         /\ DOMAIN Append(s, x) = (DOMAIN s) \cup {Len(s) + 1}
         /\ Len(s) + 1 \notin DOMAIN s
         /\ Append(s, x)[Len(s) + 1] = x
         /\ \A i \in DOMAIN s : Append(s, x)[i] = s[i]
OBVIOUS

LEMMA Replaced ==
  ASSUME NEW S, NEW s \in Seq(S), NEW i \in DOMAIN s, NEW x \in S
  PROVE  /\ [s EXCEPT ![i] = x] \in Seq(S) /\ Len([s EXCEPT ![i] = x]) = Len(s)
         /\ DOMAIN [s EXCEPT ![i] = x] = DOMAIN s
         /\ [s EXCEPT ![i] = x][i] = x
         /\ \A j \in DOMAIN s : j # i => [s EXCEPT ![i] = x][j] = s[j]
OBVIOUS

(* A sequence given by what it has in each place of another.               *)
LEMMA Mapped ==
  ASSUME NEW S, NEW T, NEW s \in Seq(S), NEW t, t = [i \in DOMAIN s |-> t[i]],
         \A i \in DOMAIN s : t[i] \in T
  PROVE  t \in Seq(T) /\ Len(t) = Len(s) /\ DOMAIN t = DOMAIN s
<1>1. DOMAIN s = 1 .. Len(s) /\ Len(s) \in Nat
  OBVIOUS
<1>2. t = [i \in 1 .. Len(s) |-> t[i]]
  BY <1>1
<1> QED
  BY <1>1, <1>2

LEMMA Members ==
  ASSUME NEW S, NEW s \in Seq(S)
  PROVE  /\ \A i \in DOMAIN s : s[i] \in S
         /\ DOMAIN s = 1 .. Len(s) /\ Len(s) \in Nat
OBVIOUS

-----------------------------------------------------------------------------
(* Cards.                                                                  *)

LEMMA MarkedIs ==
  ASSUME NEW fs \in Seq(File), NEW d \in Cards, NEW st \in States
  PROVE  /\ Marked(fs, d, st) \in Seq(File) /\ DOMAIN Marked(fs, d, st) = DOMAIN fs
         /\ \A i \in DOMAIN fs :
              /\ Marked(fs, d, st)[i].card = fs[i].card
              /\ Marked(fs, d, st)[i].st = IF fs[i].card = d THEN st ELSE fs[i].st
<1> DEFINE m == Marked(fs, d, st)
<1>1. \A i \in DOMAIN fs : fs[i] \in File
  BY Members
<1>2. \A i \in DOMAIN fs : m[i] = IF fs[i].card = d THEN [fs[i] EXCEPT !.st = st] ELSE fs[i]
  BY DEF Marked
<1>3. m = [i \in DOMAIN fs |-> m[i]]
  BY DEF Marked
<1> HIDE DEF m
<1>4. \A i \in DOMAIN fs :
        /\ m[i] \in File /\ m[i].card = fs[i].card
        /\ m[i].st = IF fs[i].card = d THEN st ELSE fs[i].st
  BY <1>1, <1>2 DEF File
<1>5. m \in Seq(File) /\ DOMAIN m = DOMAIN fs
  BY <1>3, <1>4, Mapped
<1> QED
  BY <1>4, <1>5 DEF m

LEMMA MarkedDiffer ==
  ASSUME NEW fs \in Seq(File), NEW d \in Cards, NEW st \in States,
         CardsDiffer(fs)
  PROVE  CardsDiffer(Marked(fs, d, st))
<1> DEFINE gs == Marked(fs, d, st)
<1>1. /\ gs \in Seq(File) /\ DOMAIN gs = DOMAIN fs
      /\ \A i \in DOMAIN fs : /\ gs[i].card = fs[i].card
                              /\ gs[i].st = IF fs[i].card = d THEN st ELSE fs[i].st
  BY MarkedIs
<1> HIDE DEF gs
<1>2. CardsDiffer(gs)
  BY <1>1 DEF CardsDiffer
<1> QED
  BY <1>2 DEF gs

(* Fewer offers.                                                           *)
LEMMA FewerOffered ==
  ASSUME NEW c, NEW rs, NEW ps, NEW ls, NEW fs, NEW gs, Once(c, rs, ps, ls, fs),
         Offered(gs, c) => Offered(fs, c)
  PROVE  Once(c, rs, ps, ls, gs)
BY DEF Once

(* A post that begins for a card d that has nothing else.                  *)
LEMMA OncePosted ==
  ASSUME NEW c, NEW rs, NEW ps \in Seq(Upload), NEW ls, NEW fs \in Seq(File), NEW d \in Cards,
         NEW x \in Upload, x.card = d, x.at = "sent", Once(c, rs, ps, ls, fs),
         d = c => ~HasRow(rs, c) /\ ~HasPost(ps, c) /\ ~HasPlace(ls, c)
  PROVE  Once(c, rs, Append(ps, x), ls, Marked(fs, d, "up"))
<1> DEFINE qs == Append(ps, x)
           gs == Marked(fs, d, "up")
<1>1. /\ DOMAIN qs = (DOMAIN ps) \cup {Len(ps) + 1} /\ qs[Len(ps) + 1] = x
      /\ \A i \in DOMAIN ps : qs[i] = ps[i]
  BY Appended
<1>2. /\ DOMAIN gs = DOMAIN fs
      /\ \A i \in DOMAIN fs : /\ gs[i].card = fs[i].card
                              /\ gs[i].st = IF fs[i].card = d THEN "up" ELSE fs[i].st
  BY MarkedIs DEF States
<1> HIDE DEF qs, gs
<1>3. Offered(gs, c) => Offered(fs, c) /\ d # c
  BY <1>2 DEF Offered
<1>4. HasPost(qs, c) => HasPost(ps, c) \/ d = c
  BY <1>1 DEF HasPost
<1>5. OnePost(qs, c)
  BY <1>1 DEF OnePost, Once, HasPost
<1> QED
  BY <1>3, <1>4, <1>5 DEF Once, qs, gs

(* The next card leaves its loop.                                          *)
LEMMA OnceTaken ==
  ASSUME NEW c, NEW rs, NEW ps, NEW ls \in Seq(Seq(Cards)), NEW fs, NEW k \in DOMAIN ls,
         ls[k] # <<>>, Once(c, rs, ps, ls, fs)
  PROVE  /\ Once(c, rs, ps, [ls EXCEPT ![k] = Tail(@)], fs)
         /\ Head(ls[k]) = c => /\ ~HasRow(rs, c) /\ ~HasPost(ps, c)
                               /\ ~HasPlace([ls EXCEPT ![k] = Tail(@)], c)
<1> DEFINE q == ls[k]
           ms == [ls EXCEPT ![k] = Tail(@)]
<1>1. q \in Seq(Cards) /\ q # <<>>
  BY Members
<1>2. /\ Len(q) \in Nat /\ Len(q) # 0 /\ DOMAIN q = 1 .. Len(q) /\ q[1] = Head(q)
      /\ Tail(q) \in Seq(Cards) /\ DOMAIN Tail(q) = 1 .. Len(q) - 1
      /\ \A i \in 1 .. Len(q) - 1 : Tail(q)[i] = q[i + 1]
  BY <1>1
<1>3. DOMAIN ms = DOMAIN ls /\ ms[k] = Tail(q) /\ \A l \in DOMAIN ls : l # k => ms[l] = ls[l]
  BY <1>2, Replaced
<1> HIDE DEF ms
<1>4. \A l \in DOMAIN ms : \A i \in DOMAIN ms[l] :
        LET j == IF l = k THEN i + 1 ELSE i IN j \in DOMAIN ls[l] /\ ls[l][j] = ms[l][i]
  <2> SUFFICES ASSUME NEW l \in DOMAIN ms, NEW i \in DOMAIN ms[l]
               PROVE  /\ l = k => i + 1 \in DOMAIN ls[l] /\ ls[l][i + 1] = ms[l][i]
                      /\ l # k => i \in DOMAIN ls[l] /\ ls[l][i] = ms[l][i]
    OBVIOUS
  <2>1. CASE l = k
    <3>1. i \in 1 .. Len(q) - 1 /\ ms[l][i] = q[i + 1] /\ i + 1 \in 1 .. Len(q)
      BY <1>2, <1>3, <2>1
    <3> QED
      BY <1>2, <2>1, <3>1
  <2>2. CASE l # k
    BY <1>3, <2>2
  <2> QED
    BY <2>1, <2>2
<1>5. HasPlace(ms, c) => HasPlace(ls, c)
  <2> SUFFICES ASSUME NEW l \in DOMAIN ms, NEW i \in DOMAIN ms[l], ms[l][i] = c
               PROVE  \E j \in DOMAIN ls[l] : ls[l][j] = c
    BY <1>3 DEF HasPlace
  <2> QED
    BY <1>4
<1>6. OnePlace(ms, c)
  <2> SUFFICES ASSUME NEW l \in DOMAIN ms, NEW m \in DOMAIN ms, NEW i \in DOMAIN ms[l],
                      NEW j \in DOMAIN ms[m], ms[l][i] = c, ms[m][j] = c
               PROVE  l = m /\ i = j
    BY DEF OnePlace
  <2> DEFINE a == IF l = k THEN i + 1 ELSE i
             b == IF m = k THEN j + 1 ELSE j
  <2>1. /\ a \in DOMAIN ls[l] /\ ls[l][a] = c /\ b \in DOMAIN ls[m] /\ ls[m][b] = c
        /\ l \in DOMAIN ls /\ m \in DOMAIN ls
    BY <1>3, <1>4
  <2>2. l = m /\ a = b
    BY <2>1 DEF Once, OnePlace
  <2>3. l = k => i \in Nat /\ j \in Nat
    BY <1>2, <1>3, <2>2
  <2> QED
    BY <2>2, <2>3
<1>7. Head(q) = c => HasPlace(ls, c) /\ ~HasPlace(ms, c)
  <2> SUFFICES ASSUME Head(q) = c PROVE HasPlace(ls, c) /\ ~HasPlace(ms, c)
    OBVIOUS
  <2>1. 1 \in DOMAIN ls[k] /\ ls[k][1] = c
    BY <1>2
  <2>2. ASSUME NEW l \in DOMAIN ms, NEW i \in DOMAIN ms[l], ms[l][i] = c PROVE FALSE
    <3> DEFINE a == IF l = k THEN i + 1 ELSE i
    <3>1. a \in DOMAIN ls[l] /\ ls[l][a] = c /\ l \in DOMAIN ls
      BY <1>3, <1>4, <2>2
    <3>2. l = k /\ a = 1
      BY <2>1, <3>1 DEF Once, OnePlace
    <3>3. i \in 1 .. Len(q) - 1
      BY <1>2, <1>3, <3>2
    <3> QED
      BY <1>2, <3>2, <3>3
  <2> QED
    BY <2>1, <2>2 DEF HasPlace
<1> QED
  BY <1>5, <1>6, <1>7 DEF Once, ms

(* A post ends, with its card in this state.                               *)
LEMMA OnceEnded ==
  ASSUME NEW c, NEW rs, NEW ps \in Seq(Upload), NEW ls, NEW fs \in Seq(File), NEW i \in DOMAIN ps,
         NEW x \in Upload, x.at = "over", NEW st \in {"done", "err"}, ps[i].card \in Cards,
         Once(c, rs, ps, ls, fs), ps[i].card = c /\ st = "err" => ps[i].at = "sent"
  PROVE  Once(c, rs, [ps EXCEPT ![i] = x], ls, Marked(fs, ps[i].card, st))
<1> DEFINE d == ps[i].card
           qs == [ps EXCEPT ![i] = x]
           gs == Marked(fs, d, st)
<1>1. DOMAIN qs = DOMAIN ps /\ qs[i] = x /\ \A j \in DOMAIN ps : j # i => qs[j] = ps[j]
  BY Replaced
<1>2. /\ gs \in Seq(File) /\ DOMAIN gs = DOMAIN fs
      /\ \A j \in DOMAIN fs : /\ gs[j].card = fs[j].card
                              /\ gs[j].st = IF fs[j].card = d THEN st ELSE fs[j].st
  <2>1. st \in States /\ d \in Cards
    BY DEF States
  <2> HIDE DEF d
  <2> QED
    BY <2>1, MarkedIs
<1> HIDE DEF qs, gs
<1>3. HasPost(qs, c) => HasPost(ps, c)
  BY <1>1 DEF HasPost
<1>4. OnePost(qs, c)
  BY <1>1 DEF OnePost, Once
<1>5. Offered(gs, c) => Offered(fs, c) \/ (d = c /\ st = "err")
  BY <1>2 DEF Offered
<1>6. d = c /\ st = "err" => ~HasRow(rs, c) /\ ~HasPost(qs, c)
  <2> SUFFICES ASSUME d = c, st = "err" PROVE ~HasRow(rs, c) /\ ~HasPost(qs, c)
    OBVIOUS
  <2>1. ps[i].at = "sent" /\ ps[i].card = c
    OBVIOUS
  <2>2. HasPost(ps, c)
    BY <2>1 DEF HasPost
  <2>3. ~HasPost(qs, c)
    BY <1>1, <2>1 DEF HasPost, Once, OnePost
  <2> QED
    BY <2>2, <2>3 DEF Once
<1> QED
  BY <1>3, <1>4, <1>5, <1>6 DEF Once, qs, gs, d

(* A post is stored.                                                       *)
LEMMA OnceStored ==
  ASSUME NEW c, NEW rs \in Seq(Row), NEW ps \in Seq(Upload), NEW ls, NEW fs, NEW i \in DOMAIN ps,
         ps[i].at = "sent", NEW x \in Upload, x.at = "done", NEW y \in Row, y.card = ps[i].card,
         Once(c, rs, ps, ls, fs)
  PROVE  Once(c, Append(rs, y), [ps EXCEPT ![i] = x], ls, fs)
<1> DEFINE qs == [ps EXCEPT ![i] = x]
           ss == Append(rs, y)
<1>1. DOMAIN qs = DOMAIN ps /\ qs[i] = x /\ \A j \in DOMAIN ps : j # i => qs[j] = ps[j]
  BY Replaced
<1>2. /\ DOMAIN ss = (DOMAIN rs) \cup {Len(rs) + 1} /\ ss[Len(rs) + 1] = y
      /\ \A m \in DOMAIN rs : ss[m] = rs[m]
  BY Appended
<1> HIDE DEF qs, ss
<1>3. /\ HasPost(qs, c) => HasPost(ps, c)
      /\ OnePost(qs, c)
      /\ HasRow(ss, c) => HasRow(rs, c) \/ ps[i].card = c
  <2>1. HasPost(qs, c) => HasPost(ps, c)
    BY <1>1 DEF HasPost
  <2>2. OnePost(qs, c)
    BY <1>1 DEF OnePost, Once
  <2>3. HasRow(ss, c) => HasRow(rs, c) \/ ps[i].card = c
    BY <1>2 DEF HasRow
  <2> QED
    BY <2>1, <2>2, <2>3
<1>4. ps[i].card = c => HasPost(ps, c) /\ ~HasPost(qs, c) /\ ~HasRow(rs, c)
  BY <1>1 DEF HasPost, Once, OnePost
<1>5. OneRow(ss, c)
  BY <1>2, <1>4 DEF Once, OneRow, HasRow
<1> QED
  BY <1>3, <1>4, <1>5 DEF Once, qs, ss

(* A loop begins, for cards that have nothing else.                        *)
LEMMA OncePlaced ==
  ASSUME NEW c, NEW rs, NEW ps, NEW ls \in Seq(Seq(Cards)), NEW fs, NEW q \in Seq(Cards),
         \A i, j \in DOMAIN q : q[i] = c /\ q[j] = c => i = j, Once(c, rs, ps, ls, fs),
         c \in Range(q) => ~HasRow(rs, c) /\ ~HasPost(ps, c) /\ ~HasPlace(ls, c)
  PROVE  Once(c, rs, ps, Append(ls, q), fs)
<1> DEFINE ms == Append(ls, q)
           k == Len(ls) + 1
<1>1. DOMAIN ms = (DOMAIN ls) \cup {k} /\ ms[k] = q /\ \A l \in DOMAIN ls : ms[l] = ls[l]
  BY Appended
<1>2. c \in Range(q) <=> \E i \in DOMAIN q : q[i] = c
  BY DEF Range
<1> HIDE DEF ms, k
<1>3. HasPlace(ms, c) => HasPlace(ls, c) \/ c \in Range(q)
  BY <1>1, <1>2 DEF HasPlace
<1>4. OnePlace(ms, c)
  BY <1>1, <1>2 DEF Once, OnePlace, HasPlace
<1> QED
  BY <1>3, <1>4 DEF Once, ms

-----------------------------------------------------------------------------
(* The steps of the upload page.                                           *)

Begun(c, k) == [card |-> c, loop |-> k, at |-> "sent", id |-> 0]
Ended == [card |-> Pristine, loop |-> 0, at |-> "over", id |-> 0]

LEMMA BegunIs ==
  ASSUME NEW c \in Cards, NEW k \in Nat
  PROVE  /\ Begun(c, k) \in Upload /\ Begun(c, k).card = c /\ Begun(c, k).at = "sent"
         /\ Begun(c, k).loop = k /\ Pending(Begun(c, k))
BY DEF Begun, Upload, Pending

LEMMA EndedIs == Ended \in Upload /\ Ended.at = "over" /\ ~Pending(Ended)
BY DEF Ended, Upload, Pending

(* No post is answered by the API, or has its answer come.                 *)
PostsCarry ==
  /\ \A i \in DOMAIN posts' : posts'[i].at = "done" =>
       i \in DOMAIN posts /\ posts[i].at = "done" /\ posts'[i].id = posts[i].id
  /\ \A i \in DOMAIN posts : posts[i].at = "done" =>
       i \in DOMAIN posts' /\ posts'[i].at = "done" /\ posts'[i].id = posts[i].id

(* Posts stay, begin or end.                                               *)
LEMMA PostsStay ==
  ASSUME PostsSound, rows' = rows, Len(loops') >= Len(loops), Len(loops) \in Nat, Len(loops') \in Nat,
         \A i \in DOMAIN posts' :
           \/ i \in DOMAIN posts /\ posts'[i] = posts[i]
           \/ posts'[i].at = "over"
           \/ posts'[i].at = "sent" /\ posts'[i].card \in Cards /\ posts'[i].loop \in 0 .. Len(loops')
  PROVE  PostsSound'
<1>1. ASSUME NEW i \in DOMAIN posts'
      PROVE  /\ Pending(posts'[i]) => posts'[i].card \in Cards /\ posts'[i].loop \in 0 .. Len(loops')
             /\ posts'[i].at = "done" => /\ i \in DOMAIN posts /\ posts'[i] = posts[i]
                                         /\ posts'[i].id \in DOMAIN rows
                                         /\ rows[posts'[i].id].card = posts'[i].card
  <2>1. CASE i \in DOMAIN posts /\ posts'[i] = posts[i]
    BY <2>1 DEF PostsSound
  <2>2. CASE posts'[i].at = "over"
    BY <2>2 DEF Pending
  <2>3. CASE posts'[i].at = "sent" /\ posts'[i].card \in Cards /\ posts'[i].loop \in 0 .. Len(loops')
    BY <2>3
  <2> QED
    BY <2>1, <2>2, <2>3
<1>2. ASSUME NEW i \in DOMAIN posts', NEW j \in DOMAIN posts', posts'[i].at = "done",
             posts'[j].at = "done", posts'[i].id = posts'[j].id
      PROVE  i = j
  BY <1>1, <1>2 DEF PostsSound
<1> QED
  BY <1>1, <1>2 DEF PostsSound

(* The list of cards loses some, or stays.                                 *)
LEMMA WithoutKeeps ==
  ASSUME UploadsOK, NEW c \in Cards, Without(c), UNCHANGED <<posts, loops, doubled, rows>>
  PROVE  UploadsOK'
<1> DEFINE K == {f \in Range(files) : f.card # c}
           fs == Kept(files, K)
<1>1. files \in Seq(File) /\ files' = fs
  BY DEF Without, UploadsOK
<1> HIDE DEF K
<1>2. fs \in Seq(File)
  BY <1>1, KeptTakes
<1>3. \A k \in DOMAIN fs : \E j \in DOMAIN files : fs[k] = files[j]
  BY <1>1, KeptHas
<1>4. \A k, l \in DOMAIN fs : k # l =>
        \E i, j \in DOMAIN files : i # j /\ fs[k] = files[i] /\ fs[l] = files[j]
  BY <1>1, KeptOnce
<1> HIDE DEF fs
<1>5. CardsDiffer(fs)
  BY <1>4 DEF CardsDiffer, UploadsOK, UploadsSound
<1>6. \A d : Offered(fs, d) => Offered(files, d)
  BY <1>3 DEF Offered
<1>7. \A d \in Cards \ doubled : Once(d, rows, posts, loops, fs)
  BY <1>6, FewerOffered DEF UploadsOK, UploadsSound
<1> QED
  BY <1>1, <1>2, <1>5, <1>7 DEF UploadsOK, UploadsSound, PostsSound

LEMMA EmptiedKeeps ==
  ASSUME UploadsOK, files' = <<>>, UNCHANGED <<posts, loops, doubled, rows>>
  PROVE  UploadsOK'
<1>1. <<>> \in Seq(File) /\ CardsDiffer(<<>>) /\ \A d : ~Offered(<<>>, d)
  BY DEF CardsDiffer, Offered
<1>2. \A d \in Cards \ doubled : Once(d, rows, posts, loops, <<>>)
  BY <1>1, FewerOffered DEF UploadsOK, UploadsSound
<1> QED
  BY <1>1, <1>2 DEF UploadsOK, UploadsSound, PostsSound

(* A card is picked that nothing stores.                                   *)
LEMMA PickKeeps ==
  ASSUME UploadsOK, NEW c \in Cards, Pick(c)
  PROVE  UploadsOK'
<1> DEFINE x == [card |-> c, st |-> "ready"]
           fs == Append(files, x)
<1>1. /\ x \in File /\ x.card = c /\ files \in Seq(File)
      /\ files' = fs /\ UNCHANGED <<posts, loops, doubled, rows>>
  BY DEF Pick, UploadsOK, uploads, server, File, States
<1>2. /\ ~HasPost(posts, c) /\ ~HasRow(rows, c)
      /\ \A i \in DOMAIN files : files[i].card # c
  <2>1. \A i \in DOMAIN files : files[i] \in File
    BY <1>1, Members
  <2>2. ~Is(c, {"ready", "up", "done", "err"})
    BY DEF Pick
  <2>3. \A i \in DOMAIN files : files[i].card # c
    BY <2>1, <2>2 DEF Is, File, States
  <2> QED
    BY <2>3 DEF Pick, HasPost, HasRow
<1> HIDE DEF x
<1>3. /\ fs \in Seq(File) /\ DOMAIN fs = (DOMAIN files) \cup {Len(files) + 1}
      /\ fs[Len(files) + 1] = x /\ \A i \in DOMAIN files : fs[i] = files[i]
  BY <1>1, Appended
<1> HIDE DEF fs
<1>4. CardsDiffer(fs)
  BY <1>1, <1>2, <1>3 DEF CardsDiffer, UploadsOK, UploadsSound
<1>5. \A d : Offered(fs, d) => Offered(files, d) \/ d = c
  BY <1>1, <1>3 DEF Offered
<1>6. \A d \in Cards \ doubled : Once(d, rows, posts, loops, fs)
  BY <1>2, <1>5 DEF UploadsOK, UploadsSound, Once
<1> QED
  BY <1>1, <1>3, <1>4, <1>6 DEF UploadsOK, UploadsSound, PostsSound

(* What Post does to the values it starts from.                            *)
LEMMA PostIs ==
  ASSUME NEW fs \in Seq(File), NEW ps \in Seq(Upload), NEW c \in Cards, NEW k \in Nat,
         Post(fs, ps, c, k), CardsDiffer(fs)
  PROVE  /\ posts' = Append(ps, Begun(c, k)) /\ files' = Marked(fs, c, "up")
         /\ posts' \in Seq(Upload) /\ files' \in Seq(File) /\ CardsDiffer(files')
         /\ \A i \in DOMAIN posts' : (i \in DOMAIN ps /\ posts'[i] = ps[i]) \/ posts'[i] = Begun(c, k)
         /\ \A i \in DOMAIN ps : i \in DOMAIN posts' /\ posts'[i] = ps[i]
<1>1. posts' = Append(ps, Begun(c, k)) /\ files' = Marked(fs, c, "up")
  BY DEF Post, Begun
<1>2. "up" \in States /\ Begun(c, k) \in Upload
  BY BegunIs DEF States
<1>3. files' \in Seq(File) /\ CardsDiffer(files')
  BY <1>1, <1>2, MarkedIs, MarkedDiffer
<1> QED
  BY <1>1, <1>2, <1>3, Appended

(* The button of a card stores one more of it, but is excused where a loop *)
(* still has the card.                                                     *)
LEMMA UploadOneKeeps ==
  ASSUME UploadsOK, NEW c \in Cards, UploadOne(c)
  PROVE  UploadsOK' /\ PostsCarry
<1>1. /\ Post(files, posts, c, 0) /\ Is(c, {"ready", "err"}) /\ UNCHANGED <<rows, loops>>
      /\ doubled' = IF IsQueued(c) THEN doubled \cup {c} ELSE doubled
      /\ files \in Seq(File) /\ posts \in Seq(Upload) /\ CardsDiffer(files)
      /\ PostsSound /\ Len(loops) \in Nat
  BY Members DEF UploadOne, UploadsOK, UploadsSound, server
<1>2. /\ posts' = Append(posts, Begun(c, 0)) /\ files' = Marked(files, c, "up")
      /\ posts' \in Seq(Upload) /\ files' \in Seq(File) /\ CardsDiffer(files')
      /\ \A i \in DOMAIN posts' : (i \in DOMAIN posts /\ posts'[i] = posts[i]) \/ posts'[i] = Begun(c, 0)
      /\ \A i \in DOMAIN posts : i \in DOMAIN posts' /\ posts'[i] = posts[i]
  BY <1>1, PostIs
<1>3. /\ Begun(c, 0) \in Upload /\ Begun(c, 0).card = c /\ Begun(c, 0).at = "sent"
      /\ Begun(c, 0).loop = 0
  BY BegunIs
<1>4. PostsSound'
  BY <1>1, <1>2, <1>3, PostsStay
<1>5. IsQueued(c) <=> HasPlace(loops, c)
  BY DEF IsQueued, HasPlace, Range
<1>6. Offered(files, c)
  BY <1>1 DEF Is, Offered
<1>7. ASSUME NEW d \in Cards \ doubled' PROVE Once(d, rows', posts', loops', files')
  <2>1. d \in Cards \ doubled /\ Once(d, rows, posts, loops, files)
    BY <1>1 DEF UploadsOK, UploadsSound
  <2>2. c = d => ~HasRow(rows, d) /\ ~HasPost(posts, d) /\ ~HasPlace(loops, d)
    BY <1>1, <1>5, <1>6, <1>7, <2>1 DEF Once
  <2> QED
    BY <1>1, <1>2, <1>3, <2>1, <2>2, OncePosted
<1>8. PostsCarry
  BY <1>2, <1>3 DEF PostsCarry
<1> QED
  BY <1>1, <1>2, <1>4, <1>7, <1>8 DEF UploadsOK, UploadsSound

(* The cards that "Upload All" takes: those that are ready, once each.     *)
LEMMA ToUploadIs ==
  ASSUME files \in Seq(File), CardsDiffer(files)
  PROVE  /\ ToUpload \in Seq(Cards)
         /\ \A i, j \in DOMAIN ToUpload : ToUpload[i] = ToUpload[j] => i = j
         /\ \A c : c \in Range(ToUpload) <=> Is(c, {"ready"})
<1> DEFINE K == {f \in Range(files) : f.st = "ready"}
           s == Kept(files, K)
<1>1. \A f : f \in K <=> f.st = "ready" /\ \E j \in DOMAIN files : files[j] = f
  BY DEF Range
<1> HIDE DEF K
<1>2. s \in Seq(File)
  BY KeptTakes
<1>3. /\ \A k \in DOMAIN s : \E j \in DOMAIN files : files[j] \in K /\ s[k] = files[j]
      /\ \A j \in DOMAIN files : files[j] \in K => \E k \in DOMAIN s : s[k] = files[j]
  BY KeptHas
<1>4. \A k, l \in DOMAIN s : k # l =>
        \E i, j \in DOMAIN files : i # j /\ s[k] = files[i] /\ s[l] = files[j]
  BY KeptOnce
<1>5. ToUpload = [i \in DOMAIN s |-> s[i].card]
  BY DEF ToUpload, K
<1> HIDE DEF s
<1>6. DOMAIN ToUpload = DOMAIN s /\ \A i \in DOMAIN s : ToUpload[i] = s[i].card
  BY <1>5
<1>7. ToUpload \in Seq(Cards)
  <2>0. \A i \in DOMAIN s : s[i] \in File
    BY <1>2, Members
  <2>1. \A i \in DOMAIN s : s[i].card \in Cards
    BY <2>0 DEF File
  <2> QED
    BY <1>2, <1>5, <1>6, <2>1, Mapped
<1>8. ASSUME NEW i \in DOMAIN ToUpload, NEW j \in DOMAIN ToUpload, ToUpload[i] = ToUpload[j], i # j
      PROVE  FALSE
  <2>1. PICK k, l \in DOMAIN files : k # l /\ s[i] = files[k] /\ s[j] = files[l]
    BY <1>4, <1>6, <1>8
  <2> QED
    BY <1>6, <1>8, <2>1 DEF CardsDiffer
<1>9. ASSUME NEW c PROVE c \in Range(ToUpload) <=> Is(c, {"ready"})
  <2>1. c \in Range(ToUpload) <=> \E i \in DOMAIN s : s[i].card = c
    BY <1>6 DEF Range
  <2>2. Is(c, {"ready"}) <=> \E j \in DOMAIN files : files[j].card = c /\ files[j] \in K
    BY <1>1 DEF Is
  <2> QED
    BY <1>3, <2>1, <2>2
<1> QED
  BY <1>7, <1>8, <1>9

(* A loop begins, and posts its first card.                                *)
LEMMA UploadAllKeeps ==
  ASSUME UploadsOK, UploadAll
  PROVE  UploadsOK' /\ PostsCarry
<1> DEFINE q == ToUpload
           k == Len(loops) + 1
           ls == Append(loops, q)
           d == Head(q)
<1>1. /\ Post(files, posts, d, k) /\ UNCHANGED rows
      /\ loops' = Append(loops, Tail(q))
      /\ doubled' = doubled \cup {c \in Range(q) : IsQueued(c)}
      /\ \E c \in Cards : Is(c, {"ready"})
      /\ files \in Seq(File) /\ posts \in Seq(Upload) /\ CardsDiffer(files)
      /\ PostsSound /\ loops \in Seq(Seq(Cards)) /\ doubled \subseteq Cards
  BY DEF UploadAll, UploadsOK, UploadsSound, server
<1>2. /\ q \in Seq(Cards) /\ \A i, j \in DOMAIN q : q[i] = q[j] => i = j
      /\ \A c : c \in Range(q) <=> Is(c, {"ready"})
  BY <1>1, ToUploadIs
<1> HIDE DEF q
<1>3. q # <<>> /\ d \in Cards /\ Tail(q) \in Seq(Cards) /\ k \in Nat
  <2>1. \E i \in DOMAIN q : TRUE
    BY <1>1, <1>2 DEF Range
  <2>2. q # <<>>
    BY <2>1
  <2> QED
    BY <1>1, <1>2, <2>2
<1>4. /\ ls \in Seq(Seq(Cards)) /\ k \in DOMAIN ls /\ ls[k] = q
      /\ loops' = [ls EXCEPT ![k] = Tail(@)]
      /\ loops' \in Seq(Seq(Cards)) /\ Len(loops') = Len(loops) + 1 /\ Len(loops) \in Nat
  <2>1. /\ Len(loops) \in Nat /\ Len(ls) = k /\ DOMAIN ls = 1 .. k /\ ls \in Seq(Seq(Cards))
        /\ ls[k] = q /\ \A l \in DOMAIN loops : ls[l] = loops[l]
    BY <1>1, <1>2, Appended, Members
  <2>2. /\ Len(loops') = k /\ loops' \in Seq(Seq(Cards))
        /\ loops'[k] = Tail(q) /\ \A l \in DOMAIN loops : loops'[l] = loops[l]
    BY <1>1, <1>3, Appended
  <2>3. k \in DOMAIN ls /\ DOMAIN loops = 1 .. Len(loops)
    BY <1>1, <2>1
  <2> DEFINE ms == [ls EXCEPT ![k] = Tail(q)]
  <2> HIDE DEF ls, q, k
  <2>4. /\ ms \in Seq(Seq(Cards)) /\ Len(ms) = k /\ ms[k] = Tail(q)
        /\ \A l \in DOMAIN ls : l # k => ms[l] = ls[l]
    BY <1>3, <2>1, <2>3, Replaced
  <2> HIDE DEF ms
  <2>5. \A l \in 1 .. k : ms[l] = loops'[l]
    <3> SUFFICES ASSUME NEW l \in 1 .. k PROVE ms[l] = loops'[l]
      OBVIOUS
    <3>1. CASE l = k
      BY <2>2, <2>4, <3>1
    <3>2. CASE l # k
      <4>1. l \in DOMAIN loops /\ l \in DOMAIN ls
        BY <2>1, <2>3, <3>2 DEF k
      <4> QED
        BY <2>1, <2>2, <2>4, <3>2, <4>1
    <3> QED
      BY <3>1, <3>2
  <2>6. ms = loops'
    BY <2>2, <2>4, <2>5, SeqEqual
  <2>7. ms = [ls EXCEPT ![k] = Tail(@)]
    BY <2>1 DEF ms
  <2>8. Len(loops') = Len(loops) + 1
    BY <2>2 DEF k
  <2> QED
    BY <2>1, <2>2, <2>3, <2>6, <2>7, <2>8
<1> HIDE DEF ls
<1>5. /\ posts' = Append(posts, Begun(d, k)) /\ files' = Marked(files, d, "up")
      /\ posts' \in Seq(Upload) /\ files' \in Seq(File) /\ CardsDiffer(files')
      /\ \A i \in DOMAIN posts' : (i \in DOMAIN posts /\ posts'[i] = posts[i]) \/ posts'[i] = Begun(d, k)
      /\ \A i \in DOMAIN posts : i \in DOMAIN posts' /\ posts'[i] = posts[i]
  BY <1>1, <1>3, PostIs
<1>6. /\ Begun(d, k) \in Upload /\ Begun(d, k).card = d /\ Begun(d, k).at = "sent"
      /\ Begun(d, k).loop = k
  BY <1>3, BegunIs
<1> HIDE DEF d
<1>7. PostsSound'
  <2>1. k \in 0 .. Len(loops') /\ Len(loops') >= Len(loops) /\ Len(loops') \in Nat
    BY <1>4
  <2> HIDE DEF k
  <2> QED
    BY <1>1, <1>3, <1>4, <1>5, <1>6, <2>1, PostsStay
<1> HIDE DEF k
<1>8. \A c : IsQueued(c) <=> HasPlace(loops, c)
  BY DEF IsQueued, HasPlace, Range
<1>9. ASSUME NEW c \in Cards \ doubled' PROVE Once(c, rows', posts', loops', files')
  <2>1. c \in Cards \ doubled /\ Once(c, rows, posts, loops, files)
    BY <1>1 DEF UploadsOK, UploadsSound
  <2>2. c \in Range(q) => ~HasRow(rows, c) /\ ~HasPost(posts, c) /\ ~HasPlace(loops, c)
    <3>1. Is(c, {"ready"}) => Offered(files, c)
      BY DEF Is, Offered
    <3> QED
      BY <1>1, <1>2, <1>8, <1>9, <2>1, <3>1 DEF Once
  <2>3. Once(c, rows, posts, ls, files)
    <3>1. \A i, j \in DOMAIN q : q[i] = c /\ q[j] = c => i = j
      BY <1>2
    <3> QED
      BY <1>1, <1>2, <2>1, <2>2, <3>1, OncePlaced DEF ls
  <2>4. /\ Once(c, rows, posts, loops', files)
        /\ d = c => ~HasRow(rows, c) /\ ~HasPost(posts, c) /\ ~HasPlace(loops', c)
    BY <1>3, <1>4, <2>3, OnceTaken DEF d
  <2> QED
    BY <1>1, <1>3, <1>5, <1>6, <2>4, OncePosted
<1>10. doubled' \subseteq Cards
  BY <1>1, <1>2, Members DEF Range
<1>11. PostsCarry
  BY <1>5, <1>6 DEF PostsCarry
<1> QED
  BY <1>1, <1>4, <1>5, <1>7, <1>9, <1>10, <1>11 DEF UploadsOK, UploadsSound


(* A step that leaves the uploads alone, and the cards of the rows.        *)
LEMMA UploadsStay ==
  ASSUME UploadsOK, UNCHANGED <<files, posts, loops, doubled>>, rows' \in Seq(Row),
         DOMAIN rows' = DOMAIN rows, \A m \in DOMAIN rows : rows'[m].card = rows[m].card
  PROVE  UploadsOK'
<1>1. PostsSound'
  BY DEF UploadsOK, PostsSound
<1>2. \A c : (OneRow(rows', c) <=> OneRow(rows, c)) /\ (HasRow(rows', c) <=> HasRow(rows, c))
  BY DEF OneRow, HasRow
<1>3. \A c \in Cards \ doubled' : Once(c, rows', posts', loops', files')
  BY <1>2 DEF UploadsOK, UploadsSound, Once
<1> QED
  BY <1>1, <1>3 DEF UploadsOK, UploadsSound

(* The API stores the row of a post.                                       *)
Stored(i) == [posts[i] EXCEPT !.at = "done", !.id = Len(rows) + 1]
NewRow(c) == [card |-> c, text |-> Pristine, gone |-> FALSE]

LEMMA StoreIs ==
  ASSUME UploadsOK, NEW i \in DOMAIN posts, StoreUpload(i)
  PROVE  /\ posts[i].at = "sent" /\ posts[i].card \in Cards /\ posts[i].loop \in 0 .. Len(loops)
         /\ Stored(i) \in Upload /\ Stored(i).card = posts[i].card /\ Stored(i).loop = posts[i].loop
         /\ Stored(i).at = "done" /\ Stored(i).id = Len(rows) + 1
         /\ NewRow(posts[i].card) \in Row /\ NewRow(posts[i].card).card = posts[i].card
         /\ NewRow(posts[i].card).text = Pristine /\ ~NewRow(posts[i].card).gone
         /\ rows' = Append(rows, NewRow(posts[i].card))
         /\ posts' = [posts EXCEPT ![i] = Stored(i)]
         /\ Len(rows) \in Nat /\ DOMAIN rows = 1 .. Len(rows)
         /\ rows' \in Seq(Row) /\ DOMAIN rows' = (DOMAIN rows) \cup {Len(rows) + 1}
         /\ rows'[Len(rows) + 1] = NewRow(posts[i].card)
         /\ \A m \in DOMAIN rows : rows'[m] = rows[m]
         /\ posts' \in Seq(Upload) /\ DOMAIN posts' = DOMAIN posts /\ posts'[i] = Stored(i)
         /\ \A j \in DOMAIN posts : j # i => posts'[j] = posts[j]
<1> DEFINE x == Stored(i)
           y == NewRow(posts[i].card)
<1>1. /\ posts \in Seq(Upload) /\ rows \in Seq(Row) /\ PostsSound /\ posts[i].at = "sent"
      /\ rows' = Append(rows, y) /\ posts' = [posts EXCEPT ![i] = x]
  BY DEF StoreUpload, UploadsOK, Stored, NewRow
<1>2. posts[i] \in Upload /\ Len(rows) \in Nat /\ DOMAIN rows = 1 .. Len(rows)
  BY <1>1, Members
<1>3. posts[i].card \in Cards /\ posts[i].loop \in 0 .. Len(loops)
  BY <1>1 DEF PostsSound, Pending
<1>4. /\ x \in Upload /\ x.card = posts[i].card /\ x.loop = posts[i].loop
      /\ x.at = "done" /\ x.id = Len(rows) + 1
  <2>1. Len(rows) + 1 \in Nat
    BY <1>2
  <2> QED
    BY <1>2, <2>1 DEF Stored, Upload
<1>5. y \in Row /\ y.card = posts[i].card /\ y.text = Pristine /\ ~y.gone
  BY <1>3 DEF NewRow, Row, Text
<1> HIDE DEF x, y
<1>6. /\ rows' \in Seq(Row) /\ DOMAIN rows' = (DOMAIN rows) \cup {Len(rows) + 1}
      /\ rows'[Len(rows) + 1] = y /\ \A m \in DOMAIN rows : rows'[m] = rows[m]
  BY <1>1, <1>5, Appended
<1>7. /\ posts' \in Seq(Upload) /\ DOMAIN posts' = DOMAIN posts /\ posts'[i] = x
      /\ \A j \in DOMAIN posts : j # i => posts'[j] = posts[j]
  BY <1>1, <1>4, Replaced
<1> QED
  BY <1>1, <1>2, <1>3, <1>4, <1>5, <1>6, <1>7 DEF x, y

LEMMA StoreUploadKeeps ==
  ASSUME UploadsOK, NEW i \in DOMAIN posts, StoreUpload(i)
  PROVE  UploadsOK'
<1> DEFINE x == Stored(i)
           y == NewRow(posts[i].card)
<1>1. /\ posts[i].at = "sent" /\ posts[i].card \in Cards /\ posts[i].loop \in 0 .. Len(loops)
      /\ x \in Upload /\ x.card = posts[i].card /\ x.loop = posts[i].loop
      /\ x.at = "done" /\ x.id = Len(rows) + 1 /\ y \in Row /\ y.card = posts[i].card
      /\ rows' = Append(rows, y) /\ posts' = [posts EXCEPT ![i] = x]
      /\ Len(rows) \in Nat /\ DOMAIN rows = 1 .. Len(rows)
      /\ rows' \in Seq(Row) /\ DOMAIN rows' = (DOMAIN rows) \cup {Len(rows) + 1}
      /\ rows'[Len(rows) + 1] = y /\ \A m \in DOMAIN rows : rows'[m] = rows[m]
      /\ posts' \in Seq(Upload) /\ DOMAIN posts' = DOMAIN posts /\ posts'[i] = x
      /\ \A j \in DOMAIN posts : j # i => posts'[j] = posts[j]
  BY StoreIs
<1>2. UNCHANGED <<files, loops, doubled>> /\ posts \in Seq(Upload) /\ rows \in Seq(Row) /\ PostsSound
  BY DEF StoreUpload, UploadsOK
<1> HIDE DEF x, y
<1>3. PostsSound'
  <2>1. ASSUME NEW j \in DOMAIN posts'
        PROVE  /\ Pending(posts'[j]) => posts'[j].card \in Cards /\ posts'[j].loop \in 0 .. Len(loops')
               /\ posts'[j].at = "done" => /\ posts'[j].id \in DOMAIN rows'
                                           /\ rows'[posts'[j].id].card = posts'[j].card
    <3>1. CASE j = i
      BY <1>1, <1>2, <3>1
    <3>2. CASE j # i
      BY <1>1, <1>2, <3>2 DEF PostsSound
    <3> QED
      BY <3>1, <3>2
  <2>2. ASSUME NEW j \in DOMAIN posts', NEW k \in DOMAIN posts', posts'[j].at = "done",
               posts'[k].at = "done", posts'[j].id = posts'[k].id
        PROVE  j = k
    <3>1. \A l \in DOMAIN posts : posts[l].at = "done" => posts[l].id # Len(rows) + 1
      BY <1>1, <1>2 DEF PostsSound
    <3> QED
      BY <1>1, <1>2, <2>2, <3>1 DEF PostsSound
  <2> QED
    BY <2>1, <2>2 DEF PostsSound
<1>4. ASSUME NEW c \in Cards \ doubled' PROVE Once(c, rows', posts', loops', files')
  <2>1. Once(c, rows, posts, loops, files)
    BY <1>2, <1>4 DEF UploadsOK, UploadsSound
  <2> QED
    BY <1>1, <1>2, <2>1, OnceStored
<1> QED
  BY <1>1, <1>2, <1>3, <1>4 DEF UploadsOK, UploadsSound

(* A post ends, and the next of its loop begins.                           *)
Answers(i) ==
  /\ \A j \in DOMAIN posts' : posts'[j].at = "done" => j \in DOMAIN posts /\ j # i /\ posts'[j] = posts[j]
  /\ \A j \in DOMAIN posts : j # i => j \in DOMAIN posts' /\ posts'[j] = posts[j]

LEMMA GoOnKeeps ==
  ASSUME UploadsOK, NEW i \in DOMAIN posts, Pending(posts[i]), NEW st \in {"done", "err"},
         GoOn(i, st), rows' = rows, doubled \subseteq doubled', doubled' \subseteq Cards,
         st = "err" /\ posts[i].at = "done" => posts[i].card \in doubled'
  PROVE  UploadsOK' /\ Answers(i)
<1> DEFINE d == posts[i].card
           k == posts[i].loop
           over == [posts EXCEPT ![i] = Ended]
           fs == Marked(files, d, st)
<1>1. /\ files \in Seq(File) /\ posts \in Seq(Upload) /\ loops \in Seq(Seq(Cards))
      /\ PostsSound /\ CardsDiffer(files) /\ Len(loops) \in Nat /\ DOMAIN loops = 1 .. Len(loops)
  BY Members DEF UploadsOK, UploadsSound
<1>2. d \in Cards /\ k \in 0 .. Len(loops) /\ st \in States
  BY <1>1 DEF PostsSound, States
<1>3. posts[i].at \in {"sent", "done"}
  <2>1. posts[i] \in Upload
    BY <1>1, Members
  <2> QED
    BY <2>1 DEF Upload, Pending
<1>4. /\ over \in Seq(Upload) /\ DOMAIN over = DOMAIN posts /\ over[i] = Ended
      /\ \A j \in DOMAIN posts : j # i => over[j] = posts[j]
      /\ Ended \in Upload /\ Ended.at = "over"
  BY <1>1, EndedIs, Replaced
<1>5. fs \in Seq(File) /\ CardsDiffer(fs)
  <2> HIDE DEF d
  <2> QED
    BY <1>1, <1>2, MarkedIs, MarkedDiffer
<1>6. ASSUME NEW c \in Cards \ doubled' PROVE Once(c, rows, over, loops, fs)
  <2>1. Once(c, rows, posts, loops, files)
    BY <1>6 DEF UploadsOK, UploadsSound
  <2>2. posts[i].card = c /\ st = "err" => posts[i].at = "sent"
    BY <1>3, <1>6
  <2> QED
    BY <1>1, <1>2, <1>4, <2>1, <2>2, OnceEnded
<1>7. CASE k = 0 \/ loops[k] = <<>>
  <2>1. posts' = over /\ files' = fs /\ loops' = loops
    BY <1>7 DEF GoOn, Ended
  <2> HIDE DEF over, fs, d, k
  <2>2. Answers(i)
    BY <1>4, <2>1 DEF Answers
  <2>3. PostsSound'
    <3>1. \A j \in DOMAIN posts' : (j \in DOMAIN posts /\ posts'[j] = posts[j]) \/ posts'[j].at = "over"
      BY <1>4, <2>1
    <3> QED
      BY <1>1, <2>1, <3>1, PostsStay
  <2>4. \A c \in Cards \ doubled' : Once(c, rows', posts', loops', files')
    BY <1>6, <2>1
  <2> QED
    BY <1>1, <1>4, <1>5, <2>1, <2>2, <2>3, <2>4 DEF UploadsOK, UploadsSound
<1>8. CASE ~(k = 0 \/ loops[k] = <<>>)
  <2> DEFINE e == Head(loops[k])
             ls == [loops EXCEPT ![k] = Tail(@)]
  <2>1. Post(fs, over, e, k) /\ loops' = ls
    BY <1>8 DEF GoOn, Ended
  <2> HIDE DEF over, fs, d
  <2>2. k \in DOMAIN loops /\ k \in Nat /\ loops[k] \in Seq(Cards) /\ loops[k] # <<>>
    BY <1>1, <1>2, <1>8, Members
  <2>3. e \in Cards /\ Tail(loops[k]) \in Seq(Cards)
    BY <2>2
  <2>4. ls \in Seq(Seq(Cards)) /\ Len(ls) = Len(loops)
    BY <1>1, <2>2, <2>3, Replaced
  <2>5. ASSUME NEW c \in Cards \ doubled'
        PROVE  /\ Once(c, rows, over, ls, fs)
               /\ e = c => ~HasRow(rows, c) /\ ~HasPost(over, c) /\ ~HasPlace(ls, c)
    BY <1>1, <1>6, <2>2, <2>5, OnceTaken
  <2> HIDE DEF e, ls, k
  <2>6. /\ posts' = Append(over, Begun(e, k)) /\ files' = Marked(fs, e, "up")
        /\ posts' \in Seq(Upload) /\ files' \in Seq(File) /\ CardsDiffer(files')
        /\ \A j \in DOMAIN posts' : (j \in DOMAIN over /\ posts'[j] = over[j]) \/ posts'[j] = Begun(e, k)
    BY <1>4, <1>5, <2>1, <2>2, <2>3, PostIs
  <2>7. /\ Begun(e, k) \in Upload /\ Begun(e, k).card = e /\ Begun(e, k).at = "sent"
        /\ Begun(e, k).loop = k
    BY <2>2, <2>3, BegunIs
  <2>8. \A j \in DOMAIN over : j \in DOMAIN posts' /\ posts'[j] = over[j]
    BY <1>4, <2>6, <2>7, Appended
  <2>9. Answers(i)
    BY <1>4, <2>6, <2>7, <2>8 DEF Answers
  <2>10. PostsSound'
    <3>1. \A j \in DOMAIN posts' :
            \/ j \in DOMAIN posts /\ posts'[j] = posts[j]
            \/ posts'[j].at = "over"
            \/ posts'[j].at = "sent" /\ posts'[j].card \in Cards /\ posts'[j].loop \in 0 .. Len(loops')
      BY <1>2, <1>4, <2>1, <2>3, <2>4, <2>6, <2>7
    <3> QED
      BY <1>1, <2>1, <2>4, <3>1, PostsStay
  <2>11. ASSUME NEW c \in Cards \ doubled' PROVE Once(c, rows', posts', loops', files')
    BY <1>4, <1>5, <2>1, <2>3, <2>5, <2>6, <2>7, <2>11, OncePosted
  <2> QED
    BY <2>1, <2>4, <2>6, <2>9, <2>10, <2>11 DEF UploadsOK, UploadsSound
<1> QED
  BY <1>7, <1>8

LEMMA UploadAnsweredKeeps ==
  ASSUME UploadsOK, NEW i \in DOMAIN posts, UploadAnswered(i)
  PROVE  UploadsOK' /\ Answers(i)
<1>1. /\ Pending(posts[i]) /\ GoOn(i, "done") /\ rows' = rows /\ doubled' = doubled
  BY DEF UploadAnswered, Pending, server
<1> QED
  BY <1>1, GoOnKeeps DEF UploadsOK

LEMMA UploadFailsKeeps ==
  ASSUME UploadsOK, NEW i \in DOMAIN posts, UploadFails(i)
  PROVE  UploadsOK' /\ Answers(i)
<1>1. /\ Pending(posts[i]) /\ GoOn(i, "err") /\ rows' = rows
      /\ doubled' = IF posts[i].at = "done" THEN doubled \cup {posts[i].card} ELSE doubled
  BY DEF UploadFails
<1>2. posts[i].card \in Cards /\ doubled \subseteq Cards
  BY <1>1 DEF UploadsOK, PostsSound
<1>3. doubled \subseteq doubled' /\ doubled' \subseteq Cards
      /\ (posts[i].at = "done" => posts[i].card \in doubled')
  BY <1>1, <1>2
<1> QED
  BY <1>1, <1>3, GoOnKeeps

(* A card with one row at most is stored once.                             *)
LEMMA OneRowIsOnce ==
  ASSUME NEW c, OneRow(rows, c)
  PROVE  Cardinality({m \in DOMAIN rows : rows[m].card = c}) <= 1
<1> DEFINE S == {m \in DOMAIN rows : rows[m].card = c}
<1>1. CASE S = {}
  BY <1>1, FS_EmptySet
<1>2. CASE S # {}
  <2>1. PICK m : m \in S
    BY <1>2
  <2>2. S = {m}
    BY <2>1 DEF OneRow
  <2>3. Cardinality({m}) = 1
    BY FS_Singleton
  <2> QED
    BY <2>2, <2>3
<1> QED
  BY <1>1, <1>2
-----------------------------------------------------------------------------
(* What the steps do to the loads, the requests, the list and the rows.    *)

LEMMA LiteralsAre ==
  /\ Pristine \in Text /\ Elsewhere \in Text /\ Texts \subseteq Text
  /\ Nothing \in Item /\ Nothing.id = 0
BY DEF Text, Nothing, Item

LEMMA OutdateIs ==
  ASSUME loads \in Seq(Load), Outdate
  PROVE  /\ loads' \in Seq(Load) /\ DOMAIN loads' = DOMAIN loads
         /\ \A l \in DOMAIN loads :
              /\ loads'[l].at = loads[l].at /\ loads'[l].snap = loads[l].snap
              /\ loads[l].at = "read" => loads'[l].stale
<1>1. \A l \in DOMAIN loads : loads[l] \in Load
  BY Members
<1>2. /\ loads' = [l \in DOMAIN loads |-> loads'[l]]
      /\ \A l \in DOMAIN loads : loads'[l] = IF loads[l].at = "read" THEN [loads[l] EXCEPT !.stale = TRUE]
                                             ELSE loads[l]
  BY DEF Outdate
<1>3. \A l \in DOMAIN loads :
        /\ loads'[l] \in Load /\ loads'[l].at = loads[l].at /\ loads'[l].snap = loads[l].snap
        /\ loads[l].at = "read" => loads'[l].stale
  BY <1>1, <1>2 DEF Load
<1>4. loads' \in Seq(Load) /\ DOMAIN loads' = DOMAIN loads
  BY <1>2, <1>3, Mapped
<1> QED
  BY <1>3, <1>4

(* A load begins.                                                          *)
LEMMA StartLoadIs ==
  ASSUME loads \in Seq(Load), StartLoad
  PROVE  /\ loads' \in Seq(Load)
         /\ \A l \in DOMAIN loads' :
              (l \in DOMAIN loads /\ loads'[l] = loads[l]) \/ (loads'[l].at = "sent" /\ loads'[l].snap = <<>>)
<1> DEFINE x == [at |-> "sent", snap |-> <<>>, stale |-> FALSE]
<1>1. x \in Load /\ x.at = "sent" /\ x.snap = <<>>
  <2>1. <<>> \in Seq(Item)
    OBVIOUS
  <2> QED
    BY <2>1 DEF Load
<1>2. loads' = Append(loads, x)
  BY DEF StartLoad
<1> HIDE DEF x
<1> QED
  BY <1>1, <1>2, Appended

LEMMA EndLoadIs ==
  ASSUME loads \in Seq(Load), NEW l \in DOMAIN loads, EndLoad(l)
  PROVE  /\ loads' \in Seq(Load) /\ DOMAIN loads' = DOMAIN loads
         /\ loads'[l].at = "over" /\ loads'[l].snap = <<>>
         /\ \A k \in DOMAIN loads : k # l => loads'[k] = loads[k]
<1> DEFINE x == [at |-> "over", snap |-> <<>>, stale |-> FALSE]
<1>1. x \in Load /\ x.at = "over" /\ x.snap = <<>>
  <2>1. <<>> \in Seq(Item)
    OBVIOUS
  <2> QED
    BY <2>1 DEF Load
<1>2. loads' = [loads EXCEPT ![l] = x]
  BY DEF EndLoad
<1> HIDE DEF x
<1> QED
  BY <1>1, <1>2, Replaced

(* The rows that are there, once each.                                     *)
Lists(s) ==
  /\ s \in Seq(Item)
  /\ \A i \in DOMAIN s : /\ s[i].id \in DOMAIN rows /\ ~rows[s[i].id].gone
                         /\ s[i].text = rows[s[i].id].text
  /\ \A i, j \in DOMAIN s : s[i].id = s[j].id => i = j
  /\ \A m \in DOMAIN rows : ~rows[m].gone => \E i \in DOMAIN s : s[i].id = m

LEMMA ListedIs ==
  ASSUME rows \in Seq(Row)
  PROVE  Lists(Listed)
<1> DEFINE N == Len(rows)
           ids == [m \in DOMAIN rows |-> m]
           back == Reverse(ids)
           K == {m \in DOMAIN rows : ~rows[m].gone}
           live == Kept(back, K)
<1>1. N \in Nat /\ DOMAIN rows = 1 .. N /\ \A m \in DOMAIN rows : rows[m] \in Row
  BY Members
<1>2. ids \in Seq(Nat) /\ Len(ids) = N /\ \A m \in 1 .. N : ids[m] = m
  <2>1. ids = [m \in 1 .. N |-> m]
    BY <1>1
  <2> QED
    BY <1>1, <2>1
<1>3. back \in Seq(Nat) /\ DOMAIN back = 1 .. N /\ \A m \in 1 .. N : back[m] = N - m + 1
  <2>1. back = [m \in 1 .. N |-> ids[N - m + 1]]
    BY <1>2 DEF Reverse
  <2>2. \A m \in 1 .. N : N - m + 1 \in 1 .. N
    BY <1>1
  <2> HIDE DEF back, ids
  <2>3. \A m \in 1 .. N : back[m] = N - m + 1 /\ back[m] \in Nat
    BY <1>1, <1>2, <2>1, <2>2
  <2> QED
    BY <1>1, <2>1, <2>3
<1> HIDE DEF ids, back, N, K
<1> DEFINE Ids == Nat
<1>0. back \in Seq(Ids)
  BY <1>3
<1> HIDE DEF Ids
<1>4. live \in Seq(Ids)
  BY <1>0, KeptTakes
<1>5. /\ \A k \in DOMAIN live : \E j \in DOMAIN back : back[j] \in K /\ live[k] = back[j]
      /\ \A j \in DOMAIN back : back[j] \in K => \E k \in DOMAIN live : live[k] = back[j]
  <2> HIDE DEF live
  <2>1. /\ \A k \in DOMAIN Kept(back, K) : \E j \in DOMAIN back : back[j] \in K /\ Kept(back, K)[k] = back[j]
        /\ \A j \in DOMAIN back : back[j] \in K => \E k \in DOMAIN Kept(back, K) : Kept(back, K)[k] = back[j]
    BY ONLY <1>0, KeptHas
  <2> QED
    BY <2>1 DEF live
<1>6. \A k, l \in DOMAIN live : k # l =>
        \E i, j \in DOMAIN back : i # j /\ live[k] = back[i] /\ live[l] = back[j]
  BY <1>0, KeptOnce
<1>7. Listed = [i \in DOMAIN live |-> Entry(live[i])]
  BY DEF Listed, live, back, K, ids
<1> HIDE DEF live
<1>8. \A k \in DOMAIN live : live[k] \in K
  BY <1>5
<1>9. \A k, l \in DOMAIN live : live[k] = live[l] => k = l
  <2> SUFFICES ASSUME NEW k \in DOMAIN live, NEW l \in DOMAIN live, live[k] = live[l], k # l PROVE FALSE
    OBVIOUS
  <2>1. PICK i, j \in DOMAIN back : i # j /\ live[k] = back[i] /\ live[l] = back[j]
    BY <1>6
  <2>2. /\ i \in Int /\ j \in Int /\ N \in Int
        /\ back[i] = N - i + 1 /\ back[j] = N - j + 1
    BY <1>1, <1>3
  <2>3. back[i] = back[j]
    BY <2>1
  <2> QED
    BY <2>1, <2>2, <2>3
<1>10. \A m \in K : \E k \in DOMAIN live : live[k] = m
  <2> SUFFICES ASSUME NEW m \in K PROVE \E k \in DOMAIN live : live[k] = m
    OBVIOUS
  <2>1. N - m + 1 \in DOMAIN back /\ back[N - m + 1] = m
    BY <1>1, <1>3 DEF K
  <2> QED
    BY <1>5, <2>1
<1>11. \A k \in DOMAIN live : /\ Listed[k] \in Item /\ Listed[k].id = live[k]
                              /\ Listed[k].text = rows[live[k]].text
  <2> SUFFICES ASSUME NEW k \in DOMAIN live
               PROVE  /\ Listed[k] \in Item /\ Listed[k].id = live[k]
                      /\ Listed[k].text = rows[live[k]].text
    OBVIOUS
  <2>1. Listed[k] = [id |-> live[k], text |-> rows[live[k]].text]
    BY <1>7 DEF Entry
  <2>2. live[k] \in Nat /\ rows[live[k]] \in Row
    BY <1>1, <1>8 DEF K
  <2> QED
    BY <2>1, <2>2 DEF Item, Row
<1>12. Listed \in Seq(Item) /\ DOMAIN Listed = DOMAIN live
  <2>1. Listed = [i \in DOMAIN live |-> Listed[i]]
    BY <1>7
  <2> QED
    BY <1>4, <1>11, <2>1, Mapped
<1> QED
  BY <1>8, <1>9, <1>10, <1>11, <1>12 DEF Lists, K

(* What a request asks for, and how far it is.                             *)
Same(d, e) == d.op = e.op /\ d.id = e.id /\ d.text = e.text /\ d.at = e.at

LEMMA SameIs ==
  ASSUME NEW d, NEW e, Same(d, e)
  PROVE  d.op = e.op /\ d.id = e.id /\ d.text = e.text /\ d.at = e.at /\ (Pending(d) <=> Pending(e))
BY DEF Same, Pending

LEMMA EndCallIs ==
  ASSUME calls \in Seq(Request), NEW c \in DOMAIN calls, EndCall(c)
  PROVE  /\ calls' \in Seq(Request) /\ DOMAIN calls' = DOMAIN calls
         /\ calls'[c].at = "over" /\ ~Pending(calls'[c])
         /\ \A d \in DOMAIN calls : d # c => calls'[d] = calls[d]
<1> DEFINE x == [op |-> "save", id |-> 0, text |-> Pristine, at |-> "over", own |-> FALSE, from |-> "user"]
<1>1. x \in Request /\ x.at = "over" /\ ~Pending(x)
  BY LiteralsAre DEF Request, Sources, Pending
<1>2. calls' = [calls EXCEPT ![c] = x]
  BY DEF EndCall
<1> HIDE DEF x
<1> QED
  BY <1>1, <1>2, Replaced

LEMMA CommittedIs ==
  ASSUME calls \in Seq(Request), NEW c \in DOMAIN calls, calls' = [calls EXCEPT ![c].at = "done"]
  PROVE  /\ calls' \in Seq(Request) /\ DOMAIN calls' = DOMAIN calls
         /\ calls'[c].at = "done" /\ calls'[c].op = calls[c].op /\ calls'[c].id = calls[c].id
         /\ calls'[c].text = calls[c].text /\ calls'[c].own = calls[c].own
         /\ calls'[c].from = calls[c].from
         /\ \A d \in DOMAIN calls : d # c => calls'[d] = calls[d]
<1> DEFINE x == [calls[c] EXCEPT !.at = "done"]
<1>1. calls[c] \in Request
  BY Members
<1>2. /\ x \in Request /\ x.at = "done" /\ x.op = calls[c].op /\ x.id = calls[c].id
      /\ x.text = calls[c].text /\ x.own = calls[c].own /\ x.from = calls[c].from
  BY <1>1 DEF Request
<1>3. calls' = [calls EXCEPT ![c] = x]
  OBVIOUS
<1> HIDE DEF x
<1> QED
  BY <1>2, <1>3, Replaced

Disowned == [c \in DOMAIN calls |-> [calls[c] EXCEPT !.own = FALSE]]

LEMMA DisownedIs ==
  ASSUME calls \in Seq(Request), calls' = Disowned
  PROVE  /\ calls' \in Seq(Request) /\ DOMAIN calls' = DOMAIN calls
         /\ \A c \in DOMAIN calls : /\ Same(calls'[c], calls[c]) /\ ~calls'[c].own
                                    /\ calls'[c].from = calls[c].from
<1>1. \A c \in DOMAIN calls : calls[c] \in Request
  BY Members
<1>2. /\ calls' = [c \in DOMAIN calls |-> calls'[c]]
      /\ \A c \in DOMAIN calls : calls'[c] = [calls[c] EXCEPT !.own = FALSE]
  BY DEF Disowned
<1>3. \A c \in DOMAIN calls :
        /\ calls'[c] \in Request /\ Same(calls'[c], calls[c]) /\ ~calls'[c].own
        /\ calls'[c].from = calls[c].from
  <2> SUFFICES ASSUME NEW c \in DOMAIN calls
               PROVE  /\ calls'[c] \in Request /\ Same(calls'[c], calls[c]) /\ ~calls'[c].own
                      /\ calls'[c].from = calls[c].from
    OBVIOUS
  <2> DEFINE x == calls[c]
             y == calls'[c]
  <2>1. x \in Request /\ y = [x EXCEPT !.own = FALSE]
    BY <1>1, <1>2
  <2> HIDE DEF x, y
  <2>2. y \in Request /\ y.op = x.op /\ y.id = x.id /\ y.text = x.text /\ y.at = x.at
        /\ ~y.own /\ y.from = x.from
    BY <2>1 DEF Request
  <2> QED
    BY <2>2 DEF Same, x, y
<1>4. calls' \in Seq(Request) /\ DOMAIN calls' = DOMAIN calls
  BY <1>2, <1>3, Mapped
<1> QED
  BY <1>3, <1>4

LEMMA OvertakenIs ==
  ASSUME calls \in Seq(Request)
  PROVE  /\ Overtaken(calls) \in Seq(Request) /\ DOMAIN Overtaken(calls) = DOMAIN calls
         /\ Len(Overtaken(calls)) = Len(calls)
         /\ \A c \in DOMAIN calls :
              /\ Same(Overtaken(calls)[c], calls[c]) /\ Overtaken(calls)[c].own = calls[c].own
              /\ Overtaken(calls)[c].from # "open"
<1> DEFINE ds == Overtaken(calls)
<1>1. \A c \in DOMAIN calls : calls[c] \in Request
  BY Members
<1>2. /\ ds = [c \in DOMAIN calls |-> ds[c]]
      /\ \A c \in DOMAIN calls :
           ds[c] = [calls[c] EXCEPT !.from = IF calls[c].from = "user" THEN calls[c].from ELSE "outdated"]
  BY DEF Overtaken
<1> HIDE DEF ds
<1>3. \A c \in DOMAIN calls :
        /\ ds[c] \in Request /\ Same(ds[c], calls[c]) /\ ds[c].own = calls[c].own
        /\ ds[c].from # "open"
  BY <1>1, <1>2 DEF Request, Same, Sources
<1>4. ds \in Seq(Request) /\ DOMAIN ds = DOMAIN calls /\ Len(ds) = Len(calls)
  BY <1>2, <1>3, Mapped
<1> QED
  BY <1>3, <1>4 DEF ds

(* The request that the modal sends.                                       *)
Asked(op) ==
  [op |-> op, id |-> shown.id, text |-> form.text, at |-> "sent", own |-> TRUE,
   from |-> IF form.typed THEN "user" ELSE form.from]

LEMMA CallIs ==
  ASSUME calls \in Seq(Request), shown \in Item, form \in Form, NEW op \in {"save", "delete"}, Call(op)
  PROVE  /\ calls' \in Seq(Request)
         /\ DOMAIN calls' = (DOMAIN calls) \cup {Len(calls) + 1} /\ Len(calls) + 1 \notin DOMAIN calls
         /\ \A c \in DOMAIN calls :
              /\ Same(calls'[c], calls[c]) /\ calls'[c].own = calls[c].own /\ calls'[c].from # "open"
         /\ calls'[Len(calls) + 1] = Asked(op)
         /\ Asked(op).id = shown.id /\ Asked(op).text = form.text /\ Asked(op).at = "sent"
         /\ Asked(op).op = op /\ Asked(op).own /\ Pending(Asked(op))
         /\ Asked(op).from = IF form.typed THEN "user" ELSE form.from
         /\ form' \in Form /\ form'.busy /\ form'.text = form.text /\ form'.typed = form.typed
         /\ form'.from = form.from /\ ~form.busy /\ shown' = shown /\ shown # Nothing
<1>1. /\ Asked(op) \in Request /\ Asked(op).id = shown.id /\ Asked(op).text = form.text
      /\ Asked(op).at = "sent" /\ Asked(op).op = op /\ Asked(op).own /\ Pending(Asked(op))
      /\ Asked(op).from = IF form.typed THEN "user" ELSE form.from
  BY DEF Asked, Item, Form, Request, Sources, Pending
<1>2. calls' = Append(Overtaken(calls), Asked(op))
  BY DEF Call, Asked
<1> DEFINE ds == Overtaken(calls)
<1>3. /\ ds \in Seq(Request) /\ DOMAIN ds = DOMAIN calls /\ Len(ds) = Len(calls)
      /\ \A c \in DOMAIN calls :
           Same(ds[c], calls[c]) /\ ds[c].own = calls[c].own /\ ds[c].from # "open"
  BY OvertakenIs
<1> HIDE DEF ds
<1>4. /\ calls' \in Seq(Request) /\ DOMAIN calls' = (DOMAIN ds) \cup {Len(ds) + 1}
      /\ Len(ds) + 1 \notin DOMAIN ds /\ calls'[Len(ds) + 1] = Asked(op)
      /\ \A c \in DOMAIN ds : calls'[c] = ds[c]
  BY <1>1, <1>2, <1>3, Appended DEF ds
<1>5. /\ form' \in Form /\ form'.busy /\ form'.text = form.text /\ form'.typed = form.typed
      /\ form'.from = form.from /\ ~form.busy /\ shown' = shown /\ shown # Nothing
  BY DEF Call, Form, IsOpen
<1> QED
  BY <1>1, <1>3, <1>4, <1>5

-----------------------------------------------------------------------------
(* The list.                                                               *)

Rewritten(n, t) ==
  [i \in DOMAIN list |-> IF list[i].id # n THEN list[i] ELSE [list[i] EXCEPT !.text = t]]

LEMMA SavedIs ==
  ASSUME list \in Seq(Item), NEW n, NEW t \in Text,
         list' = Rewritten(n, t)
  PROVE  /\ list' \in Seq(Item) /\ DOMAIN list' = DOMAIN list
         /\ \A i \in DOMAIN list : /\ list'[i].id = list[i].id
                                   /\ list'[i].text = IF list[i].id = n THEN t ELSE list[i].text
<1>1. \A i \in DOMAIN list : list[i] \in Item
  BY Members
<1>2. /\ list' = [i \in DOMAIN list |-> list'[i]]
      /\ \A i \in DOMAIN list : list'[i] = IF list[i].id # n THEN list[i] ELSE [list[i] EXCEPT !.text = t]
  BY DEF Rewritten
<1>3. \A i \in DOMAIN list : /\ list'[i] \in Item /\ list'[i].id = list[i].id
                             /\ list'[i].text = IF list[i].id = n THEN t ELSE list[i].text
  BY <1>1, <1>2 DEF Item
<1>4. list' \in Seq(Item) /\ DOMAIN list' = DOMAIN list
  BY <1>2, <1>3, Mapped
<1> QED
  BY <1>3, <1>4

Spared(n) == Kept(list, {e \in Range(list) : e.id # n})

LEMMA RemovedIs ==
  ASSUME list \in Seq(Item), NEW n, list' = Spared(n)
  PROVE  /\ list' \in Seq(Item)
         /\ \A k \in DOMAIN list' : \E j \in DOMAIN list : list'[k] = list[j] /\ list[j].id # n
         /\ \A j \in DOMAIN list : list[j].id # n => \E k \in DOMAIN list' : list'[k] = list[j]
         /\ \A k, l \in DOMAIN list' : k # l =>
              \E i, j \in DOMAIN list : i # j /\ list'[k] = list[i] /\ list'[l] = list[j]
<1> DEFINE K == {e \in Range(list) : e.id # n}
           s == Kept(list, K)
<1>1. list' = s
  BY DEF Spared
<1>2. \A j \in DOMAIN list : list[j] \in K <=> list[j].id # n
  BY DEF Range
<1> HIDE DEF K
<1>3. s \in Seq(Item)
  BY KeptTakes
<1>4. /\ \A k \in DOMAIN s : \E j \in DOMAIN list : list[j] \in K /\ s[k] = list[j]
      /\ \A j \in DOMAIN list : list[j] \in K => \E k \in DOMAIN s : s[k] = list[j]
  BY ONLY list \in Seq(Item), KeptHas
<1>5. \A k, l \in DOMAIN s : k # l =>
        \E i, j \in DOMAIN list : i # j /\ s[k] = list[i] /\ s[l] = list[j]
  BY KeptOnce
<1> HIDE DEF s
<1> QED
  BY <1>1, <1>2, <1>3, <1>4, <1>5

LEMMA PrependedIs ==
  ASSUME list \in Seq(Item), NEW x \in Item, list' = <<x>> \o list
  PROVE  /\ list' \in Seq(Item) /\ 1 \in DOMAIN list' /\ list'[1] = x
         /\ \A k \in DOMAIN list' : k # 1 => k - 1 \in DOMAIN list /\ list'[k] = list[k - 1]
         /\ \A j \in DOMAIN list : j + 1 \in DOMAIN list' /\ list'[j + 1] = list[j]
         /\ DOMAIN list' \subseteq Nat /\ DOMAIN list \subseteq Nat \ {0}
OBVIOUS

-----------------------------------------------------------------------------
(* The rows.                                                               *)

LEMMA SaidIs ==
  ASSUME rows \in Seq(Row), NEW m \in DOMAIN rows, NEW t \in Text, rows' = [rows EXCEPT ![m].text = t]
  PROVE  /\ rows' \in Seq(Row) /\ DOMAIN rows' = DOMAIN rows
         /\ rows'[m].card = rows[m].card /\ rows'[m].gone = rows[m].gone /\ rows'[m].text = t
         /\ \A n \in DOMAIN rows : n # m => rows'[n] = rows[n]
<1> DEFINE x == [rows[m] EXCEPT !.text = t]
<1>1. rows[m] \in Row
  BY Members
<1>2. x \in Row /\ x.card = rows[m].card /\ x.gone = rows[m].gone /\ x.text = t
  BY <1>1 DEF Row
<1>3. rows' = [rows EXCEPT ![m] = x]
  OBVIOUS
<1> HIDE DEF x
<1> QED
  BY <1>2, <1>3, Replaced

Deleting(m) == [rows EXCEPT ![m].gone = TRUE]

LEMMA GoneIs ==
  ASSUME rows \in Seq(Row), NEW m \in DOMAIN rows, rows' = Deleting(m)
  PROVE  /\ rows' \in Seq(Row) /\ DOMAIN rows' = DOMAIN rows
         /\ rows'[m].card = rows[m].card /\ rows'[m].gone /\ rows'[m].text = rows[m].text
         /\ \A n \in DOMAIN rows : n # m => rows'[n] = rows[n]
<1> DEFINE x == [rows[m] EXCEPT !.gone = TRUE]
<1>1. rows[m] \in Row
  BY Members
<1>2. x \in Row /\ x.card = rows[m].card /\ x.gone /\ x.text = rows[m].text
  BY <1>1 DEF Row
<1>3. rows' = [rows EXCEPT ![m] = x]
  BY DEF Deleting
<1> HIDE DEF x
<1>4. /\ rows' \in Seq(Row) /\ DOMAIN rows' = DOMAIN rows /\ rows'[m] = x
      /\ \A n \in DOMAIN rows : n # m => rows'[n] = rows[n]
  BY <1>2, <1>3, Replaced
<1> QED
  BY ONLY <1>2, <1>4
-----------------------------------------------------------------------------
(* What stays while other things change.                                   *)

LEMMA ListTypedStays ==
  ASSUME ListTyped, list' = list, DOMAIN rows \subseteq DOMAIN rows'
  PROVE  ListTyped'
BY DEF ListTyped

LEMMA LoadsTypedStays ==
  ASSUME LoadsTyped, DOMAIN rows \subseteq DOMAIN rows', loads' \in Seq(Load),
         \A l \in DOMAIN loads' :
           loads'[l].snap = <<>> \/ (l \in DOMAIN loads /\ loads'[l].snap = loads[l].snap)
  PROVE  LoadsTyped'
<1>1. ASSUME NEW l \in DOMAIN loads', NEW i \in DOMAIN loads'[l].snap
      PROVE  loads'[l].snap[i].id \in DOMAIN rows'
  <2>1. CASE loads'[l].snap = <<>>
    BY <1>1, <2>1
  <2>2. CASE l \in DOMAIN loads /\ loads'[l].snap = loads[l].snap
    BY <1>1, <2>2 DEF LoadsTyped
  <2> QED
    BY <2>1, <2>2
<1> QED
  BY <1>1 DEF LoadsTyped

LEMMA CallsTypedStay ==
  ASSUME CallsTyped, DOMAIN rows \subseteq DOMAIN rows', calls' \in Seq(Request),
         \A c \in DOMAIN calls' : Pending(calls'[c]) =>
           \/ c \in DOMAIN calls /\ Pending(calls[c]) /\ calls'[c].id = calls[c].id
           \/ calls'[c].id \in DOMAIN rows
  PROVE  CallsTyped'
BY DEF CallsTyped

LEMMA ModalTypedStays ==
  ASSUME ModalTyped, DOMAIN rows \subseteq DOMAIN rows', form' \in Form,
         shown' = shown \/ shown' = Nothing
  PROVE  ModalTyped'
BY LiteralsAre DEF ModalTyped

(* Nothing that the gallery's list hangs on.                               *)
CallsCarry ==
  /\ \A c \in DOMAIN calls : calls[c].at = "done" => c \in DOMAIN calls' /\ Same(calls'[c], calls[c])
  /\ \A c \in DOMAIN calls' : Pending(calls'[c]) =>
       \/ c \in DOMAIN calls /\ Same(calls'[c], calls[c])
       \/ calls'[c].at = "sent" /\ calls'[c].id = shown.id
LoadsCarry ==
  \A l \in DOMAIN loads' : loads'[l].at = "read" /\ ~loads'[l].stale =>
    l \in DOMAIN loads /\ loads'[l] = loads[l]

LEMMA CallsStay ==
  ASSUME calls' = calls
  PROVE  CallsCarry
BY DEF CallsCarry, Same

LEMMA PostsStaySo ==
  ASSUME posts' = posts
  PROVE  PostsCarry
BY DEF PostsCarry

LEMMA LoadsStay ==
  ASSUME loads' = loads
  PROVE  LoadsCarry
BY DEF LoadsCarry

(* The requests that are answered and not heard, under such a step.        *)
LEMMA DoneStays ==
  ASSUME CallsCarry
  PROVE  /\ \A m : DoneDelete(m) => DoneDelete(m)'
         /\ \A m, t : DoneSave(m, t) => DoneSave(m, t)'
         /\ \A c \in DOMAIN calls' : calls'[c].at = "done" =>
              /\ c \in DOMAIN calls /\ calls[c].at = "done"
              /\ calls'[c].op = calls[c].op /\ calls'[c].id = calls[c].id
<1>1. \A m : DoneDelete(m) => DoneDelete(m)'
  BY DEF CallsCarry, Same, DoneDelete
<1>2. \A m, t : DoneSave(m, t) => DoneSave(m, t)'
  BY DEF CallsCarry, Same, DoneSave
<1>3. \A c \in DOMAIN calls' : calls'[c].at = "done" =>
        /\ c \in DOMAIN calls /\ calls[c].at = "done"
        /\ calls'[c].op = calls[c].op /\ calls'[c].id = calls[c].id
  BY DEF CallsCarry, Same, Pending
<1> QED
  BY <1>1, <1>2, <1>3

LEMMA GalleryStays ==
  ASSUME GallerySound, rows \in Seq(Row), UNCHANGED <<rows, list>>, CallsCarry, PostsCarry, LoadsCarry,
         shown' = shown \/ shown' = Nothing \/ IsListed(shown'.id), dirty => dirty'
  PROVE  GallerySound'
<1>1. /\ \A m : DoneDelete(m) => DoneDelete(m)'
      /\ \A m, t : DoneSave(m, t) => DoneSave(m, t)'
      /\ \A c \in DOMAIN calls' : calls'[c].at = "done" =>
           /\ c \in DOMAIN calls /\ calls[c].at = "done"
           /\ calls'[c].op = calls[c].op /\ calls'[c].id = calls[c].id
  BY DoneStays
<1>2. /\ \A m : Fresh(m)' <=> Fresh(m)
      /\ \A m : IsListed(m)' <=> IsListed(m)
      /\ Unanswered(posts)' <=> Unanswered(posts)
      /\ Listed' = Listed
  <2>1. \A m : Fresh(m)' <=> Fresh(m)
    BY DEF PostsCarry, Fresh
  <2>2. \A m : IsListed(m)' <=> IsListed(m)
    BY DEF IsListed
  <2>3. Unanswered(posts)' <=> Unanswered(posts)
    BY DEF PostsCarry, Unanswered
  <2>4. Listed' = Listed
    BY DEF Listed, Entry
  <2> QED
    BY <2>1, <2>2, <2>3, <2>4
<1>3. ASSUME ListSound PROVE ListSound'
  <2>1. ListsOnce'
    BY <1>3 DEF ListSound, ListsOnce
  <2>2. \A i \in DOMAIN list' : ListsRight(list[i])'
    BY <1>1, <1>3 DEF ListSound, ListsRight
  <2>3. ListsAll'
    BY <1>2, <1>3 DEF ListSound, ListsAll
  <2> QED
    BY <2>1, <2>2, <2>3 DEF ListSound
<1>4. ASSUME FreshSound PROVE FreshSound'
  <2> SUFFICES ASSUME NEW m \in DOMAIN rows, Fresh(m)
               PROVE  /\ ~rows[m].gone /\ rows[m].text = Pristine
                      /\ ~IsListed(m) /\ shown'.id # m
                      /\ \A c \in DOMAIN calls' : Pending(calls'[c]) => calls'[c].id # m
    BY <1>2 DEF FreshSound
  <2>1. /\ ~rows[m].gone /\ rows[m].text = Pristine
        /\ ~IsListed(m) /\ shown.id # m
        /\ \A c \in DOMAIN calls : Pending(calls[c]) => calls[c].id # m
    BY <1>4 DEF FreshSound
  <2>2. shown'.id # m
    <3>1. m # 0
      BY Members
    <3> QED
      BY <2>1, <3>1, LiteralsAre
  <2>3. \A c \in DOMAIN calls' : Pending(calls'[c]) => calls'[c].id # m
    BY <2>1, SameIs DEF CallsCarry
  <2> QED
    BY <2>1, <2>2, <2>3
<1>5. DeletesSound'
  BY <1>1 DEF GallerySound, DeletesSound
<1>6. LoadsSound'
  BY <1>2 DEF GallerySound, LoadsSound, LoadsCarry
<1>7. ~dirty' => ListSound' /\ FreshSound'
  BY <1>3, <1>4 DEF GallerySound
<1> QED
  BY <1>5, <1>6, <1>7 DEF GallerySound

(* Nothing that the modal hangs on.                                        *)
LEMMA ModalStays ==
  ASSUME ModalSound, ModalTyped, CallsTyped, UNCHANGED <<shown, form, calls, undone>>,
         \A m \in DOMAIN rows : rows'[m] = rows[m]
  PROVE  ModalSound'
<1>1. \A m \in DOMAIN rows : \A t : Says(m, t)' <=> Says(m, t)
  BY DEF Says
<1>2. OpenSound'
  BY <1>1 DEF ModalSound, OpenSound, ModalTyped, CallsTyped
<1>3. CallsSound'
  BY <1>1 DEF ModalSound, CallsSound, CallsTyped
<1> QED
  BY <1>2, <1>3 DEF ModalSound
-----------------------------------------------------------------------------
(* The actions of the upload page that the gallery does not see.           *)

LEMMA UploadsMove ==
  ASSUME PageInductive, UploadsOK', PostsCarry,
         UNCHANGED <<rows, list, loads, calls, shown, form, dirty, undone>>
  PROVE  PageInductive'
<1>1. PageTyped'
  BY DEF PageInductive, PageTyped, ListTyped, LoadsTyped, CallsTyped, ModalTyped
<1>2. GallerySound'
  BY GalleryStays, CallsStay, LoadsStay DEF PageInductive, PageTyped
<1>3. ModalSound'
  BY ModalStays DEF PageInductive, PageTyped
<1> QED
  BY <1>1, <1>2, <1>3 DEF PageInductive

LEMMA FilesMove ==
  ASSUME PageInductive, NEW c \in Cards, Pick(c) \/ RemoveFile(c) \/ Sweep(c) \/ UploadOne(c)
  PROVE  PageInductive'
<1>1. UNCHANGED <<rows, list, loads, calls, shown, form, dirty, undone>>
  BY DEF Pick, RemoveFile, Sweep, UploadOne, server, context, modal
<1>2. UploadsOK
  BY DEF PageInductive
<1>3. CASE Pick(c)
  <2>1. UploadsOK'
    BY <1>2, <1>3, PickKeeps
  <2>2. PostsCarry
    BY <1>3, PostsStaySo DEF Pick, uploads
  <2> QED
    BY <1>1, <2>1, <2>2, UploadsMove
<1>4. CASE RemoveFile(c) \/ Sweep(c)
  <2>1. Without(c) /\ UNCHANGED <<posts, loops, doubled, rows>>
    BY <1>4 DEF RemoveFile, Sweep, uploads, server
  <2>2. UploadsOK'
    BY <1>2, <2>1, WithoutKeeps
  <2>3. PostsCarry
    BY <2>1, PostsStaySo
  <2> QED
    BY <1>1, <2>2, <2>3, UploadsMove
<1>5. CASE UploadOne(c)
  <2>1. UploadsOK' /\ PostsCarry
    BY <1>2, <1>5, UploadOneKeeps
  <2> QED
    BY <1>1, <2>1, UploadsMove
<1> QED
  BY <1>3, <1>4, <1>5

LEMMA UploadAllMoves ==
  ASSUME PageInductive, UploadAll
  PROVE  PageInductive'
<1>1. UNCHANGED <<rows, list, loads, calls, shown, form, dirty, undone>>
  BY DEF UploadAll, server, context, modal
<1>2. UploadsOK' /\ PostsCarry
  BY UploadAllKeeps DEF PageInductive
<1> QED
  BY <1>1, <1>2, UploadsMove

-----------------------------------------------------------------------------
(* The loads.                                                              *)

(* A load begins or ends, and nothing else that matters to it.             *)
LEMMA LoadsMove ==
  ASSUME PageInductive, UploadsOK', posts' = posts, UNCHANGED <<rows, list, shown, dirty>>,
         loads' \in Seq(Load), LoadsCarry,
         \A l \in DOMAIN loads' :
           loads'[l].snap = <<>> \/ (l \in DOMAIN loads /\ loads'[l].snap = loads[l].snap),
         CallsTyped', CallsCarry, form' \in Form, ModalSound'
  PROVE  PageInductive'
<1>1. LoadsTyped' /\ ListTyped' /\ ModalTyped'
  BY LoadsTypedStays, ListTypedStays, ModalTypedStays DEF PageInductive, PageTyped
<1>2. GallerySound'
  BY GalleryStays, PostsStaySo DEF PageInductive, PageTyped
<1> QED
  BY <1>1, <1>2 DEF PageInductive, PageTyped

LEMMA NavigateMoves ==
  ASSUME PageInductive, NEW p, Navigate(p)
  PROVE  PageInductive'
<1>1. /\ UNCHANGED <<rows, list, shown, dirty, posts, loops, doubled, undone>>
      /\ StartLoad \/ UNCHANGED loads
      /\ files' = <<>> /\ form' = [Closed EXCEPT !.text = shown.text, !.from = "remount"]
      /\ calls' = Disowned
  BY DEF Navigate, server, uploads, Disowned
<1>2. /\ rows \in Seq(Row) /\ loads \in Seq(Load) /\ calls \in Seq(Request) /\ shown \in Item
      /\ CallsTyped /\ UploadsOK /\ ModalSound
  BY DEF PageInductive, PageTyped, LoadsTyped, CallsTyped, ModalTyped
<1>3. UploadsOK'
  BY <1>1, <1>2, EmptiedKeeps
<1>4. /\ loads' \in Seq(Load) /\ LoadsCarry
      /\ \A l \in DOMAIN loads' :
           loads'[l].snap = <<>> \/ (l \in DOMAIN loads /\ loads'[l].snap = loads[l].snap)
  <2>1. CASE StartLoad
    BY <1>2, <2>1, StartLoadIs DEF LoadsCarry
  <2>2. CASE UNCHANGED loads
    BY <1>2, <2>2, LoadsStay
  <2> QED
    BY <1>1, <2>1, <2>2
<1>5. /\ calls' \in Seq(Request) /\ DOMAIN calls' = DOMAIN calls
      /\ \A c \in DOMAIN calls : /\ Same(calls'[c], calls[c]) /\ ~calls'[c].own
                                 /\ calls'[c].from = calls[c].from
  BY <1>1, <1>2, DisownedIs
<1>6. CallsTyped' /\ CallsCarry
  <2>1. CallsCarry
    BY <1>5 DEF CallsCarry
  <2>2. \A c \in DOMAIN calls' : Pending(calls'[c]) => Pending(calls[c]) /\ calls'[c].id = calls[c].id
    BY <1>5, SameIs
  <2> QED
    BY <1>1, <1>2, <1>5, <2>1, <2>2, CallsTypedStay
<1>7. form' \in Form /\ form'.from = "remount"
  BY <1>1, <1>2, LiteralsAre DEF Closed, Form, Sources, Item
<1>8. ModalSound'
  <2>1. OpenSound'
    BY <1>7 DEF OpenSound
  <2>2. CallsSound'
    <3>1. \A c \in DOMAIN calls' : Pending(calls'[c]) /\ calls'[c].from = "open" =>
            /\ \A d \in DOMAIN calls' : Pending(calls'[d]) => d = c
            /\ calls'[c].at = "sent" /\ calls'[c].op = "save" => Says(calls'[c].id, calls'[c].text)
      BY <1>2, <1>5, SameIs DEF ModalSound, CallsSound
    <3>2. \A m, t : Says(m, t)' <=> Says(m, t)
      BY <1>1 DEF Says
    <3> QED
      BY <1>5, <3>1, <3>2 DEF CallsSound
  <2> QED
    BY <1>1, <1>2, <2>1, <2>2 DEF ModalSound
<1> QED
  BY <1>1, <1>3, <1>4, <1>6, <1>7, <1>8, LoadsMove

LEMMA RetryOrFail ==
  ASSUME PageInductive, Retry \/ \E l \in DOMAIN loads : LoadFails(l)
  PROVE  PageInductive'
<1>1. /\ UNCHANGED <<rows, list, shown, form, dirty, files, posts, loops, doubled, calls, undone>>
      /\ StartLoad \/ \E l \in DOMAIN loads : EndLoad(l)
  BY DEF Retry, LoadFails, server, uploads, modal
<1>2. /\ rows \in Seq(Row) /\ loads \in Seq(Load) /\ CallsTyped /\ UploadsOK /\ ModalSound /\ ModalTyped
  BY DEF PageInductive, PageTyped, LoadsTyped
<1>3. /\ loads' \in Seq(Load) /\ LoadsCarry
      /\ \A l \in DOMAIN loads' :
           loads'[l].snap = <<>> \/ (l \in DOMAIN loads /\ loads'[l].snap = loads[l].snap)
  <2>1. CASE StartLoad
    BY <1>2, <2>1, StartLoadIs DEF LoadsCarry
  <2>2. ASSUME NEW l \in DOMAIN loads, EndLoad(l)
        PROVE  /\ loads' \in Seq(Load) /\ LoadsCarry
               /\ \A k \in DOMAIN loads' :
                    loads'[k].snap = <<>> \/ (k \in DOMAIN loads /\ loads'[k].snap = loads[k].snap)
    BY <1>2, <2>2, EndLoadIs DEF LoadsCarry
  <2> QED
    BY <1>1, <2>1, <2>2
<1>4. UploadsOK' /\ CallsTyped' /\ CallsCarry /\ form' \in Form
  BY <1>1, <1>2, UploadsStay, CallsStay DEF CallsTyped, ModalTyped
<1>5. ModalSound'
  BY <1>1, <1>2, ModalStays
<1> QED
  BY <1>1, <1>3, <1>4, <1>5, LoadsMove

(* The API reads its rows.                                                 *)
LEMMA ReadListMoves ==
  ASSUME PageInductive, NEW l \in DOMAIN loads, ReadList(l)
  PROVE  PageInductive'
<1> DEFINE late == Unanswered(posts)
           x == [at |-> "read", snap |-> Listed, stale |-> late]
<1>1. /\ UNCHANGED <<rows, list, shown, form, dirty, files, posts, loops, doubled, calls, undone>>
      /\ loads' = [loads EXCEPT ![l] = x]
  BY DEF ReadList, server, context, uploads, modal
<1>2. /\ rows \in Seq(Row) /\ loads \in Seq(Load) /\ CallsTyped /\ ListTyped /\ LoadsTyped
      /\ UploadsOK /\ ModalSound /\ ModalTyped /\ GallerySound /\ dirty \in BOOLEAN
  BY DEF PageInductive, PageTyped, LoadsTyped
<1>3. Lists(Listed) /\ late \in BOOLEAN
  BY <1>2, ListedIs DEF Unanswered
<1> HIDE DEF late
<1>4. x \in Load /\ x.at = "read" /\ x.snap = Listed /\ x.stale = late
  BY <1>3 DEF Load, Lists
<1> HIDE DEF x
<1>5. /\ loads' \in Seq(Load) /\ DOMAIN loads' = DOMAIN loads /\ loads'[l] = x
      /\ \A k \in DOMAIN loads : k # l => loads'[k] = loads[k]
  BY <1>1, <1>2, <1>4, Replaced
<1>6. LoadsTyped'
  <2>1. ASSUME NEW k \in DOMAIN loads', NEW i \in DOMAIN loads'[k].snap
        PROVE  loads'[k].snap[i].id \in DOMAIN rows'
    <3>1. CASE k = l
      BY <1>1, <1>3, <1>4, <1>5, <2>1, <3>1 DEF Lists
    <3>2. CASE k # l
      BY <1>1, <1>2, <1>5, <2>1, <3>2 DEF LoadsTyped
    <3> QED
      BY <3>1, <3>2
  <2> QED
    BY <1>5, <2>1 DEF LoadsTyped
<1>7. UploadsOK' /\ CallsTyped' /\ ListTyped' /\ ModalTyped' /\ dirty' \in BOOLEAN
  BY <1>1, <1>2, UploadsStay DEF CallsTyped, ListTyped, ModalTyped
<1>8. ModalSound'
  BY <1>1, <1>2, ModalStays
<1>9. GallerySound'
  <2>1. LoadsSound'
    <3>1. Listed' = Listed /\ (Unanswered(posts)' <=> Unanswered(posts))
      BY <1>1 DEF Listed, Entry, Unanswered
    <3>2. ASSUME NEW k \in DOMAIN loads', loads'[k].at = "read", ~loads'[k].stale
          PROVE  loads'[k].snap = Listed /\ ~Unanswered(posts)
      <4>1. CASE k = l
        BY <1>4, <1>5, <3>2, <4>1 DEF late
      <4>2. CASE k # l
        BY <1>2, <1>5, <3>2, <4>2 DEF GallerySound, LoadsSound
      <4> QED
        BY <4>1, <4>2
    <3> QED
      BY <3>1, <3>2 DEF LoadsSound
  <2>2. (DeletesSound /\ (dirty \/ (ListSound /\ FreshSound)))'
    BY <1>1, <1>2 DEF GallerySound, DeletesSound, ListSound, ListsOnce, ListsRight, ListsAll, FreshSound,
       DoneDelete, DoneSave, IsListed, Fresh
  <2> QED
    BY <2>1, <2>2 DEF GallerySound
<1> QED
  BY <1>1, <1>2, <1>6, <1>7, <1>8, <1>9 DEF PageInductive, PageTyped

(* The list that was read replaces the gallery's.                          *)
LEMMA LoadArrivesMoves ==
  ASSUME PageInductive, NEW l \in DOMAIN loads, LoadArrives(l)
  PROVE  PageInductive'
<1>1. /\ UNCHANGED <<rows, shown, form, files, posts, loops, doubled, calls, undone>>
      /\ loads[l].at = "read" /\ list' = loads[l].snap /\ dirty' = loads[l].stale /\ EndLoad(l)
  BY DEF LoadArrives, server, uploads, modal
<1>2. /\ rows \in Seq(Row) /\ loads \in Seq(Load) /\ CallsTyped /\ LoadsTyped
      /\ UploadsOK /\ ModalSound /\ ModalTyped /\ GallerySound /\ loads[l] \in Load
  BY Members DEF PageInductive, PageTyped, LoadsTyped
<1>3. /\ loads' \in Seq(Load) /\ DOMAIN loads' = DOMAIN loads
      /\ loads'[l].at = "over" /\ loads'[l].snap = <<>>
      /\ \A k \in DOMAIN loads : k # l => loads'[k] = loads[k]
  BY <1>1, <1>2, EndLoadIs
<1>4. LoadsTyped'
  BY <1>1, <1>2, <1>3, LoadsTypedStays
<1>5. ListTyped' /\ dirty' \in BOOLEAN
  BY <1>1, <1>2 DEF ListTyped, LoadsTyped, Load
<1>6. UploadsOK' /\ CallsTyped' /\ ModalTyped'
  BY <1>1, <1>2, UploadsStay DEF CallsTyped, ModalTyped
<1>7. ModalSound'
  BY <1>1, <1>2, ModalStays
<1>8. ~dirty' => ListSound' /\ FreshSound'
  <2> SUFFICES ASSUME ~dirty' PROVE ListSound' /\ FreshSound'
    OBVIOUS
  <2>1. list' = Listed /\ ~Unanswered(posts)
    BY <1>1, <1>2 DEF GallerySound, LoadsSound
  <2>2. Lists(list')
    BY <1>2, <2>1, ListedIs
  <2>3. ListsOnce'
    BY <2>2 DEF Lists, ListsOnce
  <2>4. \A i \in DOMAIN list' : ListsRight(list[i])'
    BY <1>1, <2>2 DEF Lists, ListsRight
  <2>5. ListsAll'
    BY <1>1, <2>2 DEF Lists, ListsAll, IsListed
  <2>6. FreshSound'
    BY <1>1, <2>1 DEF FreshSound, Fresh, Unanswered
  <2> QED
    BY <2>3, <2>4, <2>5, <2>6 DEF ListSound
<1>9. DeletesSound' /\ LoadsSound'
  <2>1. Listed' = Listed /\ (Unanswered(posts)' <=> Unanswered(posts))
    BY <1>1 DEF Listed, Entry, Unanswered
  <2>2. LoadsSound'
    BY <1>2, <1>3, <2>1 DEF GallerySound, LoadsSound
  <2> QED
    BY <1>1, <1>2, <2>2 DEF GallerySound, DeletesSound
<1> QED
  BY <1>1, <1>2, <1>4, <1>5, <1>6, <1>7, <1>8, <1>9 DEF PageInductive, PageTyped, GallerySound

-----------------------------------------------------------------------------
(* Uploads at the API, and their answers.                                  *)

LEMMA StoreUploadMoves ==
  ASSUME PageInductive, NEW i \in DOMAIN posts, StoreUpload(i)
  PROVE  PageInductive'
<1> DEFINE new == Len(rows) + 1
<1>1. /\ UNCHANGED <<list, shown, form, dirty, calls, undone>> /\ Outdate
  BY DEF StoreUpload, context, modal
<1>2. /\ rows \in Seq(Row) /\ loads \in Seq(Load) /\ list \in Seq(Item) /\ CallsTyped /\ LoadsTyped
      /\ ListTyped /\ UploadsOK /\ ModalSound /\ ModalTyped /\ GallerySound /\ dirty \in BOOLEAN
  BY DEF PageInductive, PageTyped, LoadsTyped, ListTyped
<1>3. /\ posts[i].at = "sent" /\ posts'[i].at = "done" /\ posts'[i].id = new
      /\ rows' \in Seq(Row) /\ DOMAIN rows' = (DOMAIN rows) \cup {new} /\ new \notin DOMAIN rows /\ new # 0
      /\ \A m \in DOMAIN rows : rows'[m] = rows[m]
      /\ ~rows'[new].gone /\ rows'[new].text = Pristine
      /\ DOMAIN posts' = DOMAIN posts
      /\ \A j \in DOMAIN posts : j # i => posts'[j] = posts[j]
  <2> DEFINE x == Stored(i)
             y == NewRow(posts[i].card)
  <2>1. /\ posts[i].at = "sent" /\ x.at = "done" /\ x.id = Len(rows) + 1
        /\ y.text = Pristine /\ ~y.gone
        /\ Len(rows) \in Nat /\ DOMAIN rows = 1 .. Len(rows)
        /\ rows' \in Seq(Row) /\ DOMAIN rows' = (DOMAIN rows) \cup {Len(rows) + 1}
        /\ rows'[Len(rows) + 1] = y /\ \A m \in DOMAIN rows : rows'[m] = rows[m]
        /\ DOMAIN posts' = DOMAIN posts /\ posts'[i] = x
        /\ \A j \in DOMAIN posts : j # i => posts'[j] = posts[j]
    BY <1>2, StoreIs
  <2> HIDE DEF x, y
  <2>2. new \notin DOMAIN rows /\ new # 0
    BY <2>1
  <2> QED
    BY <2>1, <2>2
<1> HIDE DEF new
<1>4. /\ loads' \in Seq(Load) /\ DOMAIN loads' = DOMAIN loads
      /\ \A l \in DOMAIN loads :
           /\ loads'[l].at = loads[l].at /\ loads'[l].snap = loads[l].snap
           /\ loads[l].at = "read" => loads'[l].stale
  BY <1>1, <1>2, OutdateIs
<1>5. UploadsOK'
  BY <1>2, StoreUploadKeeps
<1>6. LoadsTyped' /\ ListTyped' /\ CallsTyped' /\ ModalTyped'
  <2>1. DOMAIN rows \subseteq DOMAIN rows'
    BY <1>3
  <2>2. LoadsTyped'
    BY <1>2, <1>4, <2>1, LoadsTypedStays
  <2>3. ListTyped' /\ CallsTyped' /\ ModalTyped'
    BY <1>1, <1>2, <2>1 DEF ListTyped, CallsTyped, ModalTyped
  <2> QED
    BY <2>2, <2>3
<1>7. ModalSound'
  BY <1>1, <1>2, <1>3, ModalStays
<1>8. \A m : Fresh(m)' <=> Fresh(m) \/ m = new
  BY <1>3 DEF Fresh
<1>9. /\ \A m : IsListed(m)' <=> IsListed(m)
      /\ \A m : DoneDelete(m)' <=> DoneDelete(m)
      /\ \A m, t : DoneSave(m, t)' <=> DoneSave(m, t)
  BY <1>1 DEF IsListed, DoneDelete, DoneSave
<1>10. ASSUME ListSound PROVE ListSound'
  <2>1. ListsOnce'
    BY <1>1, <1>10 DEF ListSound, ListsOnce
  <2>2. \A k \in DOMAIN list' : ListsRight(list[k])'
    <3> SUFFICES ASSUME NEW k \in DOMAIN list PROVE ListsRight(list[k])'
      BY <1>1
    <3>1. ListsRight(list[k]) /\ list[k].id \in DOMAIN rows
      BY <1>2, <1>10 DEF ListSound, ListTyped
    <3> QED
      BY <1>1, <1>3, <1>9, <3>1 DEF ListsRight
  <2>3. ListsAll'
    BY <1>3, <1>8, <1>9, <1>10 DEF ListSound, ListsAll
  <2> QED
    BY <2>1, <2>2, <2>3 DEF ListSound
<1>11. ASSUME FreshSound PROVE FreshSound'
  <2> SUFFICES ASSUME NEW m \in DOMAIN rows', Fresh(m)'
               PROVE  /\ ~rows'[m].gone /\ rows'[m].text = Pristine
                      /\ ~IsListed(m) /\ shown.id # m
                      /\ \A c \in DOMAIN calls : Pending(calls[c]) => calls[c].id # m
    BY <1>1, <1>9 DEF FreshSound
  <2>1. CASE m = new
    <3>1. ~IsListed(m)
      BY <1>2, <1>3, <2>1 DEF IsListed, ListTyped
    <3>2. shown.id # m
      BY <1>2, <1>3, <2>1, LiteralsAre DEF ModalTyped
    <3>3. \A c \in DOMAIN calls : Pending(calls[c]) => calls[c].id # m
      BY <1>2, <1>3, <2>1 DEF CallsTyped
    <3> QED
      BY <1>3, <2>1, <3>1, <3>2, <3>3
  <2>2. CASE m # new
    <3>1. m \in DOMAIN rows /\ rows'[m] = rows[m] /\ Fresh(m)
      BY <1>3, <1>8, <2>2
    <3> QED
      BY <1>11, <3>1 DEF FreshSound
  <2> QED
    BY <2>1, <2>2
<1>12. DeletesSound'
  <2>1. \A c \in DOMAIN calls : calls[c].at = "done" => calls[c].id \in DOMAIN rows
    BY <1>2 DEF CallsTyped, Pending
  <2> QED
    BY <1>1, <1>2, <1>3, <2>1 DEF GallerySound, DeletesSound
<1>13. LoadsSound'
  BY <1>4 DEF LoadsSound
<1> QED
  BY <1>1, <1>2, <1>3, <1>5, <1>6, <1>7, <1>10, <1>11, <1>12, <1>13 DEF PageInductive, PageTyped, GallerySound

(* Answered, a new row is the first in the list.                           *)
LEMMA UploadAnsweredMoves ==
  ASSUME PageInductive, NEW i \in DOMAIN posts, UploadAnswered(i)
  PROVE  PageInductive'
<1> DEFINE new == posts[i].id
           x == [id |-> new, text |-> Pristine]
<1>1. /\ UNCHANGED <<rows, shown, form, dirty, calls, undone, loads>>
      /\ posts[i].at = "done" /\ list' = <<x>> \o list
  BY DEF UploadAnswered, server, modal
<1>2. /\ rows \in Seq(Row) /\ loads \in Seq(Load) /\ list \in Seq(Item) /\ CallsTyped /\ LoadsTyped
      /\ ListTyped /\ UploadsOK /\ ModalSound /\ ModalTyped /\ GallerySound /\ dirty \in BOOLEAN
      /\ PostsSound
  BY DEF PageInductive, PageTyped, LoadsTyped, ListTyped, UploadsOK
<1>3. UploadsOK' /\ Answers(i)
  BY <1>2, UploadAnsweredKeeps
<1>4. new \in DOMAIN rows /\ new \in Nat /\ x \in Item /\ x.id = new /\ x.text = Pristine
  <2>1. new \in DOMAIN rows
    BY <1>1, <1>2 DEF PostsSound
  <2>2. new \in Nat
    BY <1>2, <2>1
  <2> HIDE DEF new
  <2> QED
    BY <2>1, <2>2, LiteralsAre DEF Item
<1> HIDE DEF x
<1>5. /\ list' \in Seq(Item) /\ 1 \in DOMAIN list' /\ list'[1] = x
      /\ \A k \in DOMAIN list' : k # 1 => k - 1 \in DOMAIN list /\ list'[k] = list[k - 1]
      /\ \A j \in DOMAIN list : j + 1 \in DOMAIN list' /\ list'[j + 1] = list[j]
      /\ DOMAIN list' \subseteq Nat /\ DOMAIN list \subseteq Nat \ {0}
  BY <1>1, <1>2, <1>4, PrependedIs
<1>6. /\ \A k \in DOMAIN list' : list'[k] = x \/ \E j \in DOMAIN list : list'[k] = list[j]
      /\ \A m : IsListed(m)' <=> IsListed(m) \/ m = new
  <2>1. \A k \in DOMAIN list' : list'[k] = x \/ \E j \in DOMAIN list : list'[k] = list[j]
    BY <1>5
  <2>2. ASSUME NEW m PROVE IsListed(m)' => IsListed(m) \/ m = new
    BY <1>4, <2>1 DEF IsListed
  <2>3. ASSUME NEW m, IsListed(m) \/ m = new PROVE IsListed(m)'
    <3>1. CASE m = new
      BY <1>4, <1>5, <3>1 DEF IsListed
    <3>2. CASE IsListed(m)
      <4>1. PICK j \in DOMAIN list : list[j].id = m
        BY <3>2 DEF IsListed
      <4>2. j + 1 \in DOMAIN list' /\ list'[j + 1].id = m
        BY <1>5, <4>1
      <4> QED
        BY <4>2 DEF IsListed
    <3> QED
      BY <2>3, <3>1, <3>2
  <2> QED
    BY <2>1, <2>2, <2>3
<1>7. ListTyped' /\ LoadsTyped' /\ CallsTyped' /\ ModalTyped'
  <2>1. ListTyped'
    BY <1>1, <1>2, <1>4, <1>5, <1>6 DEF ListTyped
  <2> QED
    BY <1>1, <1>2, <2>1 DEF LoadsTyped, CallsTyped, ModalTyped
<1>8. ModalSound'
  BY <1>1, <1>2, ModalStays
<1>9. Fresh(new) /\ \A m : Fresh(m)' => Fresh(m) /\ m # new
  <2>1. Fresh(new)
    BY <1>1 DEF Fresh
  <2>2. ASSUME NEW m, Fresh(m)' PROVE Fresh(m) /\ m # new
    <3>1. PICK j \in DOMAIN posts' : posts'[j].at = "done" /\ posts'[j].id = m
      BY <2>2 DEF Fresh
    <3>2. j \in DOMAIN posts /\ j # i /\ posts[j].at = "done" /\ posts[j].id = m
      BY <1>3, <3>1 DEF Answers
    <3> QED
      BY <1>1, <1>2, <3>2 DEF Fresh, PostsSound
  <2> QED
    BY <2>1, <2>2
<1>10. \A m : Fresh(m) => Fresh(m)' \/ m = new
  BY <1>3 DEF Fresh, Answers
<1>11. /\ \A m : DoneDelete(m)' <=> DoneDelete(m)
       /\ \A m, t : DoneSave(m, t)' <=> DoneSave(m, t)
  BY <1>1 DEF DoneDelete, DoneSave
<1>12. ASSUME ListSound, FreshSound PROVE ListSound' /\ FreshSound'
  <2>1. ~rows[new].gone /\ rows[new].text = Pristine /\ ~IsListed(new)
    BY <1>4, <1>9, <1>12 DEF FreshSound
  <2>2. ListsOnce'
    <3> SUFFICES ASSUME NEW k \in DOMAIN list', NEW l \in DOMAIN list', list'[k].id = list'[l].id PROVE k = l
      BY DEF ListsOnce
    <3>1. \A j \in DOMAIN list : list[j].id # new
      BY <2>1 DEF IsListed
    <3>2. CASE k = 1 \/ l = 1
      BY <1>4, <1>5, <3>1, <3>2
    <3>3. CASE k # 1 /\ l # 1
      <4>1. /\ k - 1 \in DOMAIN list /\ list'[k] = list[k - 1]
            /\ l - 1 \in DOMAIN list /\ list'[l] = list[l - 1]
        BY <1>5, <3>3
      <4>2. \A a, b \in DOMAIN list : list[a].id = list[b].id => a = b
        BY <1>12 DEF ListSound, ListsOnce
      <4>3. k - 1 = l - 1
        BY <4>1, <4>2
      <4> QED
        BY <1>5, <4>3
    <3> QED
      BY <3>2, <3>3
  <2>3. \A k \in DOMAIN list' : ListsRight(list[k])'
    <3> SUFFICES ASSUME NEW k \in DOMAIN list' PROVE ListsRight(list[k])'
      OBVIOUS
    <3>1. CASE list'[k] = x
      BY <1>1, <1>4, <2>1, <3>1 DEF ListsRight
    <3>2. ASSUME NEW j \in DOMAIN list, list'[k] = list[j] PROVE ListsRight(list[k])'
      <4>1. ListsRight(list[j])
        BY <1>12 DEF ListSound
      <4> QED
        BY <1>1, <1>11, <3>2, <4>1 DEF ListsRight
    <3> QED
      BY <1>6, <3>1, <3>2
  <2>4. ListsAll'
    BY <1>1, <1>6, <1>10, <1>12 DEF ListSound, ListsAll
  <2>5. FreshSound'
    BY <1>1, <1>6, <1>9, <1>12 DEF FreshSound
  <2> QED
    BY <2>2, <2>3, <2>4, <2>5 DEF ListSound
<1>13. DeletesSound'
  BY <1>1, <1>2 DEF GallerySound, DeletesSound
<1>14. LoadsSound'
  BY <1>1, <1>2 DEF GallerySound, LoadsSound, Unanswered
<1> QED
  BY <1>1, <1>2, <1>3, <1>7, <1>8, <1>12, <1>13, <1>14 DEF PageInductive, PageTyped, GallerySound

LEMMA UploadFailsMoves ==
  ASSUME PageInductive, NEW i \in DOMAIN posts, UploadFails(i)
  PROVE  PageInductive'
<1>1. /\ UNCHANGED <<rows, list, shown, form, calls, undone, loads>>
      /\ posts[i].at = "done" => dirty'
      /\ posts[i].at # "done" => dirty' = dirty
      /\ dirty' \in {TRUE, dirty}
  BY DEF UploadFails, context, modal
<1>2. /\ rows \in Seq(Row) /\ CallsTyped /\ LoadsTyped /\ ListTyped /\ UploadsOK
      /\ ModalSound /\ ModalTyped /\ GallerySound /\ dirty \in BOOLEAN
  BY DEF PageInductive, PageTyped
<1>3. UploadsOK' /\ Answers(i)
  BY <1>2, UploadFailsKeeps
<1>4. LoadsTyped' /\ ListTyped' /\ CallsTyped' /\ ModalTyped' /\ dirty' \in BOOLEAN
  BY <1>1, <1>2 DEF LoadsTyped, ListTyped, CallsTyped, ModalTyped
<1>5. ModalSound'
  BY <1>1, <1>2, ModalStays
<1>6. GallerySound'
  <2>1. CASE posts[i].at = "done"
    <3>1. DeletesSound' /\ LoadsSound'
      BY <1>1, <1>2, <2>1 DEF GallerySound, DeletesSound, LoadsSound, Unanswered
    <3> QED
      BY <1>1, <2>1, <3>1 DEF GallerySound
  <2>2. CASE posts[i].at # "done"
    <3>1. PostsCarry
      BY <1>3, <2>2 DEF Answers, PostsCarry
    <3> QED
      BY <1>1, <1>2, <2>2, <3>1, GalleryStays, CallsStay, LoadsStay
  <2> QED
    BY <2>1, <2>2
<1> QED
  BY <1>1, <1>2, <1>3, <1>4, <1>5, <1>6 DEF PageInductive, PageTyped
-----------------------------------------------------------------------------
(* The modal: what it does before the API answers.                         *)

LEMMA ModalMoves ==
  ASSUME PageInductive, UNCHANGED <<rows, list, loads, posts, files, loops, doubled, dirty>>,
         CallsCarry, CallsTyped', ModalTyped', ModalSound',
         shown' = shown \/ shown' = Nothing \/ IsListed(shown'.id)
  PROVE  PageInductive'
<1>1. LoadsTyped' /\ ListTyped' /\ UploadsOK'
  BY UploadsStay DEF PageInductive, PageTyped, LoadsTyped, ListTyped
<1>2. GallerySound'
  BY GalleryStays, PostsStaySo, LoadsStay DEF PageInductive, PageTyped
<1> QED
  BY <1>1, <1>2 DEF PageInductive, PageTyped

(* What opens is in the list, and shows its row if nothing is under way.   *)
LEMMA OpenMoves ==
  ASSUME PageInductive, NEW i \in DOMAIN list, Open(list[i])
  PROVE  PageInductive'
<1> DEFINE e == list[i]
<1>1. /\ UNCHANGED <<rows, list, loads, posts, files, loops, doubled, dirty, calls, undone>>
      /\ shown' = e
      /\ form' = [form EXCEPT !.text = e.text, !.typed = FALSE,
                              !.from = IF dirty \/ UnderWay(calls) \/ UnderWay(loads)
                                       THEN "outdated" ELSE "open"]
  BY DEF Open, server, context, uploads
<1>2. /\ rows \in Seq(Row) /\ CallsTyped /\ ListTyped /\ ModalTyped /\ ModalSound /\ GallerySound
      /\ e \in Item /\ e.id \in DOMAIN rows
  BY Members DEF PageInductive, PageTyped, ListTyped
<1> HIDE DEF e
<1>3. /\ form' \in Form /\ form'.text = e.text /\ ~form'.typed /\ form'.busy = form.busy
      /\ form'.from = "open" => ~dirty /\ ~UnderWay(calls)
  BY <1>1, <1>2 DEF ModalTyped, Form, Item, Sources
<1>4. ModalTyped' /\ CallsTyped'
  BY <1>1, <1>2, <1>3 DEF ModalTyped, CallsTyped
<1>5. IsListed(shown'.id)
  BY <1>1 DEF IsListed, e
<1>6. OpenSound'
  <2> SUFFICES ASSUME form'.from = "open" PROVE OpenSound'
    BY DEF OpenSound
  <2>1. \A c \in DOMAIN calls : ~Pending(calls[c])
    BY <1>3 DEF UnderWay
  <2>2. ListsRight(e)
    BY <1>2, <1>3 DEF GallerySound, ListSound, e
  <2>3. ~DoneDelete(e.id) /\ \A t : ~DoneSave(e.id, t)
    BY <2>1 DEF DoneDelete, DoneSave, Pending
  <2>4. ~rows[e.id].gone /\ e.text = rows[e.id].text
    BY <2>2, <2>3 DEF ListsRight
  <2>5. Says(shown.id, form.text)'
    BY <1>1, <1>3, <2>4 DEF Says
  <2> QED
    BY <1>1, <2>1, <2>5 DEF OpenSound
<1>7. CallsSound'
  BY <1>1, <1>2, <1>3 DEF ModalSound, CallsSound, Says
<1>8. ModalSound'
  BY <1>1, <1>2, <1>6, <1>7 DEF ModalSound
<1> QED
  BY <1>1, <1>4, <1>5, <1>8, CallsStay, ModalMoves

LEMMA CloseMoves ==
  ASSUME PageInductive, Close
  PROVE  PageInductive'
<1>1. /\ UNCHANGED <<rows, list, loads, posts, files, loops, doubled, dirty, calls, undone, form>>
      /\ shown' = Nothing
  BY DEF Close, server, context, uploads
<1>2. CallsTyped /\ ModalTyped /\ ModalSound
  BY DEF PageInductive, PageTyped
<1>3. ModalTyped' /\ CallsTyped'
  BY <1>1, <1>2, LiteralsAre DEF ModalTyped, CallsTyped
<1>4. OpenSound'
  BY <1>1, <1>2 DEF ModalSound, OpenSound, Says
<1>5. CallsSound'
  BY <1>1, <1>2 DEF ModalSound, CallsSound, Says
<1>6. ModalSound'
  BY <1>1, <1>2, <1>4, <1>5 DEF ModalSound
<1> QED
  BY <1>1, <1>3, <1>6, CallsStay, ModalMoves

(* The form changes: as OnForm has it, and not to a text of its own that   *)
(* its user has not typed.                                                 *)
LEMMA FormMoves ==
  ASSUME PageInductive, NEW f \in Form, OnForm(f), f.busy = form.busy,
         f.from = "open" =>
           /\ form.from = "open"
           /\ (f.typed \/ (f.text = form.text /\ f.typed = form.typed))
  PROVE  PageInductive'
<1>1. /\ UNCHANGED <<rows, list, loads, posts, files, loops, doubled, dirty, calls, undone, shown>>
      /\ form' = f
  BY DEF OnForm, server, context, uploads
<1>2. CallsTyped /\ ModalTyped /\ ModalSound
  BY DEF PageInductive, PageTyped
<1>3. ModalTyped' /\ CallsTyped'
  BY <1>1, <1>2 DEF ModalTyped, CallsTyped
<1>4. OpenSound'
  BY <1>1, <1>2 DEF ModalSound, OpenSound, Says
<1>5. CallsSound'
  BY <1>1, <1>2 DEF ModalSound, CallsSound, Says
<1>6. ModalSound'
  BY <1>1, <1>2, <1>4, <1>5 DEF ModalSound
<1> QED
  BY <1>1, <1>3, <1>6, CallsStay, ModalMoves

LEMMA EditTypeCancel ==
  ASSUME PageInductive, Edit \/ Cancel \/ \E t \in Texts : Type(t)
  PROVE  PageInductive'
<1>1. form \in Form /\ shown \in Item
  BY DEF PageInductive, PageTyped, ModalTyped
<1>2. CASE Edit
  <2> DEFINE f == [form EXCEPT !.editing = TRUE]
  <2>1. OnForm(f)
    BY <1>2 DEF Edit
  <2>2. f \in Form /\ f.busy = form.busy /\ f.from = form.from /\ f.text = form.text /\ f.typed = form.typed
    BY <1>1 DEF Form
  <2> HIDE DEF f
  <2> QED
    BY <2>1, <2>2, FormMoves
<1>3. CASE Cancel
  <2> DEFINE f == [form EXCEPT !.editing = FALSE, !.text = shown.text, !.typed = FALSE,
                               !.from = IF @ = "outdated" THEN @ ELSE "cancel"]
  <2>1. OnForm(f)
    BY <1>3 DEF Cancel
  <2>2. f \in Form /\ f.busy = form.busy /\ f.from # "open"
    BY <1>1 DEF Form, Item, Sources
  <2> HIDE DEF f
  <2> QED
    BY <2>1, <2>2, FormMoves
<1>4. ASSUME NEW t \in Texts, Type(t) PROVE PageInductive'
  <2> DEFINE f == [form EXCEPT !.text = t, !.typed = TRUE]
  <2>1. OnForm(f)
    BY <1>4 DEF Type
  <2>2. f \in Form /\ f.busy = form.busy /\ f.from = form.from /\ f.typed
    BY <1>1, LiteralsAre DEF Form
  <2> HIDE DEF f
  <2> QED
    BY <2>1, <2>2, FormMoves
<1> QED
  BY <1>2, <1>3, <1>4

(* A request is sent while no other of this modal is under way.            *)
LEMMA CallMoves ==
  ASSUME PageInductive, NEW op \in {"save", "delete"}, Call(op)
  PROVE  PageInductive'
<1> DEFINE n == Len(calls) + 1
           x == Asked(op)
<1>1. UNCHANGED <<rows, list, loads, posts, files, loops, doubled, dirty, undone>>
  BY DEF Call, server, context, uploads
<1>2. /\ CallsTyped /\ ModalTyped /\ ModalSound /\ calls \in Seq(Request) /\ shown \in Item /\ form \in Form
  BY DEF PageInductive, PageTyped, CallsTyped, ModalTyped
<1>3. /\ calls' \in Seq(Request)
      /\ DOMAIN calls' = (DOMAIN calls) \cup {n} /\ n \notin DOMAIN calls
      /\ \A c \in DOMAIN calls :
           /\ Same(calls'[c], calls[c]) /\ calls'[c].own = calls[c].own /\ calls'[c].from # "open"
      /\ calls'[n] = x
      /\ x.id = shown.id /\ x.text = form.text /\ x.at = "sent"
      /\ x.op = op /\ x.own /\ Pending(x)
      /\ x.from = IF form.typed THEN "user" ELSE form.from
      /\ form' \in Form /\ form'.busy /\ form'.text = form.text /\ form'.typed = form.typed
      /\ form'.from = form.from /\ ~form.busy /\ shown' = shown /\ shown # Nothing
  BY <1>2, CallIs
<1> HIDE DEF n, x
<1>4. \A c \in DOMAIN calls : Pending(calls'[c]) =>
        Pending(calls[c]) /\ calls'[c].id = calls[c].id /\ ~calls[c].own
  <2>1. \A c \in DOMAIN calls : Pending(calls[c]) => ~calls[c].own
    BY <1>2, <1>3 DEF ModalSound, CallsSound
  <2> QED
    BY <1>3, <2>1, SameIs
<1>5. CallsTyped'
  <2>1. shown.id \in DOMAIN rows
    BY <1>2, <1>3 DEF ModalTyped
  <2>2. \A c \in DOMAIN calls' : Pending(calls'[c]) =>
          \/ c \in DOMAIN calls /\ Pending(calls[c]) /\ calls'[c].id = calls[c].id
          \/ calls'[c].id \in DOMAIN rows
    BY <1>3, <1>4, <2>1
  <2> QED
    BY <1>1, <1>2, <1>3, <2>2, CallsTypedStay
<1>6. ModalTyped'
  BY <1>1, <1>2, <1>3 DEF ModalTyped
<1>7. CallsCarry
  BY <1>3 DEF CallsCarry
<1>8. ASSUME form.from = "open"
      PROVE  /\ \A c \in DOMAIN calls : ~Pending(calls[c])
             /\ ~form.typed => Says(shown.id, form.text)
  <2>1. \A c \in DOMAIN calls : Pending(calls[c]) => calls[c].own
    BY <1>2, <1>8 DEF ModalSound, OpenSound
  <2>2. \A c \in DOMAIN calls : Pending(calls[c]) => ~calls[c].own
    BY <1>2, <1>3 DEF ModalSound, CallsSound
  <2>3. ~form.typed => Says(shown.id, form.text)
    BY <1>2, <1>3, <1>8 DEF ModalSound, OpenSound
  <2> QED
    BY <2>1, <2>2, <2>3
<1>9. OpenSound'
  <2> SUFFICES ASSUME form'.from = "open" PROVE OpenSound'
    BY DEF OpenSound
  <2>1. \A c \in DOMAIN calls' : Pending(calls'[c]) => c = n
    BY <1>3, <1>4, <1>8
  <2>2. ~form'.typed => Says(shown.id, form.text)'
    BY <1>1, <1>3, <1>8 DEF Says
  <2>3. x.op = "save" /\ ~form'.typed => x.from = "open"
    BY <1>3
  <2> QED
    BY <1>3, <2>1, <2>2, <2>3 DEF OpenSound
<1>10. CallsSound'
  <2>1. \A c, d \in DOMAIN calls' :
          Pending(calls'[c]) /\ calls'[c].own /\ Pending(calls'[d]) /\ calls'[d].own => c = d
    BY <1>3, <1>4
  <2>2. \A c \in DOMAIN calls' : Pending(calls'[c]) /\ calls'[c].own => form'.busy
    BY <1>3
  <2>3. ASSUME NEW c \in DOMAIN calls', Pending(calls'[c]), calls'[c].from = "open"
        PROVE  /\ \A d \in DOMAIN calls' : Pending(calls'[d]) => d = c
               /\ calls'[c].at = "sent" /\ calls'[c].op = "save" => Says(calls[c].id, calls[c].text)'
    <3>1. c = n /\ ~form.typed /\ form.from = "open"
      BY <1>3, <2>3
    <3> QED
      BY <1>1, <1>3, <1>4, <1>8, <3>1 DEF Says
  <2> QED
    BY <2>1, <2>2, <2>3 DEF CallsSound
<1>11. ModalSound'
  BY <1>1, <1>2, <1>9, <1>10 DEF ModalSound
<1> QED
  BY <1>1, <1>3, <1>5, <1>6, <1>7, <1>11, ModalMoves
-----------------------------------------------------------------------------
(* The API commits a request.                                              *)

(* What is done by now was done before, or is this.                        *)
LEMMA CommitDone ==
  ASSUME NEW c \in DOMAIN calls, calls[c].at = "sent", DOMAIN calls' = DOMAIN calls,
         calls'[c].at = "done", calls'[c].op = calls[c].op, calls'[c].id = calls[c].id,
         calls'[c].text = calls[c].text, \A d \in DOMAIN calls : d # c => calls'[d] = calls[d]
  PROVE  /\ \A m : DoneDelete(m)' <=> DoneDelete(m) \/ (calls[c].op = "delete" /\ calls[c].id = m)
         /\ \A m, t : DoneSave(m, t)' <=>
              DoneSave(m, t) \/ (calls[c].op = "save" /\ calls[c].id = m /\ calls[c].text = t)
<1>1. ASSUME NEW m
      PROVE  DoneDelete(m)' <=> DoneDelete(m) \/ (calls[c].op = "delete" /\ calls[c].id = m)
  BY DEF DoneDelete
<1>2. ASSUME NEW m, NEW t
      PROVE  DoneSave(m, t)' <=>
               DoneSave(m, t) \/ (calls[c].op = "save" /\ calls[c].id = m /\ calls[c].text = t)
  BY DEF DoneSave
<1> QED
  BY <1>1, <1>2

LEMMA CommitMoves ==
  ASSUME PageInductive, NEW c \in DOMAIN calls, CommitCall(c)
  PROVE  PageInductive'
<1> DEFINE m == calls[c].id
           t == calls[c].text
<1>1. /\ UNCHANGED <<list, files, posts, loops, doubled, shown, form, dirty>> /\ Outdate
      /\ calls[c].at = "sent" /\ ~rows[m].gone
      /\ calls' = [calls EXCEPT ![c].at = "done"]
      /\ calls[c].op = "delete" => rows' = Deleting(m) /\ undone' = undone
      /\ calls[c].op # "delete" =>
           /\ rows' = [rows EXCEPT ![m].text = t]
           /\ undone' = IF rows[m].text = t THEN undone ELSE undone \cup {calls[c].from}
  BY DEF CommitCall, context, uploads, modal, Deleting
<1>2. /\ rows \in Seq(Row) /\ loads \in Seq(Load) /\ list \in Seq(Item) /\ calls \in Seq(Request)
      /\ CallsTyped /\ LoadsTyped /\ ListTyped /\ UploadsOK /\ ModalSound /\ ModalTyped
      /\ GallerySound /\ dirty \in BOOLEAN
  BY DEF PageInductive, PageTyped, LoadsTyped, ListTyped, CallsTyped
<1>3. Pending(calls[c]) /\ m \in DOMAIN rows /\ t \in Text /\ calls[c].op \in {"save", "delete"}
  <2>1. calls[c] \in Request
    BY <1>2, Members
  <2>2. Pending(calls[c])
    BY <1>1 DEF Pending
  <2> QED
    BY <1>2, <2>1, <2>2 DEF Request, CallsTyped
<1>4. /\ calls' \in Seq(Request) /\ DOMAIN calls' = DOMAIN calls
      /\ calls'[c].at = "done" /\ calls'[c].op = calls[c].op /\ calls'[c].id = calls[c].id
      /\ calls'[c].text = calls[c].text /\ calls'[c].own = calls[c].own
      /\ calls'[c].from = calls[c].from
      /\ \A d \in DOMAIN calls : d # c => calls'[d] = calls[d]
  BY <1>1, <1>2, CommittedIs
<1> HIDE DEF m, t
<1>5. /\ rows' \in Seq(Row) /\ DOMAIN rows' = DOMAIN rows /\ rows'[m].card = rows[m].card
      /\ calls[c].op = "delete" => rows'[m].gone
      /\ calls[c].op = "save" => rows'[m].gone = rows[m].gone /\ rows'[m].text = t
      /\ \A n \in DOMAIN rows : n # m => rows'[n] = rows[n]
  <2>1. CASE calls[c].op = "delete"
    BY <1>1, <1>2, <1>3, <2>1, GoneIs
  <2>2. CASE calls[c].op = "save"
    <3>1. rows' = [rows EXCEPT ![m].text = t]
      BY <1>1, <2>2
    <3> QED
      BY <1>2, <1>3, <2>2, <3>1, SaidIs
  <2> QED
    BY <1>3, <2>1, <2>2
<1>6. /\ loads' \in Seq(Load) /\ DOMAIN loads' = DOMAIN loads
      /\ \A l \in DOMAIN loads :
           /\ loads'[l].at = loads[l].at /\ loads'[l].snap = loads[l].snap
           /\ loads[l].at = "read" => loads'[l].stale
  BY <1>1, <1>2, OutdateIs
<1>7. \A d \in DOMAIN calls : Pending(calls'[d]) => Pending(calls[d]) /\ calls'[d].id = calls[d].id
  BY <1>3, <1>4
<1>8. PageTyped' /\ UploadsOK'
  <2>1. LoadsTyped'
    BY <1>2, <1>5, <1>6, LoadsTypedStays
  <2>2. CallsTyped'
    BY <1>2, <1>4, <1>5, <1>7, CallsTypedStay
  <2>3. ListTyped' /\ ModalTyped'
    BY <1>1, <1>2, <1>5 DEF ListTyped, ModalTyped
  <2>4. UploadsOK'
    BY <1>1, <1>2, <1>5, UploadsStay
  <2> QED
    BY <1>1, <1>2, <1>5, <2>1, <2>2, <2>3, <2>4 DEF PageTyped
<1>9. /\ \A n : DoneDelete(n)' <=> DoneDelete(n) \/ (calls[c].op = "delete" /\ m = n)
      /\ \A n, s : DoneSave(n, s)' <=>
           DoneSave(n, s) \/ (calls[c].op = "save" /\ m = n /\ t = s)
  BY <1>1, <1>4, CommitDone DEF m, t
<1>10. GallerySound'
  <2>1. ASSUME ListSound PROVE ListSound'
    <3>1. ListsOnce'
      BY <1>1, <2>1 DEF ListSound, ListsOnce
    <3>2. ASSUME NEW i \in DOMAIN list PROVE ListsRight(list[i])'
      <4>1. ListsRight(list[i]) /\ list[i].id \in DOMAIN rows /\ list' = list
        BY <1>1, <1>2, <2>1 DEF ListSound, ListTyped
      <4>2. CASE list[i].id # m
        BY <1>5, <1>9, <4>1, <4>2 DEF ListsRight
      <4>3. CASE list[i].id = m /\ calls[c].op = "delete"
        BY <1>5, <1>9, <4>1, <4>3 DEF ListsRight
      <4>4. CASE list[i].id = m /\ calls[c].op = "save"
        BY <1>1, <1>5, <1>9, <4>1, <4>4 DEF ListsRight, m
      <4> QED
        BY <1>3, <4>2, <4>3, <4>4
    <3>3. ListsAll'
      <4>1. \A n : (IsListed(n)' <=> IsListed(n)) /\ (Fresh(n)' <=> Fresh(n))
        BY <1>1 DEF IsListed, Fresh
      <4>2. \A n \in DOMAIN rows : rows[n].gone => rows'[n].gone
        BY <1>1, <1>5 DEF m
      <4> QED
        BY <1>5, <2>1, <4>1, <4>2 DEF ListSound, ListsAll
    <3> QED
      BY <1>1, <3>1, <3>2, <3>3 DEF ListSound
  <2>2. ASSUME FreshSound PROVE FreshSound'
    <3> SUFFICES ASSUME NEW n \in DOMAIN rows, Fresh(n)
                 PROVE  /\ ~rows'[n].gone /\ rows'[n].text = Pristine
                        /\ ~IsListed(n) /\ shown.id # n
                        /\ \A d \in DOMAIN calls' : Pending(calls'[d]) => calls'[d].id # n
      BY <1>1, <1>5 DEF FreshSound, Fresh, IsListed
    <3>1. /\ ~rows[n].gone /\ rows[n].text = Pristine /\ ~IsListed(n) /\ shown.id # n
          /\ \A d \in DOMAIN calls : Pending(calls[d]) => calls[d].id # n
      BY <2>2 DEF FreshSound
    <3>2. n # m
      BY <1>3, <3>1 DEF m
    <3> QED
      BY <1>4, <1>5, <1>7, <3>1, <3>2
  <2>3. DeletesSound'
    <3> SUFFICES ASSUME NEW d \in DOMAIN calls, calls'[d].at = "done", calls'[d].op = "delete"
                 PROVE  rows'[calls'[d].id].gone
      BY <1>4 DEF DeletesSound
    <3>1. CASE d = c
      BY <1>4, <1>5, <3>1 DEF m
    <3>2. CASE d # c
      <4>1. calls'[d] = calls[d] /\ rows[calls[d].id].gone /\ calls[d].id \in DOMAIN rows
        BY <1>2, <1>4, <3>2 DEF GallerySound, DeletesSound, CallsTyped, Pending
      <4> QED
        BY <1>1, <1>5, <4>1 DEF m
    <3> QED
      BY <3>1, <3>2
  <2>4. LoadsSound'
    BY <1>6 DEF LoadsSound
  <2> QED
    BY <1>1, <1>2, <2>1, <2>2, <2>3, <2>4 DEF GallerySound
<1>11. calls[c].from = "open" /\ calls[c].op = "save" => rows[m].text = t
  BY <1>1, <1>2, <1>3 DEF ModalSound, CallsSound, Says, m, t
<1>12. "open" \notin undone'
  BY <1>1, <1>2, <1>3, <1>11 DEF ModalSound
<1>13. OpenSound'
  <2> SUFFICES ASSUME form.from = "open" PROVE OpenSound'
    BY <1>1 DEF OpenSound
  <2>1. /\ \A d \in DOMAIN calls : Pending(calls[d]) =>
             /\ calls[d].own
             /\ shown # Nothing => calls[d].id = shown.id
             /\ calls[d].op = "save" /\ ~form.typed => calls[d].from = "open"
             /\ calls[d].op = "save" /\ calls[d].at = "done" => Says(calls[d].id, calls[d].text)
        /\ shown # Nothing /\ ~form.typed => Says(shown.id, form.text)
    BY <1>2 DEF ModalSound, OpenSound
  <2>2. \A d \in DOMAIN calls : Pending(calls'[d]) => d = c
    BY <1>2, <1>3, <1>7, <2>1 DEF ModalSound, CallsSound
  <2>3. calls[c].op = "save" => Says(calls[c].id, calls[c].text)'
    BY <1>4, <1>5 DEF Says, m, t
  <2>4. ASSUME shown # Nothing, ~form.typed PROVE Says(shown.id, form.text)'
    <3>1. shown.id = m /\ Says(m, form.text)
      BY <1>3, <2>1, <2>4 DEF m
    <3>2. CASE calls[c].op = "delete"
      BY <1>1, <1>5, <3>1, <3>2 DEF Says
    <3>3. CASE calls[c].op = "save"
      <4>1. rows[m].text = t /\ ~rows[m].gone
        BY <1>1, <1>3, <1>11, <2>1, <2>4, <3>3 DEF m
      <4> QED
        BY <1>1, <1>5, <3>1, <3>3, <4>1 DEF Says
    <3> QED
      BY <1>3, <3>2, <3>3
  <2>5. \A d \in DOMAIN calls' : Pending(calls'[d]) =>
          /\ calls'[d].own
          /\ shown # Nothing => calls'[d].id = shown.id
          /\ calls'[d].op = "save" /\ ~form.typed => calls'[d].from = "open"
          /\ calls'[d].op = "save" => Says(calls[d].id, calls[d].text)'
    BY <1>3, <1>4, <2>1, <2>2, <2>3
  <2> QED
    BY <1>1, <2>4, <2>5 DEF OpenSound
<1>14. CallsSound'
  <2>1. \A d \in DOMAIN calls' : Pending(calls'[d]) =>
          Pending(calls[d]) /\ calls'[d].own = calls[d].own /\ calls'[d].from = calls[d].from
    BY <1>3, <1>4
  <2>2. ASSUME NEW d \in DOMAIN calls', Pending(calls'[d]), calls'[d].from = "open"
        PROVE  /\ \A e \in DOMAIN calls' : Pending(calls'[e]) => e = d
               /\ calls'[d].at = "sent" /\ calls'[d].op = "save" => Says(calls[d].id, calls[d].text)'
    <3>1. \A e \in DOMAIN calls : Pending(calls[e]) => e = d
      BY <1>2, <1>4, <2>1, <2>2 DEF ModalSound, CallsSound
    <3>2. d = c
      BY <1>3, <3>1
    <3> QED
      BY <1>4, <2>1, <3>1, <3>2
  <2>3. \A d, e \in DOMAIN calls' :
          Pending(calls'[d]) /\ calls'[d].own /\ Pending(calls'[e]) /\ calls'[e].own => d = e
    BY <1>2, <1>4, <2>1 DEF ModalSound, CallsSound
  <2>4. \A d \in DOMAIN calls' : Pending(calls'[d]) /\ calls'[d].own => form'.busy
    BY <1>1, <1>2, <1>4, <2>1 DEF ModalSound, CallsSound
  <2> QED
    BY <2>2, <2>3, <2>4 DEF CallsSound
<1> QED
  BY <1>8, <1>10, <1>12, <1>13, <1>14 DEF PageInductive, ModalSound
-----------------------------------------------------------------------------
(* The answer of a request arrives, or will not.                           *)

(* A request of the modal ends; its form is no longer busy if it was its   *)
(* own, and forgets only typing that a save it was sent for has stored.    *)
LEMMA EndOfCall ==
  ASSUME ModalSound, CallsTyped, NEW c \in DOMAIN calls, Pending(calls[c]),
         UNCHANGED <<rows, undone>>, shown' = shown \/ shown' = Nothing,
         DOMAIN calls' = DOMAIN calls, ~Pending(calls'[c]),
         \A d \in DOMAIN calls : d # c => calls'[d] = calls[d],
         ~calls[c].own => form' = form,
         form'.from = form.from, form'.text = form.text,
         \/ form'.typed = form.typed
         \/ /\ calls[c].at = "done" /\ calls[c].op = "save"
            /\ shown.id = calls[c].id /\ form.text = calls[c].text
  PROVE  ModalSound'
<1>1. \A d \in DOMAIN calls' : Pending(calls'[d]) => d # c /\ Pending(calls[d]) /\ calls'[d] = calls[d]
  OBVIOUS
<1>2. OpenSound'
  <2> SUFFICES ASSUME form.from = "open" PROVE OpenSound'
    BY DEF OpenSound
  <2>1. \A d \in DOMAIN calls : Pending(calls[d]) => calls[d].own
    BY DEF ModalSound, OpenSound
  <2>2. \A d \in DOMAIN calls' : ~Pending(calls'[d])
    BY <1>1, <2>1 DEF ModalSound, CallsSound
  <2>3. ASSUME shown' # Nothing, ~form'.typed PROVE Says(shown.id, form.text)'
    <3>1. shown' = shown /\ shown # Nothing
      BY <2>3
    <3>2. Says(shown.id, form.text)
      BY <2>3, <3>1 DEF ModalSound, OpenSound
    <3> QED
      BY <3>1, <3>2 DEF Says
  <2> QED
    BY <2>2, <2>3 DEF OpenSound
<1>3. CallsSound'
  <2>1. \A d, e \in DOMAIN calls' :
          Pending(calls'[d]) /\ calls'[d].own /\ Pending(calls'[e]) /\ calls'[e].own => d = e
    BY <1>1 DEF ModalSound, CallsSound
  <2>2. ASSUME NEW d \in DOMAIN calls', Pending(calls'[d]), calls'[d].own PROVE form'.busy
    <3>1. d # c /\ Pending(calls[d]) /\ calls[d].own
      BY <1>1, <2>2
    <3>2. ~calls[c].own /\ form.busy
      BY <3>1 DEF ModalSound, CallsSound
    <3> QED
      BY <3>2
  <2>3. ASSUME NEW d \in DOMAIN calls', Pending(calls'[d]), calls'[d].from = "open"
        PROVE  /\ \A e \in DOMAIN calls' : Pending(calls'[e]) => e = d
               /\ calls'[d].at = "sent" /\ calls'[d].op = "save" => Says(calls[d].id, calls[d].text)'
    BY <1>1, <2>3 DEF ModalSound, CallsSound, Says
  <2> QED
    BY <2>1, <2>2, <2>3 DEF CallsSound
<1> QED
  BY <1>2, <1>3 DEF ModalSound

(* What was answered and not heard, but for this.                          *)
LEMMA EndDone ==
  ASSUME NEW c \in DOMAIN calls, DOMAIN calls' = DOMAIN calls, calls'[c].at = "over",
         \A d \in DOMAIN calls : d # c => calls'[d] = calls[d]
  PROVE  /\ \A m : DoneDelete(m) => DoneDelete(m)' \/
                     (calls[c].at = "done" /\ calls[c].op = "delete" /\ calls[c].id = m)
         /\ \A m, t : DoneSave(m, t) => DoneSave(m, t)' \/
                     (calls[c].at = "done" /\ calls[c].op = "save" /\ calls[c].id = m /\ calls[c].text = t)
         /\ DeletesSound /\ rows' = rows => DeletesSound'
<1>1. ASSUME NEW m, DoneDelete(m)
      PROVE  DoneDelete(m)' \/ (calls[c].at = "done" /\ calls[c].op = "delete" /\ calls[c].id = m)
  BY <1>1 DEF DoneDelete
<1>2. ASSUME NEW m, NEW t, DoneSave(m, t)
      PROVE  DoneSave(m, t)' \/
             (calls[c].at = "done" /\ calls[c].op = "save" /\ calls[c].id = m /\ calls[c].text = t)
  BY <1>2 DEF DoneSave
<1>3. DeletesSound /\ rows' = rows => DeletesSound'
  BY DEF DeletesSound
<1> QED
  BY <1>1, <1>2, <1>3

LEMMA SaveAnsweredMoves ==
  ASSUME PageInductive, NEW c \in DOMAIN calls, SaveAnswered(c)
  PROVE  PageInductive'
<1> DEFINE n == calls[c].id
           t == calls[c].text
<1>1. /\ UNCHANGED <<rows, files, posts, loops, doubled, shown, loads, undone>> /\ EndCall(c)
      /\ calls[c].at = "done" /\ calls[c].op = "save"
      /\ list' = Rewritten(n, t)
      /\ form' = IF calls[c].own
                 THEN [form EXCEPT !.busy = FALSE, !.editing = FALSE,
                                   !.typed = form.typed /\ (shown.id # n \/ form.text # t)]
                 ELSE form
      /\ dirty' = (dirty \/ rows[n].text # t)
  BY DEF SaveAnswered, server, uploads, Rewritten
<1>2. /\ rows \in Seq(Row) /\ loads \in Seq(Load) /\ list \in Seq(Item) /\ calls \in Seq(Request)
      /\ CallsTyped /\ LoadsTyped /\ ListTyped /\ UploadsOK /\ ModalSound /\ ModalTyped
      /\ GallerySound /\ dirty \in BOOLEAN /\ form \in Form
  BY DEF PageInductive, PageTyped, LoadsTyped, ListTyped, CallsTyped, ModalTyped
<1>3. Pending(calls[c]) /\ n \in DOMAIN rows /\ t \in Text
  <2>1. calls[c] \in Request
    BY <1>2, Members
  <2>2. Pending(calls[c])
    BY <1>1 DEF Pending
  <2> QED
    BY <1>2, <2>1, <2>2 DEF Request, CallsTyped
<1>4. /\ calls' \in Seq(Request) /\ DOMAIN calls' = DOMAIN calls
      /\ calls'[c].at = "over" /\ ~Pending(calls'[c])
      /\ \A d \in DOMAIN calls : d # c => calls'[d] = calls[d]
  BY <1>1, <1>2, EndCallIs
<1> HIDE DEF n, t
<1>5. /\ list' \in Seq(Item) /\ DOMAIN list' = DOMAIN list
      /\ \A i \in DOMAIN list : /\ list'[i].id = list[i].id
                                /\ list'[i].text = IF list[i].id = n THEN t ELSE list[i].text
  BY <1>1, <1>2, <1>3, SavedIs
<1>6. /\ form' \in Form /\ form'.from = form.from /\ form'.text = form.text
      /\ ~calls[c].own => form' = form
      /\ form'.typed = form.typed \/ (shown.id = n /\ form.text = t)
  <2> DEFINE b == form.typed /\ (shown.id # n \/ form.text # t)
  <2>1. b \in BOOLEAN /\ (b = form.typed \/ (shown.id = n /\ form.text = t))
    BY <1>2 DEF Form
  <2>2. form' = IF calls[c].own THEN [form EXCEPT !.busy = FALSE, !.editing = FALSE, !.typed = b] ELSE form
    BY <1>1
  <2> HIDE DEF b
  <2>3. CASE calls[c].own
    BY <1>2, <2>1, <2>2, <2>3 DEF Form
  <2>4. CASE ~calls[c].own
    BY <1>2, <2>2, <2>4
  <2> QED
    BY <2>3, <2>4
<1>7. PageTyped' /\ UploadsOK'
  <2>1. CallsTyped'
    BY <1>1, <1>2, <1>4, CallsTypedStay
  <2>2. LoadsTyped' /\ ListTyped' /\ ModalTyped'
    BY <1>1, <1>2, <1>5, <1>6 DEF LoadsTyped, ListTyped, ModalTyped
  <2>3. UploadsOK'
    BY <1>1, <1>2, UploadsStay
  <2>4. dirty' \in BOOLEAN
    BY <1>1
  <2> QED
    BY <1>1, <1>2, <2>1, <2>2, <2>3, <2>4 DEF PageTyped
<1>8. ModalSound'
  BY <1>1, <1>2, <1>3, <1>4, <1>6, EndOfCall DEF n, t
<1>9. /\ \A m : DoneDelete(m) => DoneDelete(m)'
      /\ \A m, s : DoneSave(m, s) => DoneSave(m, s)' \/ (m = n /\ s = t)
      /\ DeletesSound'
  BY <1>1, <1>2, <1>4, EndDone DEF GallerySound, n, t
<1>10. \A m : (IsListed(m)' <=> IsListed(m)) /\ (Fresh(m)' <=> Fresh(m))
  BY <1>1, <1>5 DEF IsListed, Fresh
<1>11. ASSUME ~dirty' PROVE ListSound' /\ FreshSound'
  <2>1. ListSound /\ FreshSound /\ rows[n].text = t
    BY <1>1, <1>2, <1>11 DEF GallerySound
  <2>2. ListsOnce'
    BY <1>5, <2>1 DEF ListSound, ListsOnce
  <2>3. ASSUME NEW i \in DOMAIN list PROVE ListsRight(list[i])'
    <3>1. ListsRight(list[i])
      BY <2>1 DEF ListSound
    <3> QED
      BY <1>1, <1>5, <1>9, <2>1, <3>1 DEF ListsRight
  <2>4. ListsAll'
    BY <1>1, <1>10, <2>1 DEF ListSound, ListsAll
  <2>5. FreshSound'
    BY <1>1, <1>4, <1>10, <2>1 DEF FreshSound
  <2> QED
    BY <1>5, <2>2, <2>3, <2>4, <2>5 DEF ListSound
<1>12. LoadsSound'
  <2>1. Listed' = Listed /\ (Unanswered(posts)' <=> Unanswered(posts))
    BY <1>1 DEF Listed, Entry, Unanswered
  <2> QED
    BY <1>1, <1>2, <2>1 DEF GallerySound, LoadsSound
<1> QED
  BY <1>7, <1>8, <1>9, <1>11, <1>12 DEF PageInductive, GallerySound

LEMMA DeleteAnsweredMoves ==
  ASSUME PageInductive, NEW c \in DOMAIN calls, DeleteAnswered(c)
  PROVE  PageInductive'
<1> DEFINE n == calls[c].id
<1>1. /\ UNCHANGED <<rows, files, posts, loops, doubled, loads, undone, dirty>> /\ EndCall(c)
      /\ calls[c].at = "done" /\ calls[c].op = "delete"
      /\ list' = Spared(n) /\ shown' = Nothing
      /\ form' = IF calls[c].own THEN [form EXCEPT !.busy = FALSE] ELSE form
  BY DEF DeleteAnswered, server, uploads, Spared
<1>2. /\ rows \in Seq(Row) /\ loads \in Seq(Load) /\ list \in Seq(Item) /\ calls \in Seq(Request)
      /\ CallsTyped /\ LoadsTyped /\ ListTyped /\ UploadsOK /\ ModalSound /\ ModalTyped
      /\ GallerySound /\ dirty \in BOOLEAN /\ form \in Form
  BY DEF PageInductive, PageTyped, LoadsTyped, ListTyped, CallsTyped, ModalTyped
<1>3. Pending(calls[c]) /\ rows[n].gone
  BY <1>1, <1>2 DEF Pending, GallerySound, DeletesSound
<1>4. /\ calls' \in Seq(Request) /\ DOMAIN calls' = DOMAIN calls
      /\ calls'[c].at = "over" /\ ~Pending(calls'[c])
      /\ \A d \in DOMAIN calls : d # c => calls'[d] = calls[d]
  BY <1>1, <1>2, EndCallIs
<1> HIDE DEF n
<1>5. /\ list' \in Seq(Item)
      /\ \A k \in DOMAIN list' : \E j \in DOMAIN list : list'[k] = list[j] /\ list[j].id # n
      /\ \A j \in DOMAIN list : list[j].id # n => \E k \in DOMAIN list' : list'[k] = list[j]
      /\ \A k, l \in DOMAIN list' : k # l =>
           \E i, j \in DOMAIN list : i # j /\ list'[k] = list[i] /\ list'[l] = list[j]
  BY <1>1, <1>2, RemovedIs
<1>6. /\ form' \in Form /\ form'.from = form.from /\ form'.text = form.text
      /\ ~calls[c].own => form' = form
      /\ form'.typed = form.typed
  BY <1>1, <1>2 DEF Form
<1>7. PageTyped' /\ UploadsOK'
  <2>1. CallsTyped'
    BY <1>1, <1>2, <1>4, CallsTypedStay
  <2>2. LoadsTyped' /\ ModalTyped'
    BY <1>1, <1>2, <1>6, LiteralsAre DEF LoadsTyped, ModalTyped
  <2>5. ListTyped'
    <3>1. \A j \in DOMAIN list : list[j].id \in DOMAIN rows
      BY <1>2 DEF ListTyped
    <3>2. \A k \in DOMAIN list' : list'[k].id \in DOMAIN rows
      BY <1>5, <3>1
    <3> QED
      BY <1>1, <1>5, <3>2 DEF ListTyped
  <2>3. UploadsOK'
    BY <1>1, <1>2, UploadsStay
  <2> QED
    BY <1>1, <1>2, <2>1, <2>2, <2>3, <2>5 DEF PageTyped
<1>8. ModalSound'
  BY <1>1, <1>2, <1>3, <1>4, <1>6, EndOfCall
<1>9. /\ \A m : DoneDelete(m) => DoneDelete(m)' \/ m = n
      /\ \A m, s : DoneSave(m, s) => DoneSave(m, s)'
      /\ DeletesSound'
  BY <1>1, <1>2, <1>4, EndDone DEF GallerySound, n
<1>10. \A m : /\ IsListed(m)' <=> IsListed(m) /\ m # n
              /\ Fresh(m)' <=> Fresh(m)
  <2>1. ASSUME NEW m, IsListed(m)' PROVE IsListed(m) /\ m # n
    BY <1>5, <2>1 DEF IsListed
  <2>2. ASSUME NEW m, IsListed(m), m # n PROVE IsListed(m)'
    <3>1. PICK j \in DOMAIN list : list[j].id = m
      BY <2>2 DEF IsListed
    <3>2. PICK k \in DOMAIN list' : list'[k] = list[j]
      BY <1>5, <2>2, <3>1
    <3> QED
      BY <3>1, <3>2 DEF IsListed
  <2>3. ASSUME NEW m PROVE Fresh(m)' <=> Fresh(m)
    BY <1>1 DEF Fresh
  <2> QED
    BY <2>1, <2>2, <2>3
<1>11. ASSUME ~dirty' PROVE ListSound' /\ FreshSound'
  <2>1. ListSound /\ FreshSound
    BY <1>1, <1>2, <1>11 DEF GallerySound
  <2>2. ListsOnce'
    <3> SUFFICES ASSUME NEW k \in DOMAIN list', NEW l \in DOMAIN list', list'[k].id = list'[l].id, k # l PROVE FALSE
      BY DEF ListsOnce
    <3>1. PICK i, j \in DOMAIN list : i # j /\ list'[k] = list[i] /\ list'[l] = list[j]
      BY <1>5
    <3> QED
      BY <2>1, <3>1 DEF ListSound, ListsOnce
  <2>3. ASSUME NEW k \in DOMAIN list' PROVE ListsRight(list[k])'
    <3>1. PICK j \in DOMAIN list : list'[k] = list[j] /\ list[j].id # n
      BY <1>5
    <3>2. ListsRight(list[j])
      BY <2>1 DEF ListSound
    <3> QED
      BY <1>1, <1>9, <3>1, <3>2 DEF ListsRight
  <2>4. ListsAll'
    BY <1>1, <1>3, <1>10, <2>1 DEF ListSound, ListsAll
  <2>5. FreshSound'
    <3> SUFFICES ASSUME NEW m \in DOMAIN rows, Fresh(m)
                 PROVE  /\ ~rows[m].gone /\ rows[m].text = Pristine
                        /\ ~IsListed(m) /\ Nothing.id # m
                        /\ \A d \in DOMAIN calls' : Pending(calls'[d]) => calls'[d].id # m
      BY <1>1, <1>10 DEF FreshSound
    <3>1. m # 0
      BY <1>2, Members
    <3> QED
      BY <1>4, <2>1, <3>1, LiteralsAre DEF FreshSound
  <2> QED
    BY <1>5, <2>2, <2>3, <2>4, <2>5 DEF ListSound
<1>12. LoadsSound'
  <2>1. Listed' = Listed /\ (Unanswered(posts)' <=> Unanswered(posts))
    BY <1>1 DEF Listed, Entry, Unanswered
  <2> QED
    BY <1>1, <1>2, <2>1 DEF GallerySound, LoadsSound
<1> QED
  BY <1>7, <1>8, <1>9, <1>11, <1>12 DEF PageInductive, GallerySound

LEMMA CallFailsMoves ==
  ASSUME PageInductive, NEW c \in DOMAIN calls, CallFails(c)
  PROVE  PageInductive'
<1>1. /\ UNCHANGED <<rows, list, files, posts, loops, doubled, shown, loads, undone>> /\ EndCall(c)
      /\ Pending(calls[c])
      /\ form' = IF calls[c].own THEN [form EXCEPT !.busy = FALSE] ELSE form
      /\ dirty' = (dirty \/ calls[c].at = "done")
  BY DEF CallFails, context, uploads
<1>2. /\ rows \in Seq(Row) /\ calls \in Seq(Request)
      /\ CallsTyped /\ LoadsTyped /\ ListTyped /\ UploadsOK /\ ModalSound /\ ModalTyped
      /\ GallerySound /\ dirty \in BOOLEAN /\ form \in Form
  BY DEF PageInductive, PageTyped, LoadsTyped, ListTyped, CallsTyped, ModalTyped
<1>3. /\ calls' \in Seq(Request) /\ DOMAIN calls' = DOMAIN calls
      /\ calls'[c].at = "over" /\ ~Pending(calls'[c])
      /\ \A d \in DOMAIN calls : d # c => calls'[d] = calls[d]
  BY <1>1, <1>2, EndCallIs
<1>4. /\ form' \in Form /\ form'.from = form.from /\ form'.text = form.text
      /\ ~calls[c].own => form' = form
      /\ form'.typed = form.typed
  BY <1>1, <1>2 DEF Form
<1>5. PageTyped' /\ UploadsOK'
  <2>1. CallsTyped'
    BY <1>1, <1>2, <1>3, CallsTypedStay
  <2>2. LoadsTyped' /\ ListTyped' /\ ModalTyped'
    BY <1>1, <1>2, <1>4 DEF LoadsTyped, ListTyped, ModalTyped
  <2>3. UploadsOK'
    BY <1>1, <1>2, UploadsStay
  <2>4. dirty' \in BOOLEAN
    BY <1>1
  <2> QED
    BY <1>1, <1>2, <2>1, <2>2, <2>3, <2>4 DEF PageTyped
<1>6. ModalSound'
  BY <1>1, <1>2, <1>3, <1>4, EndOfCall
<1>7. GallerySound'
  <2>1. CASE calls[c].at = "done"
    <3>1. DeletesSound'
      BY <1>1, <1>2, <1>3, EndDone DEF GallerySound
    <3>2. LoadsSound'
      <4>1. Listed' = Listed /\ (Unanswered(posts)' <=> Unanswered(posts))
        BY <1>1 DEF Listed, Entry, Unanswered
      <4> QED
        BY <1>1, <1>2, <4>1 DEF GallerySound, LoadsSound
    <3> QED
      BY <1>1, <2>1, <3>1, <3>2 DEF GallerySound
  <2>2. CASE calls[c].at # "done"
    <3>1. CallsCarry
      BY <1>3, <2>2 DEF CallsCarry, Same
    <3> QED
      BY <1>1, <1>2, <2>2, <3>1, GalleryStays, PostsStaySo, LoadsStay
  <2> QED
    BY <2>1, <2>2
<1> QED
  BY <1>5, <1>6, <1>7 DEF PageInductive

(* Others write a row: from there the list and the form are out of date.   *)
LEMMA WrittenMoves ==
  ASSUME PageInductive, NEW m \in DOMAIN rows, WrittenElsewhere(m)
  PROVE  PageInductive'
<1>1. /\ UNCHANGED <<list, files, posts, loops, doubled, shown, undone>> /\ Outdate
      /\ rows' = [rows EXCEPT ![m].text = Elsewhere]
      /\ dirty' = TRUE /\ form' = [form EXCEPT !.from = "outdated"] /\ calls' = Overtaken(calls)
  BY DEF WrittenElsewhere, context, uploads
<1>2. /\ rows \in Seq(Row) /\ loads \in Seq(Load) /\ calls \in Seq(Request)
      /\ CallsTyped /\ LoadsTyped /\ ListTyped /\ UploadsOK /\ ModalSound /\ ModalTyped
      /\ GallerySound /\ form \in Form
  BY DEF PageInductive, PageTyped, LoadsTyped, CallsTyped, ModalTyped
<1>3. /\ rows' \in Seq(Row) /\ DOMAIN rows' = DOMAIN rows
      /\ rows'[m].card = rows[m].card /\ rows'[m].gone = rows[m].gone
      /\ \A n \in DOMAIN rows : n # m => rows'[n] = rows[n]
  BY <1>1, <1>2, LiteralsAre, SaidIs
<1>4. /\ loads' \in Seq(Load) /\ DOMAIN loads' = DOMAIN loads
      /\ \A l \in DOMAIN loads :
           /\ loads'[l].at = loads[l].at /\ loads'[l].snap = loads[l].snap
           /\ loads[l].at = "read" => loads'[l].stale
  BY <1>1, <1>2, OutdateIs
<1>5. /\ calls' \in Seq(Request) /\ DOMAIN calls' = DOMAIN calls
      /\ \A c \in DOMAIN calls :
           /\ Same(calls'[c], calls[c]) /\ calls'[c].own = calls[c].own /\ calls'[c].from # "open"
  BY <1>1, <1>2, OvertakenIs
<1>6. form' \in Form /\ form'.from = "outdated" /\ form'.busy = form.busy
  BY <1>1, <1>2 DEF Form, Sources
<1>7. \A c \in DOMAIN calls :
        /\ Pending(calls'[c]) <=> Pending(calls[c])
        /\ calls'[c].id = calls[c].id /\ calls'[c].at = calls[c].at /\ calls'[c].op = calls[c].op
  BY <1>5, SameIs
<1>8. PageTyped' /\ UploadsOK'
  <2>1. LoadsTyped'
    BY <1>2, <1>3, <1>4, LoadsTypedStays
  <2>2. CallsTyped'
    BY <1>2, <1>3, <1>5, <1>7, CallsTypedStay
  <2>3. ListTyped' /\ ModalTyped'
    BY <1>1, <1>2, <1>3, <1>6 DEF ListTyped, ModalTyped
  <2>4. UploadsOK'
    BY <1>1, <1>2, <1>3, UploadsStay
  <2> QED
    BY <1>1, <1>3, <2>1, <2>2, <2>3, <2>4 DEF PageTyped
<1>9. GallerySound'
  <2>1. \A c \in DOMAIN calls : calls[c].at = "done" => calls[c].id \in DOMAIN rows
    BY <1>2 DEF CallsTyped, Pending
  <2>2. DeletesSound'
    BY <1>2, <1>3, <1>5, <1>7, <2>1 DEF GallerySound, DeletesSound
  <2>3. LoadsSound'
    BY <1>4 DEF LoadsSound
  <2> QED
    BY <1>1, <2>2, <2>3 DEF GallerySound
<1>10. ModalSound'
  <2>1. OpenSound'
    BY <1>6 DEF OpenSound
  <2>2. CallsSound'
    BY <1>2, <1>5, <1>6, <1>7 DEF ModalSound, CallsSound
  <2> QED
    BY <1>1, <1>2, <2>1, <2>2 DEF ModalSound
<1> QED
  BY <1>8, <1>9, <1>10 DEF PageInductive
-----------------------------------------------------------------------------
(* The specification.                                                      *)

LEMMA InitSound == Init => PageInductive
<1> SUFFICES ASSUME Init PROVE PageInductive
  OBVIOUS
<1> DEFINE x == [card |-> Pristine, text |-> Pristine, gone |-> FALSE]
<1>1. /\ rows = <<x>> /\ list = <<>> /\ files = <<>> /\ posts = <<>> /\ loops = <<>>
      /\ shown = Nothing /\ form = Closed /\ loads = <<>> /\ calls = <<>>
      /\ dirty = TRUE /\ doubled = {} /\ undone = {}
  BY DEF Init
<1>2. x \in Row
  BY LiteralsAre DEF Row
<1> HIDE DEF x
<1>3. rows \in Seq(Row) /\ DOMAIN rows = {1}
  BY <1>1, <1>2
<1>4. form \in Form
  BY <1>1, LiteralsAre DEF Closed, Form, Sources
<1>5. PageTyped
  BY <1>1, <1>3, <1>4, LiteralsAre DEF PageTyped, ListTyped, LoadsTyped, CallsTyped, ModalTyped
<1>6. UploadsOK
  <2>1. PostsSound
    BY <1>1 DEF PostsSound
  <2>2. CardsDiffer(files)
    BY <1>1 DEF CardsDiffer
  <2>3. ASSUME NEW c PROVE Once(c, rows, posts, loops, files)
    <3>1. OneRow(rows, c)
      BY <1>3 DEF OneRow
    <3>2. OnePost(posts, c) /\ OnePlace(loops, c) /\ ~HasPost(posts, c) /\ ~HasPlace(loops, c)
          /\ ~Offered(files, c)
      BY <1>1 DEF OnePost, OnePlace, HasPost, HasPlace, Offered
    <3> QED
      BY <3>1, <3>2 DEF Once
  <2> QED
    BY <1>1, <1>3, <2>1, <2>2, <2>3 DEF UploadsOK, UploadsSound
<1>7. GallerySound
  BY <1>1 DEF GallerySound, DeletesSound, LoadsSound
<1>8. ModalSound
  BY <1>1 DEF ModalSound, OpenSound, CallsSound
<1> QED
  BY <1>5, <1>6, <1>7, <1>8 DEF PageInductive

LEMMA NextInductive == PageInductive /\ [Next]_vars => PageInductive'
<1> SUFFICES ASSUME PageInductive, [Next]_vars PROVE PageInductive'
  OBVIOUS
<1>1. ASSUME NEW p \in {"gallery", "upload"}, Navigate(p) PROVE PageInductive'
  BY <1>1, NavigateMoves
<1>2. CASE Retry
  BY <1>2, RetryOrFail
<1>3. ASSUME NEW l \in DOMAIN loads, ReadList(l) \/ LoadArrives(l) \/ LoadFails(l)
      PROVE  PageInductive'
  BY <1>3, ReadListMoves, LoadArrivesMoves, RetryOrFail
<1>4. ASSUME NEW c \in Cards, Pick(c) \/ RemoveFile(c) \/ Sweep(c) \/ UploadOne(c)
      PROVE  PageInductive'
  BY <1>4, FilesMove
<1>5. CASE UploadAll
  BY <1>5, UploadAllMoves
<1>6. ASSUME NEW i \in DOMAIN posts, StoreUpload(i) \/ UploadAnswered(i) \/ UploadFails(i)
      PROVE  PageInductive'
  BY <1>6, StoreUploadMoves, UploadAnsweredMoves, UploadFailsMoves
<1>7. ASSUME NEW i \in DOMAIN list, Open(list[i]) PROVE PageInductive'
  BY <1>7, OpenMoves
<1>8. CASE Close
  BY <1>8, CloseMoves
<1>9. CASE Edit \/ Cancel \/ \E t \in Texts : Type(t)
  BY <1>9, EditTypeCancel
<1>10. CASE Save \/ Delete
  BY <1>10, CallMoves DEF Save, Delete
<1>11. ASSUME NEW c \in DOMAIN calls,
              CommitCall(c) \/ SaveAnswered(c) \/ DeleteAnswered(c) \/ CallFails(c)
       PROVE  PageInductive'
  BY <1>11, CommitMoves, SaveAnsweredMoves, DeleteAnsweredMoves, CallFailsMoves
<1>12. ASSUME NEW m \in DOMAIN rows, WrittenElsewhere(m) PROVE PageInductive'
  BY <1>12, WrittenMoves
<1>13. CASE UNCHANGED vars
  <2>1. /\ UNCHANGED <<rows, list, loads, posts, files, loops, doubled, dirty, calls, undone, shown, form>>
    BY <1>13 DEF vars, server, context, uploads, modal
  <2>2. UploadsOK'
    BY <2>1, UploadsStay DEF PageInductive, PageTyped
  <2> QED
    BY <2>1, <2>2, PostsStaySo, UploadsMove
<1> QED
  BY <1>1, <1>2, <1>3, <1>4, <1>5, <1>6, <1>7, <1>8, <1>9, <1>10, <1>11, <1>12, <1>13 DEF Next

LEMMA PageStaysSound == Spec => []PageInductive
<1> QED
  BY InitSound, NextInductive, PTL DEF Spec

(* A file that was picked is stored once, but for the exceptions that      *)
(* `doubled` records: so uploadSingleFile and uploadAll of the upload page *)
(* see to it, whatever the order of clicks, answers and timers.            *)
THEOREM FilesAreStoredOnce == Spec => []StoredOnceUnlessExcused
<1>1. PageInductive => StoredOnceUnlessExcused
  BY OneRowIsOnce DEF PageInductive, UploadsOK, UploadsSound, Once, StoredOnceUnlessExcused
<1> QED
  BY <1>1, PageStaysSound, PTL

-----------------------------------------------------------------------------
(* A list that shows each row that is there once counts them.              *)

LEMMA ListsCount ==
  ASSUME NEW s, Lists(s), NEW M
  PROVE  Cardinality({i \in DOMAIN s : s[i].id \in M}) =
           Cardinality({m \in DOMAIN rows : ~rows[m].gone /\ m \in M})
<1> DEFINE A == {i \in DOMAIN s : s[i].id \in M}
           B == {m \in DOMAIN rows : ~rows[m].gone /\ m \in M}
           h == [i \in A |-> s[i].id]
<1>1. h \in Bijection(A, B)
  BY DEF Lists, Bijection, Injection, Surjection, IsInjective
<1>2. IsFiniteSet(A)
  <2>1. DOMAIN s = 1 .. Len(s) /\ Len(s) \in Nat
    BY Members DEF Lists
  <2>2. IsFiniteSet(1 .. Len(s))
    BY <2>1, FS_Interval
  <2> QED
    BY <2>1, <2>2, FS_Subset
<1> QED
  BY <1>1, <1>2, FS_Bijection DEF ExistsBijection

LEMMA ListsLength ==
  ASSUME NEW s, Lists(s)
  PROVE  Len(s) = Cardinality({m \in DOMAIN rows : ~rows[m].gone})
<1> DEFINE M == DOMAIN rows
<1>1. {i \in DOMAIN s : s[i].id \in M} = 1 .. Len(s) /\ Len(s) \in Nat
  BY Members DEF Lists
<1>2. {m \in DOMAIN rows : ~rows[m].gone /\ m \in M} = {m \in DOMAIN rows : ~rows[m].gone}
  OBVIOUS
<1>3. Cardinality(1 .. Len(s)) = Len(s)
  <2>1. 1 \in Int /\ Len(s) \in Int
    BY <1>1
  <2>2. Cardinality(1 .. Len(s)) = IF 1 > Len(s) THEN 0 ELSE Len(s) - 1 + 1
    BY <2>1, FS_Interval
  <2> QED
    BY <1>1, <2>2
<1> HIDE DEF M
<1>4. Cardinality({i \in DOMAIN s : s[i].id \in M}) =
        Cardinality({m \in DOMAIN rows : ~rows[m].gone /\ m \in M})
  BY ListsCount
<1> QED
  BY <1>1, <1>2, <1>3, <1>4

LEMMA ListsAreSame ==
  ASSUME NEW s, NEW t, Lists(s), Lists(t)
  PROVE  Len(s) = Len(t) /\ Range(s) = Range(t)
<1>1. ASSUME NEW u, NEW v, Lists(u), Lists(v), NEW i \in DOMAIN u
      PROVE  \E j \in DOMAIN v : v[j] = u[i]
  <2>0. u[i].id \in DOMAIN rows /\ ~rows[u[i].id].gone
    BY <1>1 DEF Lists
  <2>1. PICK j \in DOMAIN v : v[j].id = u[i].id
    BY <1>1, <2>0 DEF Lists
  <2>2. v[j].text = u[i].text
    <3>1. v[j].text = rows[v[j].id].text
      BY <1>1 DEF Lists
    <3>2. u[i].text = rows[u[i].id].text
      BY <1>1 DEF Lists
    <3> QED
      BY <2>1, <3>1, <3>2
  <2>3. u[i] \in Item /\ v[j] \in Item
    BY <1>1, Members DEF Lists
  <2> QED
    BY <2>1, <2>2, <2>3 DEF Item
<1>2. Range(s) = Range(t)
  BY <1>1 DEF Range
<1>3. Len(s) = Len(t)
  BY ListsLength
<1> QED
  BY <1>2, <1>3

(* The statistics page counts a list by its dates of upload.               *)
LEMMA GrowthCounts ==
  ASSUME NEW s, Lists(s), NEW i \in DOMAIN Growth(s)
  PROVE  Growth(s)[i].count =
           Cardinality({m \in DOMAIN rows : ~rows[m].gone /\ UploadedOn(Entry(m)) <= Growth(s)[i].date})
<1> DEFINE day == Days(s)[i]
           K == {e \in Range(s) : UploadedOn(e) <= day}
           M == {m \in DOMAIN rows : m \div 2 <= day}
<1>1. Growth(s)[i].date = day /\ Growth(s)[i].count = Len(Kept(s, K))
  BY DEF Growth, Grown
<1> HIDE DEF day
<1>2. {j \in DOMAIN s : s[j] \in K} = {j \in DOMAIN s : s[j].id \in M}
  BY DEF UploadedOn, Range, Lists
<1>3. {m \in DOMAIN rows : ~rows[m].gone /\ UploadedOn(Entry(m)) <= day} =
        {m \in DOMAIN rows : ~rows[m].gone /\ m \in M}
  BY DEF UploadedOn, Entry
<1> HIDE DEF K, M
<1>4. Len(Kept(s, K)) = Cardinality({j \in DOMAIN s : s[j] \in K})
  <2>1. s \in Seq(Item)
    BY DEF Lists
  <2> QED
    BY ONLY <2>1, KeptLength
<1>5. Cardinality({j \in DOMAIN s : s[j].id \in M}) =
        Cardinality({m \in DOMAIN rows : ~rows[m].gone /\ m \in M})
  BY ListsCount
<1> QED
  BY <1>1, <1>2, <1>3, <1>4, <1>5

(* When no answer is awaited, the list of the gallery is that of the API,  *)
(* and what the statistics page makes of it is right, unless something     *)
(* that `dirty` records has happened since the last load.                  *)
THEOREM GalleryComesToMatch == Spec => []GalleryMatchesRowsUnlessRaced
<1>1. PageInductive => GalleryMatchesRowsUnlessRaced
  <2> SUFFICES ASSUME PageInductive, ~dirty, ~Unanswered(posts), ~Unanswered(calls)
               PROVE  /\ Len(list) = Len(Listed) /\ Range(list) = Range(Listed)
                      /\ \A i \in DOMAIN Growth(list) :
                           Growth(list)[i].count =
                             Cardinality({m \in DOMAIN rows :
                               ~rows[m].gone /\ UploadedOn(Entry(m)) <= Growth(list)[i].date})
    BY DEF GalleryMatchesRowsUnlessRaced
  <2>1. ListSound /\ ListTyped /\ rows \in Seq(Row)
    BY DEF PageInductive, PageTyped, GallerySound
  <2>2. \A m : ~Fresh(m) /\ ~DoneDelete(m) /\ \A t : ~DoneSave(m, t)
    BY DEF Fresh, DoneDelete, DoneSave, Unanswered
  <2>3. Lists(list)
    <3>1. list \in Seq(Item) /\ \A i \in DOMAIN list : list[i].id \in DOMAIN rows
      BY <2>1 DEF ListTyped
    <3>2. \A i \in DOMAIN list : ~rows[list[i].id].gone /\ list[i].text = rows[list[i].id].text
      BY <2>1, <2>2 DEF ListSound, ListsRight
    <3>3. \A i, j \in DOMAIN list : list[i].id = list[j].id => i = j
      BY <2>1 DEF ListSound, ListsOnce
    <3>4. \A m \in DOMAIN rows : ~rows[m].gone => \E i \in DOMAIN list : list[i].id = m
      BY <2>1, <2>2 DEF ListSound, ListsAll, IsListed
    <3> QED
      BY <3>1, <3>2, <3>3, <3>4 DEF Lists
  <2>4. Lists(Listed)
    BY <2>1, ListedIs
  <2> QED
    BY <2>3, <2>4, ListsAreSame, GrowthCounts
<1> QED
  BY <1>1, PageStaysSound, PTL

(* A save changes no text that its user has not typed over, but for the    *)
(* forms that were filled again or were out of date.                       *)
THEOREM NothingIsUndone == Spec => []NoSilentUndo
<1>1. PageInductive => NoSilentUndo
  BY DEF PageInductive, ModalSound, NoSilentUndo
<1> QED
  BY <1>1, PageStaysSound, PTL
=============================================================================
