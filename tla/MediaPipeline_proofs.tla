------------------------ MODULE MediaPipeline_proofs ------------------------
(***************************************************************************)
(* Theorems about MediaPipeline, for any media, slots, names, requests and *)
(* mishaps.                                                                *)
(*                                                                         *)
(*   MediaTypeCorrect    the type invariant                                *)
(*   FilesAndRowsMatch   files and rows part only where a step was cut off *)
(*   TwinsComeFromRaces  tags differ only in case after a race             *)
(*   CommitsAreHandled   no message is committed untried                   *)
(*   TagsAreAsWanted     a media at rest has the tags it was given last    *)
(*                                                                         *)
(* MediaInductive has a part for each of the first four: the types, the    *)
(* files, the tags and the worker.  The lemmas say for each part which     *)
(* steps leave it alone; then come the steps, one by one.  WantedSound,    *)
(* for the last, is inductive together with MediaInductive; it follows.    *)
(***************************************************************************)
EXTENDS MediaPipeline, SequenceTheorems, FiniteSetTheorems, TLAPS

(* An upload that has not inserted its row is alone with its media.        *)
Unborn(r) == At(r, "store") \/ At(r, "copy") \/ At(r, "insert")

Alone ==
  \A r \in Slots : Unborn(r) =>
    /\ rows[req[r].id] = NoRow
    /\ req[r].id \in files <=> ~At(r, "store")
    /\ \A s \in Slots \ {r} : Busy(s) => req[s].id # req[r].id
    /\ \A i \in DOMAIN log : log[i] # req[r].id

(* Ids are minted by uploads, and never twice.                             *)
Minted ==
  /\ minted \subseteq Media /\ files \subseteq minted
  /\ \A m \in Media : rows[m] # NoRow => m \in minted
  /\ \A r \in Slots : Busy(r) => req[r].id \in minted
  /\ \A i \in DOMAIN log : log[i] \in minted

(* The file goes before the row.                                           *)
Unlinked == \A r \in Slots : At(r, "erase") => req[r].id \notin files

FilesSound == Alone /\ Minted /\ Unlinked /\ FilesMatchRows

(* A name that is about to become a tag, and has got a twin since it was   *)
(* looked up, is known to have been raced.                                 *)
TagsSound ==
  /\ \A r \in Slots : At(r, "create") =>
       /\ req[r].name \in Names
       /\ \A t \in tags : Lower[t] = Lower[req[r].name] => req[r].name \in raced
  /\ CaseTwinsOnlyByRace

(* All messages before the one at hand are handled, and that one too when  *)
(* the worker is about to commit it or to go on.                           *)
InHand == job.pc \in {"fetch", "describe", "put", "await"}
JobSound ==
  /\ handled \in [done : SUBSET Nat, failed : SUBSET Nat]
  /\ job.slot \in Slots => job.pc = "await"
  /\ InHand => job.at \in DOMAIN log
  /\ \A i \in 1 .. job.at : (i = job.at /\ InHand) \/ i \in handled.done \cup handled.failed
  /\ CommittedWereHandled

MediaInductive == MediaTypeOK /\ FilesSound /\ TagsSound /\ JobSound

-----------------------------------------------------------------------------
(* What leaves each part alone.                                            *)

(* One slot changes.                                                       *)
LEMMA SlotChanges ==
  ASSUME MediaTypeOK, NEW r \in Slots, NEW q \in Request \cup {Idle},
         req' = [req EXCEPT ![r] = q]
  PROVE  /\ req' \in [Slots -> Request \cup {Idle}] /\ req'[r] = q
         /\ \A s \in Slots : s # r => req'[s] = req[s]
BY DEF MediaTypeOK

(* A request goes on, or ends: the rows that exist, and the files, stay.   *)
LEMMA FilesStay ==
  ASSUME MediaTypeOK, FilesSound, NEW r \in Slots, Busy(r),
         \A s \in Slots : s # r => req'[s] = req[s],
         \/ req'[r] = Idle
         \/ req'[r].id = req[r].id /\ req'[r].pc \notin {"store", "copy", "insert", "erase"},
         req[r].pc \in {"copy", "insert", "erase"} => req[r].id \in torn',
         UNCHANGED <<files, minted>>, torn \subseteq torn',
         \A m \in Media : rows'[m] = NoRow <=> rows[m] = NoRow,
         \A i \in DOMAIN log' : (i \in DOMAIN log /\ log'[i] = log[i]) \/ log'[i] = req[r].id,
         req[r].pc # "store" \/ log' = log
  PROVE  FilesSound'
<1> USE DEF FilesSound
<1>1. req[r] \in Request /\ req[r].id \in Media
  BY DEF MediaTypeOK, Busy, Request
<1>2. ASSUME NEW s \in Slots, req'[s] # Idle
      PROVE  req[s] # Idle /\ req'[s].id = req[s].id
  BY <1>2 DEF Busy
<1>3. ASSUME NEW s \in Slots, req'[s] # Idle, req'[s].pc \in {"store", "copy", "insert", "erase"}
      PROVE  s # r /\ req'[s] = req[s]
  BY <1>3
<1>4. Alone'
  <2> SUFFICES ASSUME NEW s \in Slots, Unborn(s)'
               PROVE  /\ rows'[req'[s].id] = NoRow
                      /\ req'[s].id \in files' <=> ~At(s, "store")'
                      /\ \A u \in Slots \ {s} : Busy(u)' => req'[u].id # req'[s].id
                      /\ \A i \in DOMAIN log' : log'[i] # req'[s].id
    BY DEF Alone
  <2>1. s # r /\ req'[s] = req[s] /\ Unborn(s) /\ Busy(s)
    BY <1>3 DEF Unborn, At, Busy
  <2>2. /\ rows[req[s].id] = NoRow
        /\ req[s].id \in files <=> ~At(s, "store")
        /\ \A u \in Slots \ {s} : Busy(u) => req[u].id # req[s].id
        /\ \A i \in DOMAIN log : log[i] # req[s].id
    BY <2>1 DEF Alone
  <2>3. req[s].id \in Media
    BY <2>1 DEF MediaTypeOK, Busy, Request
  <2>4. \A u \in Slots \ {s} : Busy(u)' => req'[u].id # req'[s].id
    BY <1>2, <2>1, <2>2 DEF Busy
  <2>5. \A i \in DOMAIN log' : log'[i] # req'[s].id
    BY <2>1, <2>2
  <2> QED
    BY <2>1, <2>2, <2>3, <2>4, <2>5 DEF At, Busy
<1>5. Minted'
  <2>1. \A s \in Slots : Busy(s)' => req'[s].id \in minted
    BY <1>2 DEF Minted, Busy
  <2>2. \A i \in DOMAIN log' : log'[i] \in minted
    BY DEF Minted
  <2> QED
    BY <2>1, <2>2 DEF Minted
<1>6. Unlinked'
  BY <1>3 DEF Unlinked, At, Busy
<1>7. FilesMatchRows'
  <2> SUFFICES ASSUME NEW m \in Media,
                      ~((rows'[m] # NoRow) <=> (m \in files')), m \notin torn'
               PROVE  \E s \in Slots : Between(s)' /\ req'[s].id = m
    BY DEF FilesMatchRows
  <2>1. PICK s \in Slots : Between(s) /\ req[s].id = m
    BY DEF FilesMatchRows
  <2>2. s # r
    BY <2>1 DEF Between, At
  <2> QED
    BY <2>1, <2>2 DEF Between, At, Busy
<1> QED
  BY <1>4, <1>5, <1>6, <1>7

(* A request begins on a media that has been stored.                       *)
LEMMA FilesStart ==
  ASSUME MediaTypeOK, FilesSound, NEW r \in Slots, ~Busy(r),
         \A s \in Slots : s # r => req'[s] = req[s],
         req'[r].pc = "read", req'[r].id \in minted,
         \A s \in Slots : Unborn(s) => req[s].id # req'[r].id,
         UNCHANGED <<files, rows, log, minted, torn>>
  PROVE  FilesSound'
<1> USE DEF FilesSound
<1>1. ASSUME NEW s \in Slots, req'[s] # Idle, req'[s].pc \in {"store", "copy", "insert", "erase"}
      PROVE  s # r /\ req'[s] = req[s]
  BY <1>1
<1>2. Alone'
  BY <1>1 DEF Alone, Unborn, At, Busy
<1>3. Minted' /\ Unlinked'
  BY <1>1 DEF Minted, Unlinked, At, Busy
<1>4. FilesMatchRows'
  BY DEF FilesMatchRows, Between, At, Busy
<1> QED
  BY <1>2, <1>3, <1>4

LEMMA FilesSame ==
  ASSUME FilesSound, UNCHANGED <<files, rows, log, req, minted, torn>>
  PROVE  FilesSound'
BY DEF FilesSound, Alone, Minted, Unlinked, FilesMatchRows, Unborn, Between, At, Busy

(* Nobody is about to create a tag who was not before.                     *)
LEMMA TagsStay ==
  ASSUME TagsSound, UNCHANGED <<tags, raced>>,
         \A s \in Slots : At(s, "create")' => At(s, "create") /\ req'[s].name = req[s].name
  PROVE  TagsSound'
<1>1. CaseTwinsOnlyByRace'
  BY DEF TagsSound, CaseTwinsOnlyByRace
<1> QED
  BY <1>1 DEF TagsSound

LEMMA JobStays ==
  ASSUME JobSound, UNCHANGED <<job, committed, handled>>, DOMAIN log \subseteq DOMAIN log'
  PROVE  JobSound'
BY DEF JobSound, InHand, CommittedWereHandled

(* The answer of a request is the answer the worker waits for, or none of  *)
(* its business.                                                           *)
LEMMA ReplyKeepsJob ==
  ASSUME MediaTypeOK, JobSound, NEW r \in Slots, NEW ok \in BOOLEAN, Reply(r, ok),
         UNCHANGED committed, DOMAIN log \subseteq DOMAIN log'
  PROVE  /\ JobSound' /\ job' \in Job /\ job'.at = job.at
         /\ job'.pc = "await" => job'.slot # NoSlot
<1>1. job \in Job /\ job.at \in Nat /\ handled \in [done : SUBSET Nat, failed : SUBSET Nat]
  BY DEF MediaTypeOK, JobSound, Job
<1>2. CASE job.slot # r
  <2>1. UNCHANGED <<job, handled>>
    BY <1>2 DEF Reply
  <2> QED
    BY <1>1, <2>1, JobStays DEF MediaTypeOK
<1>3. CASE job.slot = r
  <2>1. job.pc = "await"
    BY <1>3 DEF JobSound
  <2>2. /\ job' \in Job /\ job'.at = job.at /\ job'.slot = NoSlot
        /\ job'.pc = IF ok THEN "commit" ELSE "consume"
    <3>1. job' = [job EXCEPT !.slot = NoSlot, !.pc = IF ok THEN "commit" ELSE "consume"]
      BY <1>3 DEF Reply
    <3> QED
      BY <1>1, <3>1 DEF Job
  <2>3. /\ handled' \in [done : SUBSET Nat, failed : SUBSET Nat]
        /\ handled'.done \cup handled'.failed = handled.done \cup handled.failed \cup {job.at}
    <3>1. handled' = IF ok THEN [handled EXCEPT !.done = @ \cup {job.at}]
                     ELSE [handled EXCEPT !.failed = @ \cup {job.at}]
      BY <1>3 DEF Reply
    <3>2. CASE ok
      BY <1>1, <3>1, <3>2
    <3>3. CASE ~ok
      BY <1>1, <3>1, <3>3
    <3> QED
      BY <3>2, <3>3
  <2>4. job'.pc # "await" /\ ~InHand' /\ job'.slot \notin Slots
    BY <2>2, MediaAssumption DEF InHand
  <2>5. \A i \in 1 .. job'.at : i \in handled'.done \cup handled'.failed
    BY <2>1, <2>2, <2>3 DEF JobSound
  <2>6. CommittedWereHandled'
    BY <2>3 DEF JobSound, CommittedWereHandled
  <2> QED
    BY <2>2, <2>3, <2>4, <2>5, <2>6 DEF JobSound
<1> QED
  BY <1>2, <1>3

(* Requests and mishaps are counted.                                       *)
LEMMA SpendType ==
  ASSUME MediaTypeOK, NEW k \in {"requests", "mishaps"}, NEW max, Spend(k, max)
  PROVE  spent' \in [{"requests", "mishaps"} -> Nat]
BY DEF MediaTypeOK, Spend

-----------------------------------------------------------------------------
(* Requests that go on or end.                                             *)

(* What a step of a request may do to the rest: amend rows that are there, *)
(* and announce its media.                                                 *)
Around(r) ==
  /\ UNCHANGED <<files, tags, committed, minted, raced>>
  /\ torn \subseteq torn' /\ (req[r].pc \in {"copy", "insert", "erase"} => req[r].id \in torn')
  /\ rows' \in [Media -> Row \cup {NoRow}]
  /\ \A m \in Media : rows'[m] = NoRow <=> rows[m] = NoRow
  /\ spent' \in [{"requests", "mishaps"} -> Nat]
  /\ log' = log \/ (req[r].pc = "publish" /\ log' = Append(log, req[r].id))

LEMMA BusyRequest ==
  ASSUME MediaTypeOK, NEW r \in Slots, Busy(r)
  PROVE  req[r] \in Request /\ req[r] # Idle /\ req[r].id \in Media
BY DEF MediaTypeOK, Busy, Request

LEMMA LogAround ==
  ASSUME MediaTypeOK, NEW r \in Slots, Busy(r), Around(r)
  PROVE  /\ log' \in Seq(Media) /\ Len(log) \in Nat /\ Len(log') \in Nat /\ Len(log) <= Len(log')
         /\ DOMAIN log \subseteq DOMAIN log'
         /\ \A i \in DOMAIN log' : (i \in DOMAIN log /\ log'[i] = log[i]) \/ log'[i] = req[r].id
         /\ req[r].pc # "store" \/ log' = log
<1>1. log \in Seq(Media) /\ req[r].id \in Media
  BY BusyRequest DEF MediaTypeOK
<1>2. Len(log) \in Nat /\ DOMAIN log = 1 .. Len(log)
  BY <1>1, LenProperties
<1>3. CASE log' = log
  BY <1>1, <1>2, <1>3
<1>4. CASE req[r].pc = "publish" /\ log' = Append(log, req[r].id)
  <2>1. /\ log' \in Seq(Media) /\ Len(log') = Len(log) + 1
        /\ \A i \in 1 .. Len(log) : log'[i] = log[i]
        /\ log'[Len(log) + 1] = req[r].id
    BY <1>1, <1>4, AppendProperties
  <2>2. DOMAIN log' = 1 .. Len(log')
    BY <2>1, LenProperties
  <2> QED
    BY <1>2, <1>4, <2>1, <2>2
<1> QED
  BY <1>3, <1>4 DEF Around

LEMMA RequestEnds ==
  ASSUME MediaInductive, NEW r \in Slots, Busy(r), NEW ok \in BOOLEAN, Reply(r, ok), Around(r)
  PROVE  MediaInductive'
<1> USE DEF MediaInductive
<1>1. /\ req' \in [Slots -> Request \cup {Idle}] /\ req'[r] = Idle
      /\ \A s \in Slots : s # r => req'[s] = req[s]
  BY SlotChanges DEF Reply
<1>2. /\ log' \in Seq(Media) /\ Len(log) \in Nat /\ Len(log') \in Nat /\ Len(log) <= Len(log')
      /\ DOMAIN log \subseteq DOMAIN log'
      /\ \A i \in DOMAIN log' : (i \in DOMAIN log /\ log'[i] = log[i]) \/ log'[i] = req[r].id
      /\ req[r].pc # "store" \/ log' = log
  BY LogAround
<1>3. /\ JobSound' /\ job' \in Job /\ job'.at = job.at
      /\ job'.pc = "await" => job'.slot # NoSlot
  BY <1>2, ReplyKeepsJob DEF Around
<1>4. MediaTypeOK'
  <2>1. committed' = committed /\ committed \in 0 .. job.at /\ job.at \in 0 .. Len(log)
    BY DEF MediaTypeOK, Around
  <2>2. job.at \in 0 .. Len(log')
    BY <1>2, <2>1
  <2> QED
    BY <1>1, <1>2, <1>3, <2>1, <2>2 DEF MediaTypeOK, Around
<1>5. FilesSound'
  BY <1>1, <1>2, FilesStay DEF Around
<1>6. TagsSound'
  BY <1>1, TagsStay DEF Around, At, Busy
<1> QED
  BY <1>3, <1>4, <1>5, <1>6

LEMMA RequestGoesOn ==
  ASSUME MediaInductive, NEW r \in Slots, Busy(r), NEW q \in Request,
         req' = [req EXCEPT ![r] = q], q.id = req[r].id,
         q.pc \notin {"store", "copy", "insert", "erase", "create"},
         UNCHANGED <<job, handled>>, Around(r)
  PROVE  MediaInductive'
<1> USE DEF MediaInductive
<1>1. /\ req' \in [Slots -> Request \cup {Idle}] /\ req'[r] = q
      /\ \A s \in Slots : s # r => req'[s] = req[s]
  BY SlotChanges
<1>2. /\ log' \in Seq(Media) /\ Len(log) \in Nat /\ Len(log') \in Nat /\ Len(log) <= Len(log')
      /\ DOMAIN log \subseteq DOMAIN log'
      /\ \A i \in DOMAIN log' : (i \in DOMAIN log /\ log'[i] = log[i]) \/ log'[i] = req[r].id
      /\ req[r].pc # "store" \/ log' = log
  BY LogAround
<1>3. JobSound'
  BY <1>2, JobStays DEF Around
<1>4. MediaTypeOK'
  <2>1. committed' = committed /\ committed \in 0 .. job.at /\ job.at \in 0 .. Len(log)
    BY DEF MediaTypeOK, Around
  <2>2. job.at \in 0 .. Len(log')
    BY <1>2, <2>1
  <2> QED
    BY <1>1, <1>2, <2>1, <2>2 DEF MediaTypeOK, Around
<1>5. FilesSound'
  BY <1>1, <1>2, FilesStay DEF Around
<1>6. TagsSound'
  BY <1>1, TagsStay DEF Around, At, Busy
<1> QED
  BY <1>3, <1>4, <1>5, <1>6

(* A step that writes no row.                                              *)
LEMMA NothingAround ==
  ASSUME MediaTypeOK, NEW r \in Slots, req[r].pc \notin {"copy", "insert", "erase"},
         UNCHANGED <<files, rows, tags, log, committed, minted, raced, torn, spent>>
  PROVE  Around(r)
BY DEF MediaTypeOK, Around

-----------------------------------------------------------------------------
(* Requests that begin.                                                    *)

LEMMA BlankType ==
  ASSUME NEW op \in {"upload", "update", "delete"}, NEW m \in Media
  PROVE  Blank(op, m) \in Request /\ Blank(op, m).id = m /\ Blank(op, m).pc = "read"
<1>1. ASSUME NEW b \in BOOLEAN
      PROVE  LET q == [op |-> op, id |-> m, pc |-> "read", title |-> NoText, desc |-> NoText,
                       given |-> NoTags, todo |-> {}, name |-> NoTags, found |-> {}, twice |-> b,
                       was |-> NoRow, flushed |-> b]
             IN  q \in Request /\ q.id = m /\ q.pc = "read"
  BY DEF Request
<1>2. FALSE \in BOOLEAN
  OBVIOUS
<1> QED
  BY <1>1, <1>2 DEF Blank

(* A request on a media that is there.                                     *)
LEMMA RequestBegins ==
  ASSUME MediaInductive, NEW r \in Slots, ~Busy(r), NEW q \in Request,
         req' = [req EXCEPT ![r] = q], q.pc = "read", q.id \in minted,
         \A s \in Slots : Unborn(s) => req[s].id # q.id,
         UNCHANGED <<files, rows, tags, log, committed, minted, raced, torn>>
  PROVE  /\ FilesSound' /\ TagsSound' /\ req' \in [Slots -> Request \cup {Idle}]
<1> USE DEF MediaInductive
<1>1. /\ req' \in [Slots -> Request \cup {Idle}] /\ req'[r] = q
      /\ \A s \in Slots : s # r => req'[s] = req[s]
  BY SlotChanges
<1>2. FilesSound'
  BY <1>1, FilesStart
<1>3. TagsSound'
  BY <1>1, TagsStay DEF At, Busy
<1> QED
  BY <1>1, <1>2, <1>3

LEMMA UserBegins ==
  ASSUME MediaInductive, NEW r \in Slots, ~Busy(r), NEW q \in Request,
         req' = [req EXCEPT ![r] = q], q.pc = "read", rows[q.id] # NoRow,
         Spend("requests", MaxRequests),
         UNCHANGED <<files, rows, tags, log, job, committed, history, handled>>
  PROVE  MediaInductive'
<1> USE DEF MediaInductive
<1>1. q.id \in Media /\ q.id \in minted
  BY DEF Request, FilesSound, Minted
<1>2. \A s \in Slots : Unborn(s) => req[s].id # q.id
  BY DEF FilesSound, Alone
<1>3. FilesSound' /\ TagsSound' /\ req' \in [Slots -> Request \cup {Idle}]
  BY <1>1, <1>2, RequestBegins DEF history
<1>4. JobSound'
  BY JobStays
<1>5. MediaTypeOK'
  BY <1>3, SpendType DEF MediaTypeOK
<1> QED
  BY <1>3, <1>4, <1>5

LEMMA StartUpdateKeeps ==
  ASSUME MediaInductive, NEW r \in Slots, StartUpdate(r)
  PROVE  MediaInductive'
<1>1. PICK m \in Media, t \in Texts, names \in TagLists \cup {NoTags} :
        /\ rows[m] # NoRow
        /\ req' = [req EXCEPT ![r] = [Blank("update", m) EXCEPT !.title = t, !.desc = t,
                                       !.given = names,
                                       !.todo = IF names = NoTags THEN {} ELSE names]]
  BY DEF StartUpdate
<1> DEFINE b == Blank("update", m)
           todo == IF names = NoTags THEN {} ELSE names
           q == [b EXCEPT !.title = t, !.desc = t, !.given = names, !.todo = todo]
<1>2. b \in Request /\ b.id = m /\ b.pc = "read"
  BY BlankType
<1> HIDE DEF b
<1>3. todo \in SUBSET Names
  BY MediaAssumption
<1>4. names \in TagSets \cup {NoTags}
  BY MediaAssumption DEF TagSets
<1> HIDE DEF todo
<1>5. q \in Request /\ q.id = m /\ q.pc = "read"
  BY <1>2, <1>3, <1>4 DEF Request
<1>6. req' = [req EXCEPT ![r] = q]
  BY <1>1 DEF b, todo
<1> HIDE DEF q
<1> QED
  BY <1>1, <1>5, <1>6, UserBegins DEF StartUpdate

LEMMA StartDeleteKeeps ==
  ASSUME MediaInductive, NEW r \in Slots, StartDelete(r)
  PROVE  MediaInductive'
<1>1. PICK m \in Media : rows[m] # NoRow /\ req' = [req EXCEPT ![r] = Blank("delete", m)]
  BY DEF StartDelete
<1>2. /\ Blank("delete", m) \in Request /\ Blank("delete", m).id = m
      /\ Blank("delete", m).pc = "read"
  BY BlankType
<1> QED
  BY <1>1, <1>2, UserBegins DEF StartDelete

(* A new id is nobody's.                                                   *)
LEMMA StartUploadKeeps ==
  ASSUME MediaInductive, NEW r \in Slots, StartUpload(r)
  PROVE  MediaInductive'
<1> USE DEF MediaInductive
<1>1. PICK m \in Media \ minted, t \in Texts, names \in TagLists :
        /\ minted' = minted \cup {m}
        /\ req' = [req EXCEPT ![r] = [Blank("upload", m) EXCEPT !.pc = "store", !.title = t,
                                       !.given = names, !.todo = names]]
  BY DEF StartUpload
<1> DEFINE b == Blank("upload", m)
           q == [b EXCEPT !.pc = "store", !.title = t, !.given = names, !.todo = names]
<1>2. b \in Request /\ b.id = m
  BY BlankType
<1>3. req' = [req EXCEPT ![r] = q]
  BY <1>1
<1> HIDE DEF b
<1>4. q \in Request /\ q.id = m /\ q.pc = "store"
  <2>1. names \in SUBSET Names /\ names \in TagSets
    BY MediaAssumption DEF TagSets
  <2> QED
    BY <1>2, <2>1 DEF Request
<1> HIDE DEF q
<1>5. /\ req' \in [Slots -> Request \cup {Idle}] /\ req'[r] = q
      /\ \A s \in Slots : s # r => req'[s] = req[s]
  BY <1>3, <1>4, SlotChanges
<1>6. /\ Spend("requests", MaxRequests) /\ req[r] = Idle
      /\ UNCHANGED <<files, rows, tags, log, job, committed, torn, raced, wanted, mixed, handled>>
  BY DEF StartUpload, Busy
<1>7. MediaTypeOK'
  BY <1>5, <1>6, SpendType DEF MediaTypeOK
<1>8. rows[m] = NoRow /\ m \notin files /\ q # Idle
  BY <1>4, MediaAssumption DEF FilesSound, Minted
<1>9. Alone'
  <2>1. ASSUME NEW s \in Slots, s # r, Unborn(s)
        PROVE  req[s].id # m
    BY <2>1 DEF FilesSound, Minted, Unborn, At
  <2> QED
    BY <1>4, <1>5, <1>6, <1>8, <2>1 DEF FilesSound, Alone, Minted, Unborn, At, Busy
<1>10. Minted'
  <2>1. \A s \in Slots : Busy(s)' => req'[s].id \in minted'
    <3> SUFFICES ASSUME NEW s \in Slots, Busy(s)'
                 PROVE  req'[s].id \in minted'
      OBVIOUS
    <3>1. CASE s = r
      <4>1. minted' = minted \cup {m} /\ req'[s].id = m
        BY <1>1, <1>4, <1>5, <3>1
      <4> QED
        BY <4>1
    <3>2. CASE s # r
      BY <1>1, <1>5, <3>2 DEF FilesSound, Minted, Busy
    <3> QED
      BY <3>1, <3>2
  <2>2. minted' \subseteq Media /\ minted \subseteq minted'
    BY <1>1 DEF FilesSound, Minted
  <2> QED
    BY <1>6, <2>1, <2>2 DEF FilesSound, Minted
<1>11. Unlinked'
  BY <1>4, <1>5, <1>6 DEF FilesSound, Unlinked, At, Busy
<1>12. FilesMatchRows'
  BY <1>5, <1>6 DEF FilesSound, FilesMatchRows, Between, At, Busy
<1>13. TagsSound'
  BY <1>4, <1>5, <1>6, TagsStay DEF At, Busy
<1>14. JobSound'
  BY <1>6, JobStays
<1> QED
  BY <1>7, <1>9, <1>10, <1>11, <1>12, <1>13, <1>14 DEF FilesSound

-----------------------------------------------------------------------------
(* The steps of a request.                                                 *)

LEMMA RequestAnswered ==
  ASSUME MediaInductive, NEW r \in Slots, Busy(r), Reply(r, TRUE) \/ Reply(r, FALSE), Around(r)
  PROVE  MediaInductive'
<1>1. \E ok \in BOOLEAN : Reply(r, ok)
  BY Zenon
<1> QED
  BY <1>1, RequestEnds

(* The file of a new media.                                                *)
LEMMA StoreKeeps ==
  ASSUME MediaInductive, NEW r \in Slots, Store(r)
  PROVE  MediaInductive'
<1> USE DEF MediaInductive, history, Between
<1> DEFINE m == req[r].id
           q == [req[r] EXCEPT !.pc = "copy"]
<1>1. Busy(r) /\ req[r].pc = "store" /\ req[r] \in Request /\ m \in Media /\ req[r] # Idle
  BY BusyRequest DEF Store, At
<1>2. q \in Request /\ q.id = m /\ q.pc = "copy" /\ q # Idle
  BY <1>1, MediaAssumption DEF Request
<1>3. req' = [req EXCEPT ![r] = q]
  BY DEF Store, Goto, MediaTypeOK
<1> HIDE DEF q
<1>4. /\ req' \in [Slots -> Request \cup {Idle}] /\ req'[r] = q
      /\ \A s \in Slots : s # r => req'[s] = req[s]
  BY <1>2, <1>3, SlotChanges
<1>5. /\ files' = files \cup {m}
      /\ UNCHANGED <<rows, tags, log, job, committed, spent, minted, torn, raced, handled>>
  BY DEF Store
<1>6. /\ rows[m] = NoRow /\ m \in minted
      /\ \A s \in Slots \ {r} : Busy(s) => req[s].id # m
      /\ \A i \in DOMAIN log : log[i] # m
  BY <1>1 DEF FilesSound, Alone, Minted, Unborn, At
<1> HIDE DEF m
<1>7. MediaTypeOK'
  BY <1>1, <1>4, <1>5 DEF MediaTypeOK
<1>8. Alone'
  <2> SUFFICES ASSUME NEW s \in Slots, Unborn(s)'
               PROVE  /\ rows'[req'[s].id] = NoRow
                      /\ req'[s].id \in files' <=> ~At(s, "store")'
                      /\ \A u \in Slots \ {s} : Busy(u)' => req'[u].id # req'[s].id
                      /\ \A i \in DOMAIN log' : log'[i] # req'[s].id
    BY DEF Alone
  <2>1. CASE s = r
    BY <1>2, <1>4, <1>5, <1>6, <2>1 DEF At, Busy
  <2>2. CASE s # r
    <3>1. req'[s] = req[s] /\ Unborn(s) /\ Busy(s) /\ req[s].id # m
      BY <1>4, <1>6, <2>2 DEF Unborn, At, Busy
    <3>2. /\ rows[req[s].id] = NoRow
          /\ req[s].id \in files <=> ~At(s, "store")
          /\ \A u \in Slots \ {s} : Busy(u) => req[u].id # req[s].id
          /\ \A i \in DOMAIN log : log[i] # req[s].id
      BY <3>1 DEF FilesSound, Alone
    <3> QED
      BY <1>2, <1>4, <1>5, <3>1, <3>2 DEF At, Busy
  <2> QED
    BY <2>1, <2>2
<1>9. Minted'
  <2>1. \A s \in Slots : Busy(s)' => req'[s].id \in minted
    BY <1>2, <1>4, <1>6 DEF FilesSound, Minted, Busy
  <2> QED
    BY <1>5, <1>6, <2>1 DEF FilesSound, Minted
<1>10. Unlinked'
  BY <1>2, <1>4, <1>5, <1>6 DEF FilesSound, Unlinked, At, Busy
<1>11. FilesMatchRows'
  <2> SUFFICES ASSUME NEW n \in Media
               PROVE  \/ (rows'[n] # NoRow) <=> (n \in files')
                      \/ n \in torn'
                      \/ \E s \in Slots : Between(s)' /\ req'[s].id = n
    BY DEF FilesMatchRows
  <2>1. CASE n = m
    BY <1>2, <1>4, <2>1 DEF At, Busy
  <2>2. CASE n # m
    BY <1>1, <1>4, <1>5, <2>2 DEF FilesSound, FilesMatchRows, At, Busy
  <2> QED
    BY <2>1, <2>2
<1>12. TagsSound'
  BY <1>2, <1>4, <1>5, TagsStay DEF At, Busy
<1>13. JobSound'
  BY <1>5, JobStays
<1> QED
  BY <1>7, <1>8, <1>9, <1>10, <1>11, <1>12, <1>13 DEF FilesSound

(* Its content.                                                            *)
LEMMA CopyKeeps ==
  ASSUME MediaInductive, NEW r \in Slots, Copy(r)
  PROVE  MediaInductive'
<1> USE DEF MediaInductive, history, Between
<1> DEFINE m == req[r].id
           q == [req[r] EXCEPT !.pc = "insert"]
<1>1. Busy(r) /\ req[r].pc = "copy" /\ req[r] \in Request /\ m \in Media /\ req[r] # Idle
  BY BusyRequest DEF Copy, At
<1>2. q \in Request /\ q.id = m /\ q.pc = "insert" /\ q # Idle
  BY <1>1, MediaAssumption DEF Request
<1>3. req' = [req EXCEPT ![r] = q]
  BY DEF Copy, Goto, MediaTypeOK
<1> HIDE DEF q
<1>4. /\ req' \in [Slots -> Request \cup {Idle}] /\ req'[r] = q
      /\ \A s \in Slots : s # r => req'[s] = req[s]
  BY <1>2, <1>3, SlotChanges
<1>5. /\ UNCHANGED <<files, rows, tags, log, job, committed, spent, minted, torn, raced, handled>>
  BY DEF Copy
<1>6. /\ rows[m] = NoRow /\ m \in minted /\ m \in files
      /\ \A s \in Slots \ {r} : Busy(s) => req[s].id # m
      /\ \A i \in DOMAIN log : log[i] # m
  BY <1>1 DEF FilesSound, Alone, Minted, Unborn, At
<1> HIDE DEF m
<1>7. MediaTypeOK'
  BY <1>1, <1>4, <1>5 DEF MediaTypeOK
<1>8. Alone'
  <2> SUFFICES ASSUME NEW s \in Slots, Unborn(s)'
               PROVE  /\ rows'[req'[s].id] = NoRow
                      /\ req'[s].id \in files' <=> ~At(s, "store")'
                      /\ \A u \in Slots \ {s} : Busy(u)' => req'[u].id # req'[s].id
                      /\ \A i \in DOMAIN log' : log'[i] # req'[s].id
    BY DEF Alone
  <2>1. CASE s = r
    BY <1>2, <1>4, <1>5, <1>6, <2>1 DEF At, Busy
  <2>2. CASE s # r
    <3>1. req'[s] = req[s] /\ Unborn(s) /\ Busy(s) /\ req[s].id # m
      BY <1>4, <1>6, <2>2 DEF Unborn, At, Busy
    <3>2. /\ rows[req[s].id] = NoRow
          /\ req[s].id \in files <=> ~At(s, "store")
          /\ \A u \in Slots \ {s} : Busy(u) => req[u].id # req[s].id
          /\ \A i \in DOMAIN log : log[i] # req[s].id
      BY <3>1 DEF FilesSound, Alone
    <3> QED
      BY <1>2, <1>4, <1>5, <3>1, <3>2 DEF At, Busy
  <2> QED
    BY <2>1, <2>2
<1>9. Minted'
  <2>1. \A s \in Slots : Busy(s)' => req'[s].id \in minted
    BY <1>2, <1>4, <1>6 DEF FilesSound, Minted, Busy
  <2> QED
    BY <1>5, <1>6, <2>1 DEF FilesSound, Minted
<1>10. Unlinked'
  BY <1>2, <1>4, <1>5, <1>6 DEF FilesSound, Unlinked, At, Busy
<1>11. FilesMatchRows'
  <2> SUFFICES ASSUME NEW n \in Media
               PROVE  \/ (rows'[n] # NoRow) <=> (n \in files')
                      \/ n \in torn'
                      \/ \E s \in Slots : Between(s)' /\ req'[s].id = n
    BY DEF FilesMatchRows
  <2>1. CASE n = m
    BY <1>2, <1>4, <2>1 DEF At, Busy
  <2>2. CASE n # m
    BY <1>1, <1>4, <1>5, <2>2 DEF FilesSound, FilesMatchRows, Between, At, Busy, m
  <2> QED
    BY <2>1, <2>2
<1>12. TagsSound'
  BY <1>2, <1>4, <1>5, TagsStay DEF At, Busy
<1>13. JobSound'
  BY <1>5, JobStays
<1> QED
  BY <1>7, <1>8, <1>9, <1>10, <1>11, <1>12, <1>13 DEF FilesSound

(* Its row.                                                                *)
LEMMA InsertKeeps ==
  ASSUME MediaInductive, NEW r \in Slots, Insert(r)
  PROVE  MediaInductive'
<1> USE DEF MediaInductive, history
<1> DEFINE m == req[r].id
           row == [title |-> req[r].title, desc |-> req[r].desc, tags |-> {}]
           p == IF req[r].given = {} THEN "publish" ELSE "lookup"
           q == [req[r] EXCEPT !.was = row, !.pc = p]
<1>1. Busy(r) /\ req[r].pc = "insert" /\ req[r] \in Request /\ m \in Media /\ req[r] # Idle
  BY BusyRequest DEF Insert, At
<1>2. row \in Row /\ row # NoRow
  BY <1>1, MediaAssumption DEF Request, Row
<1>3. req' = [req EXCEPT ![r] = q] /\ rows' = [rows EXCEPT ![m] = row]
  BY DEF Insert, MediaTypeOK
<1> HIDE DEF row
<1>16. p \in {"publish", "lookup"}
  OBVIOUS
<1> HIDE DEF p
<1>4. q \in Request /\ q.id = m /\ q.pc \in {"publish", "lookup"} /\ q # Idle
  <2>1. q \in Request /\ q.id = m /\ q.pc = p
    BY <1>1, <1>2, <1>16 DEF Request
  <2> QED
    BY <1>16, <2>1, MediaAssumption
<1> HIDE DEF q
<1>5. /\ req' \in [Slots -> Request \cup {Idle}] /\ req'[r] = q
      /\ \A s \in Slots : s # r => req'[s] = req[s]
  BY <1>3, <1>4, SlotChanges
<1>6. UNCHANGED <<files, tags, log, job, committed, spent, minted, torn, raced, handled>>
  BY DEF Insert
<1>7. /\ m \in files /\ m \in minted
      /\ \A s \in Slots \ {r} : Busy(s) => req[s].id # m
  BY <1>1 DEF FilesSound, Alone, Minted, Unborn, At
<1> HIDE DEF m
<1>8. MediaTypeOK'
  BY <1>1, <1>2, <1>3, <1>5, <1>6 DEF MediaTypeOK
<1>9. rows'[m] = row /\ \A n \in Media : n # m => rows'[n] = rows[n]
  BY <1>1, <1>3 DEF MediaTypeOK
<1>10. Alone'
  <2> SUFFICES ASSUME NEW s \in Slots, Unborn(s)'
               PROVE  /\ rows'[req'[s].id] = NoRow
                      /\ req'[s].id \in files' <=> ~At(s, "store")'
                      /\ \A u \in Slots \ {s} : Busy(u)' => req'[u].id # req'[s].id
                      /\ \A i \in DOMAIN log' : log'[i] # req'[s].id
    BY DEF Alone
  <2>1. s # r /\ req'[s] = req[s] /\ Unborn(s) /\ Busy(s)
    BY <1>4, <1>5 DEF Unborn, At, Busy
  <2>2. req[s].id # m /\ req[s].id \in Media
    BY <1>7, <2>1, BusyRequest
  <2>3. /\ rows[req[s].id] = NoRow
        /\ req[s].id \in files <=> ~At(s, "store")
        /\ \A u \in Slots \ {s} : Busy(u) => req[u].id # req[s].id
        /\ \A i \in DOMAIN log : log[i] # req[s].id
    BY <2>1 DEF FilesSound, Alone
  <2> QED
    BY <1>4, <1>5, <1>6, <1>9, <2>1, <2>2, <2>3 DEF At, Busy
<1>11. Minted'
  <2>1. \A s \in Slots : Busy(s)' => req'[s].id \in minted
    BY <1>4, <1>5, <1>7 DEF FilesSound, Minted, Busy
  <2>2. \A n \in Media : rows'[n] # NoRow => n \in minted
    BY <1>7, <1>9 DEF FilesSound, Minted
  <2> QED
    BY <1>6, <2>1, <2>2 DEF FilesSound, Minted
<1>12. Unlinked'
  BY <1>4, <1>5, <1>6 DEF FilesSound, Unlinked, At, Busy
<1>13. FilesMatchRows'
  <2> SUFFICES ASSUME NEW n \in Media
               PROVE  \/ (rows'[n] # NoRow) <=> (n \in files')
                      \/ n \in torn'
                      \/ \E s \in Slots : Between(s)' /\ req'[s].id = n
    BY DEF FilesMatchRows
  <2>1. CASE n = m
    BY <1>2, <1>6, <1>7, <1>9, <2>1
  <2>2. CASE n # m
    <3>1. ASSUME NEW s \in Slots, Between(s), req[s].id = n
          PROVE  Between(s)' /\ req'[s].id = n
      <4>1. s # r
        BY <2>2, <3>1 DEF m
      <4> QED
        BY <1>5, <3>1, <4>1 DEF Between, At, Busy
    <3> QED
      BY <1>6, <1>9, <2>2, <3>1 DEF FilesSound, FilesMatchRows
  <2> QED
    BY <2>1, <2>2
<1>14. TagsSound'
  BY <1>4, <1>5, <1>6, TagsStay DEF At, Busy
<1>15. JobSound'
  BY <1>6, JobStays
<1> QED
  BY <1>8, <1>10, <1>11, <1>12, <1>13, <1>14, <1>15 DEF FilesSound

LEMMA ReadKeeps ==
  ASSUME MediaInductive, NEW r \in Slots, Read(r)
  PROVE  MediaInductive'
<1> USE DEF MediaInductive
<1>1. /\ Busy(r) /\ req[r].pc = "read" /\ req[r] \in Request /\ req[r].id \in Media
      /\ rows[req[r].id] \in Row \cup {NoRow}
  BY BusyRequest DEF Read, At, MediaTypeOK
<1>2. CASE rows[req[r].id] = NoRow
  <2>1. Reply(r, FALSE) /\ UNCHANGED <<files, rows, tags, log, committed, spent, minted, torn, raced>>
    BY <1>2 DEF Read
  <2> QED
    BY <1>1, <2>1, NothingAround, RequestAnswered
<1>3. CASE rows[req[r].id] # NoRow
  <2> DEFINE p == IF req[r].op = "delete" THEN "unlink" ELSE IF req[r].todo = {} THEN "save" ELSE "lookup"
             q == [req[r] EXCEPT !.was = rows[req[r].id], !.pc = p]
  <2>1. /\ req' = [req EXCEPT ![r] = q]
        /\ UNCHANGED <<job, handled, files, rows, tags, log, committed, spent, minted, torn, raced>>
    BY <1>3 DEF Read, MediaTypeOK
  <2>2. p \in {"unlink", "save", "lookup"}
    OBVIOUS
  <2> HIDE DEF p
  <2>3. q \in Request /\ q.id = req[r].id /\ q.pc = p
    BY <1>1, <2>2 DEF Request
  <2> HIDE DEF q
  <2> QED
    BY <1>1, <2>1, <2>2, <2>3, NothingAround, RequestGoesOn
<1> QED
  BY <1>2, <1>3

(* GetOrCreateTagsAsync looks a name up.                                   *)
LEMMA LookupKeeps ==
  ASSUME MediaInductive, NEW r \in Slots, Lookup(r)
  PROVE  MediaInductive'
<1> USE DEF MediaInductive, history
<1>1. Busy(r) /\ req[r].pc = "lookup" /\ req[r] \in Request /\ req[r].id \in Media
  BY BusyRequest DEF Lookup, At
<1>2. /\ UNCHANGED <<files, rows, tags, log, job, committed, spent, minted, torn, raced, handled>>
      /\ Around(r)
  BY <1>1, NothingAround DEF Lookup
<1>3. CASE req[r].todo = {} /\ Goto(r, "save")
  <2> DEFINE q == [req[r] EXCEPT !.pc = "save"]
  <2>1. req' = [req EXCEPT ![r] = q] /\ q \in Request /\ q.id = req[r].id /\ q.pc = "save"
    BY <1>1, <1>3 DEF Goto, MediaTypeOK, Request
  <2> HIDE DEF q
  <2> QED
    BY <1>1, <1>2, <2>1, RequestGoesOn
<1>4. CASE \E n \in req[r].todo : /\ Variants(n) = {}
                                 /\ req' = [req EXCEPT ![r].pc = "create", ![r].name = n]
  <2>1. PICK n \in req[r].todo : /\ Variants(n) = {}
                                 /\ req' = [req EXCEPT ![r].pc = "create", ![r].name = n]
    BY <1>4
  <2> DEFINE q == [req[r] EXCEPT !.pc = "create", !.name = n]
  <2>2. n \in Names
    BY <1>1 DEF Request
  <2>3. /\ req' = [req EXCEPT ![r] = q] /\ q \in Request
        /\ q.id = req[r].id /\ q.pc = "create" /\ q.name = n
    BY <1>1, <2>1, <2>2 DEF MediaTypeOK, Request
  <2> HIDE DEF q
  <2>4. /\ req' \in [Slots -> Request \cup {Idle}] /\ req'[r] = q
        /\ \A s \in Slots : s # r => req'[s] = req[s]
    BY <2>3, SlotChanges
  <2>5. FilesSound'
    BY <1>1, <1>2, <2>3, <2>4, FilesStay
  <2>6. TagsSound'
    <3>1. ASSUME NEW s \in Slots, At(s, "create")'
          PROVE  /\ req'[s].name \in Names
                 /\ \A t \in tags : Lower[t] = Lower[req'[s].name] => req'[s].name \in raced
      <4>1. CASE s = r
        BY <2>1, <2>2, <2>3, <2>4, <4>1 DEF Variants
      <4>2. CASE s # r
        BY <2>4, <3>1, <4>2 DEF TagsSound, At, Busy
      <4> QED
        BY <4>1, <4>2
    <3>2. CaseTwinsOnlyByRace'
      BY <1>2 DEF TagsSound, CaseTwinsOnlyByRace
    <3> QED
      BY <1>2, <3>1, <3>2 DEF TagsSound
  <2>7. MediaTypeOK'
    BY <1>2, <2>4 DEF MediaTypeOK
  <2>8. JobSound'
    BY <1>2, JobStays
  <2> QED
    BY <2>5, <2>6, <2>7, <2>8
<1>5. CASE \E n \in req[r].todo : \E t \in Variants(n) :
             req' = [req EXCEPT ![r].todo = @ \ {n}, ![r].found = @ \cup {t},
                                ![r].twice = @ \/ t \in req[r].found]
  <2>0. PICK n \in req[r].todo : \E t \in Variants(n) :
             req' = [req EXCEPT ![r].todo = @ \ {n}, ![r].found = @ \cup {t},
                                ![r].twice = @ \/ t \in req[r].found]
    BY <1>5
  <2>1. PICK t \in Variants(n) :
             req' = [req EXCEPT ![r].todo = @ \ {n}, ![r].found = @ \cup {t},
                                ![r].twice = @ \/ t \in req[r].found]
    BY <2>0
  <2> DEFINE b == req[r].twice \/ t \in req[r].found
             q == [req[r] EXCEPT !.todo = @ \ {n}, !.found = @ \cup {t}, !.twice = b]
  <2>2. b \in BOOLEAN /\ t \in Names
    BY <1>1 DEF Variants, MediaTypeOK, Request
  <2>3. req' = [req EXCEPT ![r] = q]
    BY <2>1 DEF MediaTypeOK
  <2> HIDE DEF b
  <2>4. q \in Request /\ q.id = req[r].id /\ q.pc = "lookup"
    BY <1>1, <2>2 DEF Request
  <2> HIDE DEF q
  <2> QED
    BY <1>1, <1>2, <2>3, <2>4, RequestGoesOn
<1> QED
  BY <1>3, <1>4, <1>5 DEF Lookup

(* A step that fails leaves the row or the file behind only where it was   *)
(* between the two, and then the media is torn.                            *)
LEMMA AbortKeeps ==
  ASSUME MediaInductive, NEW r \in Slots, Busy(r), Abort(r),
         UNCHANGED <<files, rows, tags, log, committed, minted, raced>>,
         spent' \in [{"requests", "mishaps"} -> Nat]
  PROVE  MediaInductive'
<1>1. Reply(r, FALSE)
  BY DEF Abort
<1>2. torn \subseteq torn' /\ (req[r].pc \in {"copy", "insert", "erase"} => req[r].id \in torn')
  BY DEF Abort
<1>3. Around(r)
  BY <1>2 DEF Around, MediaInductive, MediaTypeOK
<1> QED
  BY <1>1, <1>3, RequestAnswered

LEMMA FailKeeps ==
  ASSUME MediaInductive, NEW r \in Slots, Fail(r)
  PROVE  MediaInductive'
<1>1. spent' \in [{"requests", "mishaps"} -> Nat]
  BY SpendType DEF Fail, MediaInductive
<1> QED
  BY <1>1, AbortKeeps DEF Fail

(* An amended row is a row.                                                *)
LEMMA AmendedType ==
  ASSUME MediaTypeOK, NEW q \in Request, rows[q.id] # NoRow
  PROVE  Amended(q) \in Row /\ Amended(q).tags = rows[q.id].tags
<1>1. rows[q.id] \in Row
  BY DEF MediaTypeOK, Request
<1> DEFINE t == IF q.title = q.was.title THEN rows[q.id].title ELSE q.title
           d == IF q.desc = q.was.desc THEN rows[q.id].desc ELSE q.desc
<1>2. t \in Texts \cup {NoText}
  BY <1>1 DEF Request, Row
<1>3. d \in Texts \cup {Caption, NoText}
  BY <1>1 DEF Request, Row
<1>4. Amended(q) = [rows[q.id] EXCEPT !.title = t, !.desc = d]
  BY DEF Amended
<1> HIDE DEF t, d
<1> QED
  BY <1>1, <1>2, <1>3, <1>4 DEF Row

(* The last save of a request amends its row.                              *)
LEMMA SaveKeeps ==
  ASSUME MediaInductive, NEW r \in Slots, Save(r)
  PROVE  MediaInductive'
<1> USE DEF MediaInductive, history
<1> DEFINE m == req[r].id
           old == IF req[r].given = NoTags THEN {} ELSE req[r].was.tags
           unlinked == old \ req[r].found
           linked == req[r].found \ old
<1>1. Busy(r) /\ req[r].pc = "save" /\ req[r] \in Request /\ m \in Media
  BY BusyRequest DEF Save, At
<1>2. UNCHANGED <<files, tags, log, committed, spent, minted, raced>>
  BY DEF Save
<1>3. \/ Abort(r) /\ UNCHANGED rows
      \/ /\ rows' = IF rows[m] = NoRow THEN rows
                    ELSE [rows EXCEPT ![m] = [Amended(req[r]) EXCEPT !.tags = (@ \ unlinked) \cup linked]]
         /\ \/ req[r].op = "upload" /\ Goto(r, "publish") /\ UNCHANGED <<job, handled>>
            \/ Reply(r, TRUE)
         /\ UNCHANGED torn
  BY DEF Save
<1>4. linked \in SUBSET Names
  BY <1>1 DEF Request
<1> HIDE DEF old, unlinked, linked
<1>5. CASE Abort(r) /\ UNCHANGED rows
  BY <1>1, <1>2, <1>5, AbortKeeps DEF MediaTypeOK
<1>6. CASE /\ rows' = IF rows[m] = NoRow THEN rows
                    ELSE [rows EXCEPT ![m] = [Amended(req[r]) EXCEPT !.tags = (@ \ unlinked) \cup linked]]
           /\ \/ req[r].op = "upload" /\ Goto(r, "publish") /\ UNCHANGED <<job, handled>>
              \/ Reply(r, TRUE)
           /\ UNCHANGED torn
  <2>1. /\ rows' \in [Media -> Row \cup {NoRow}]
        /\ \A n \in Media : rows'[n] = NoRow <=> rows[n] = NoRow
    <3>1. CASE rows[m] = NoRow
      BY <1>6, <3>1 DEF MediaTypeOK
    <3>2. CASE rows[m] # NoRow
      <4> DEFINE row == [Amended(req[r]) EXCEPT !.tags = (@ \ unlinked) \cup linked]
      <4>1. Amended(req[r]) \in Row
        BY <1>1, <3>2, AmendedType
      <4>2. row \in Row
        BY <1>4, <4>1 DEF Row
      <4>3. rows' = [rows EXCEPT ![m] = row]
        BY <1>6, <3>2
      <4> HIDE DEF row
      <4> QED
        BY <1>1, <3>2, <4>2, <4>3, MediaAssumption DEF MediaTypeOK
    <3> QED
      BY <3>1, <3>2
  <2>2. Around(r)
    BY <1>1, <1>2, <1>6, <2>1 DEF Around, MediaTypeOK
  <2>3. CASE Goto(r, "publish") /\ UNCHANGED <<job, handled>>
    <3> DEFINE q == [req[r] EXCEPT !.pc = "publish"]
    <3>1. req' = [req EXCEPT ![r] = q] /\ q \in Request /\ q.id = req[r].id /\ q.pc = "publish"
      BY <1>1, <2>3 DEF Goto, MediaTypeOK, Request
    <3> HIDE DEF q
    <3> QED
      BY <1>1, <2>2, <2>3, <3>1, RequestGoesOn
  <2>4. CASE Reply(r, TRUE)
    BY <1>1, <2>2, <2>4, RequestAnswered
  <2> QED
    BY <1>6, <2>3, <2>4
<1> QED
  BY <1>3, <1>5, <1>6

LEMMA PublishKeeps ==
  ASSUME MediaInductive, NEW r \in Slots, Publish(r)
  PROVE  MediaInductive'
<1> USE DEF MediaInductive, history
<1>1. Busy(r) /\ req[r].pc = "publish" /\ req[r] \in Request /\ req[r].id \in Media
  BY BusyRequest DEF Publish, At
<1>2. UNCHANGED <<files, rows, tags, committed, minted, torn, raced>>
  BY DEF Publish
<1>3. spent' \in [{"requests", "mishaps"} -> Nat]
  <2>1. UNCHANGED spent \/ Spend("mishaps", MaxMishaps)
    BY DEF Publish
  <2> QED
    BY <2>1, SpendType DEF MediaTypeOK
<1>4. Around(r)
  <2>1. log' = log \/ log' = Append(log, req[r].id)
    BY DEF Publish
  <2> QED
    BY <1>1, <1>2, <1>3, <2>1 DEF Around, MediaTypeOK
<1>5. CASE Goto(r, "index") /\ UNCHANGED <<job, handled>>
  <2> DEFINE q == [req[r] EXCEPT !.pc = "index"]
  <2>1. req' = [req EXCEPT ![r] = q] /\ q \in Request /\ q.id = req[r].id /\ q.pc = "index"
    BY <1>1, <1>5 DEF Goto, MediaTypeOK, Request
  <2> HIDE DEF q
  <2> QED
    BY <1>1, <1>4, <1>5, <2>1, RequestGoesOn
<1>6. CASE Reply(r, TRUE)
  BY <1>1, <1>4, <1>6, RequestAnswered
<1> QED
  BY <1>5, <1>6 DEF Publish

LEMMA IndexKeeps ==
  ASSUME MediaInductive, NEW r \in Slots, Index(r)
  PROVE  MediaInductive'
<1>1. Busy(r) /\ req[r].pc = "index" /\ Reply(r, TRUE)
  BY DEF Index, At
<1>2. Around(r)
  BY <1>1, NothingAround DEF Index, MediaInductive, history
<1> QED
  BY <1>1, <1>2, RequestAnswered

(* A new tag, and what the update has pending.                             *)
LEMMA CreateKeeps ==
  ASSUME MediaInductive, NEW r \in Slots, Create(r)
  PROVE  MediaInductive'
<1> USE DEF MediaInductive, history
<1> DEFINE m == req[r].id
           name == req[r].name
           unlinked == IF req[r].op = "update" THEN req[r].was.tags ELSE {}
           row == IF req[r].op = "update" /\ rows[m] # NoRow
                  THEN [Amended(req[r]) EXCEPT !.tags = @ \ unlinked] ELSE rows[m]
           was == [title |-> req[r].title, desc |-> req[r].desc, tags |-> {}]
           flushed == req[r].op = "update"
           q == [req[r] EXCEPT !.pc = "lookup", !.name = NoTags, !.todo = @ \ {name},
                               !.found = @ \cup {name}, !.was = was, !.flushed = flushed]
           late == {s \in Slots \ {r} : At(s, "create") /\ Lower[req[s].name] = Lower[name]}
<1>1. Busy(r) /\ req[r].pc = "create" /\ req[r] \in Request /\ m \in Media
  BY BusyRequest DEF Create, At
<1>2. UNCHANGED <<files, log, committed, spent, minted>>
  BY DEF Create
<1>3. name \in Names /\ \A t \in tags : Lower[t] = Lower[name] => name \in raced
  BY <1>1 DEF TagsSound, At
<1>4. CASE Abort(r) /\ UNCHANGED <<rows, tags, raced>>
  BY <1>1, <1>2, <1>4, AbortKeeps DEF MediaTypeOK
<1>5. CASE /\ tags' = tags \cup {name} /\ rows' = [rows EXCEPT ![m] = row]
           /\ req' = [req EXCEPT ![r] = q]
           /\ raced' = raced \cup {req[s].name : s \in late}
           /\ UNCHANGED <<job, handled, torn>>
  <2>1. row \in Row \cup {NoRow} /\ (row = NoRow <=> rows[m] = NoRow)
    <3>1. CASE req[r].op = "update" /\ rows[m] # NoRow
      <4>1. Amended(req[r]) \in Row
        BY <1>1, <3>1, AmendedType
      <4>2. [Amended(req[r]) EXCEPT !.tags = @ \ unlinked] \in Row
        BY <4>1 DEF Row
      <4> QED
        BY <3>1, <4>2, MediaAssumption
    <3>2. CASE ~(req[r].op = "update" /\ rows[m] # NoRow)
      BY <1>1, <3>2 DEF MediaTypeOK
    <3> QED
      BY <3>1, <3>2
  <2> HIDE DEF row
  <2>2. was \in Row /\ flushed \in BOOLEAN
    BY <1>1 DEF Request, Row
  <2> HIDE DEF was, flushed
  <2>3. q \in Request /\ q.id = m /\ q.pc = "lookup"
    BY <1>1, <1>3, <2>2 DEF Request
  <2> HIDE DEF q
  <2>4. /\ req' \in [Slots -> Request \cup {Idle}] /\ req'[r] = q
        /\ \A s \in Slots : s # r => req'[s] = req[s]
    BY <1>5, <2>3, SlotChanges
  <2>5. /\ rows' \in [Media -> Row \cup {NoRow}]
        /\ \A n \in Media : rows'[n] = NoRow <=> rows[n] = NoRow
    BY <1>1, <1>5, <2>1 DEF MediaTypeOK
  <2>6. MediaTypeOK'
    BY <1>2, <1>3, <1>5, <2>4, <2>5 DEF MediaTypeOK
  <2>7. FilesSound'
    BY <1>1, <1>2, <1>5, <2>3, <2>4, <2>5, FilesStay
  <2>8. JobSound'
    BY <1>2, <1>5, JobStays
  <2>9. raced \subseteq raced' /\ \A s \in late : req[s].name \in raced'
    BY <1>5
  <2>10. ASSUME NEW s \in Slots, At(s, "create")'
         PROVE  /\ req'[s].name \in Names
                /\ \A t \in tags' : Lower[t] = Lower[req'[s].name] => req'[s].name \in raced'
    <3>1. s # r /\ req'[s] = req[s] /\ At(s, "create")
      BY <2>3, <2>4, <2>10 DEF At, Busy
    <3>2. /\ req[s].name \in Names
          /\ \A t \in tags : Lower[t] = Lower[req[s].name] => req[s].name \in raced
      BY <3>1 DEF TagsSound
    <3>3. Lower[name] = Lower[req[s].name] => s \in late
      BY <3>1
    <3> HIDE DEF late
    <3> QED
      BY <1>5, <2>9, <3>1, <3>2, <3>3
  <2>11. CaseTwinsOnlyByRace'
    <3> SUFFICES ASSUME NEW a \in tags', NEW b \in tags', a # b, Lower[a] = Lower[b]
                 PROVE  {a, b} \cap raced' # {}
      BY DEF CaseTwinsOnlyByRace
    <3>1. CASE a \in tags /\ b \in tags
      BY <2>9, <3>1 DEF TagsSound, CaseTwinsOnlyByRace
    <3>2. CASE a = name \/ b = name
      BY <1>3, <1>5, <2>9, <3>2
    <3> QED
      BY <1>5, <3>1, <3>2
  <2> QED
    BY <2>6, <2>7, <2>8, <2>10, <2>11 DEF TagsSound
<1> QED
  <2> HIDE DEF q, row, late
  <2>1. \/ Abort(r) /\ UNCHANGED <<rows, tags, raced>>
        \/ /\ tags' = tags \cup {name} /\ rows' = [rows EXCEPT ![m] = row]
           /\ req' = [req EXCEPT ![r] = q]
           /\ raced' = raced \cup {req[s].name : s \in late}
           /\ UNCHANGED <<job, handled, torn>>
    BY DEF Create, q, row, late
  <2> QED
    BY <1>4, <1>5, <2>1

(* Deleting: the file, then the row.                                       *)
LEMMA UnlinkKeeps ==
  ASSUME MediaInductive, NEW r \in Slots, Unlink(r)
  PROVE  MediaInductive'
<1> USE DEF MediaInductive, history
<1> DEFINE m == req[r].id
           q == [req[r] EXCEPT !.pc = "erase"]
<1>1. Busy(r) /\ req[r].pc = "unlink" /\ req[r] \in Request /\ m \in Media /\ req[r] # Idle
  BY BusyRequest DEF Unlink, At
<1>2. q \in Request /\ q.id = m /\ q.pc = "erase" /\ q # Idle
  BY <1>1, MediaAssumption DEF Request
<1>3. req' = [req EXCEPT ![r] = q]
  BY DEF Unlink, Goto, MediaTypeOK
<1> HIDE DEF q
<1>4. /\ req' \in [Slots -> Request \cup {Idle}] /\ req'[r] = q
      /\ \A s \in Slots : s # r => req'[s] = req[s]
  BY <1>2, <1>3, SlotChanges
<1>5. /\ files' = files \ {m}
      /\ UNCHANGED <<rows, tags, log, job, committed, spent, minted, torn, raced, handled>>
  BY DEF Unlink
<1>6. m \in minted
  BY <1>1 DEF FilesSound, Minted
<1>7. MediaTypeOK'
  BY <1>1, <1>4, <1>5 DEF MediaTypeOK
<1>8. Alone'
  <2> SUFFICES ASSUME NEW s \in Slots, Unborn(s)'
               PROVE  /\ rows'[req'[s].id] = NoRow
                      /\ req'[s].id \in files' <=> ~At(s, "store")'
                      /\ \A u \in Slots \ {s} : Busy(u)' => req'[u].id # req'[s].id
                      /\ \A i \in DOMAIN log' : log'[i] # req'[s].id
    BY DEF Alone
  <2>1. s # r /\ req'[s] = req[s] /\ Unborn(s) /\ Busy(s)
    BY <1>2, <1>4 DEF Unborn, At, Busy
  <2>2. /\ rows[req[s].id] = NoRow
        /\ req[s].id \in files <=> ~At(s, "store")
        /\ \A u \in Slots \ {s} : Busy(u) => req[u].id # req[s].id
        /\ \A i \in DOMAIN log : log[i] # req[s].id
    BY <2>1 DEF FilesSound, Alone
  <2>3. req[s].id # m
    BY <1>1, <2>1, <2>2
  <2> HIDE DEF m
  <2>4. req[s].id \in files' <=> req[s].id \in files
    BY <1>5, <2>3
  <2>5. \A u \in Slots \ {s} : Busy(u)' => req'[u].id # req'[s].id
    BY <1>2, <1>4, <2>1, <2>2, <2>3 DEF Busy
  <2> QED
    BY <1>5, <2>1, <2>2, <2>4, <2>5 DEF At, Busy
<1> HIDE DEF m
<1>9. Minted'
  <2>1. \A s \in Slots : Busy(s)' => req'[s].id \in minted
    BY <1>2, <1>4, <1>6 DEF FilesSound, Minted, Busy
  <2> QED
    BY <1>5, <2>1 DEF FilesSound, Minted
<1>10. Unlinked'
  BY <1>2, <1>4, <1>5 DEF FilesSound, Unlinked, At, Busy
<1>11. FilesMatchRows'
  <2> SUFFICES ASSUME NEW n \in Media
               PROVE  \/ (rows'[n] # NoRow) <=> (n \in files')
                      \/ n \in torn'
                      \/ \E s \in Slots : Between(s)' /\ req'[s].id = n
    BY DEF FilesMatchRows
  <2>1. CASE n = m
    BY <1>2, <1>4, <2>1 DEF Between, At, Busy
  <2>2. CASE n # m
    <3>1. ASSUME NEW s \in Slots, Between(s), req[s].id = n
          PROVE  Between(s)' /\ req'[s].id = n
      BY <1>4, <2>2, <3>1 DEF Between, At, Busy, m
    <3> QED
      BY <1>5, <2>2, <3>1 DEF FilesSound, FilesMatchRows
  <2> QED
    BY <2>1, <2>2
<1>12. TagsSound'
  BY <1>2, <1>4, <1>5, TagsStay DEF At, Busy
<1>13. JobSound'
  BY <1>5, JobStays
<1> QED
  BY <1>7, <1>8, <1>9, <1>10, <1>11, <1>12, <1>13 DEF FilesSound

LEMMA EraseKeeps ==
  ASSUME MediaInductive, NEW r \in Slots, Erase(r)
  PROVE  MediaInductive'
<1> USE DEF MediaInductive, history
<1> DEFINE m == req[r].id
<1>1. Busy(r) /\ req[r].pc = "erase" /\ req[r] \in Request /\ m \in Media /\ req[r] # Idle
  BY BusyRequest DEF Erase, At
<1>2. UNCHANGED <<files, tags, log, committed, spent, minted, torn, raced>>
  BY DEF Erase
<1>3. \E ok \in BOOLEAN : Reply(r, ok)
  BY Zenon DEF Erase
<1>4. PICK ok \in BOOLEAN : Reply(r, ok)
  BY <1>3
<1>5. /\ rows' \in [Media -> Row \cup {NoRow}] /\ rows'[m] = NoRow
      /\ \A n \in Media : n # m => rows'[n] = rows[n]
  BY <1>1 DEF Erase, MediaTypeOK
<1>6. m \notin files
  BY <1>1 DEF FilesSound, Unlinked, At
<1>7. /\ req' \in [Slots -> Request \cup {Idle}] /\ req'[r] = Idle
      /\ \A s \in Slots : s # r => req'[s] = req[s]
  BY <1>4, SlotChanges DEF Reply
<1>8. /\ JobSound' /\ job' \in Job /\ job'.at = job.at
      /\ job'.pc = "await" => job'.slot # NoSlot
  BY <1>2, <1>4, ReplyKeepsJob
<1>9. MediaTypeOK'
  BY <1>2, <1>5, <1>7, <1>8 DEF MediaTypeOK
<1>10. ASSUME NEW s \in Slots, Busy(s)'
       PROVE  s # r /\ req'[s] = req[s] /\ Busy(s) /\ req[s].id \in Media
  BY <1>7, <1>10, BusyRequest DEF Busy
<1>11. Alone'
  <2> SUFFICES ASSUME NEW s \in Slots, Unborn(s)'
               PROVE  /\ rows'[req'[s].id] = NoRow
                      /\ req'[s].id \in files' <=> ~At(s, "store")'
                      /\ \A u \in Slots \ {s} : Busy(u)' => req'[u].id # req'[s].id
                      /\ \A i \in DOMAIN log' : log'[i] # req'[s].id
    BY DEF Alone
  <2>1. s # r /\ req'[s] = req[s] /\ Unborn(s) /\ Busy(s) /\ req[s].id \in Media
    BY <1>10 DEF Unborn, At, Busy
  <2>2. /\ rows[req[s].id] = NoRow
        /\ req[s].id \in files <=> ~At(s, "store")
        /\ \A u \in Slots \ {s} : Busy(u) => req[u].id # req[s].id
        /\ \A i \in DOMAIN log : log[i] # req[s].id
    BY <2>1 DEF FilesSound, Alone
  <2>3. rows'[req[s].id] = NoRow
    BY <1>5, <2>1, <2>2
  <2>4. \A u \in Slots \ {s} : Busy(u)' => req'[u].id # req'[s].id
    BY <1>10, <2>1, <2>2
  <2> QED
    BY <1>2, <2>1, <2>2, <2>3, <2>4 DEF At, Busy
<1>12. Minted'
  <2>1. \A n \in Media : rows'[n] # NoRow => n \in minted
    BY <1>5 DEF FilesSound, Minted
  <2>2. \A s \in Slots : Busy(s)' => req'[s].id \in minted
    BY <1>10 DEF FilesSound, Minted
  <2> QED
    BY <1>2, <2>1, <2>2 DEF FilesSound, Minted
<1>13. Unlinked'
  BY <1>2, <1>10 DEF FilesSound, Unlinked, At, Busy
<1>14. FilesMatchRows'
  <2> SUFFICES ASSUME NEW n \in Media
               PROVE  \/ (rows'[n] # NoRow) <=> (n \in files')
                      \/ n \in torn'
                      \/ \E s \in Slots : Between(s)' /\ req'[s].id = n
    BY DEF FilesMatchRows
  <2>1. CASE n = m
    BY <1>2, <1>5, <1>6, <2>1
  <2>2. CASE n # m
    <3>1. ASSUME NEW s \in Slots, Between(s), req[s].id = n
          PROVE  Between(s)' /\ req'[s].id = n
      BY <1>7, <2>2, <3>1 DEF Between, At, Busy
    <3> QED
      BY <1>2, <1>5, <2>2, <3>1 DEF FilesSound, FilesMatchRows
  <2> QED
    BY <2>1, <2>2
<1>15. TagsSound'
  BY <1>2, <1>10, TagsStay DEF At, Busy
<1> QED
  BY <1>8, <1>9, <1>11, <1>12, <1>13, <1>14, <1>15 DEF FilesSound

-----------------------------------------------------------------------------
(* The steps of the worker.                                                *)

(* None of them touches the stores; but for Put, none touches the requests.*)
LEMMA WorkerKeeps ==
  ASSUME MediaInductive, UNCHANGED <<apiVars, history>>, JobSound',
         job' \in Job, job'.at \in 0 .. Len(log), committed' \in 0 .. job'.at,
         job'.pc # "await", spent' \in [{"requests", "mishaps"} -> Nat]
  PROVE  MediaInductive'
<1> USE DEF MediaInductive, apiVars, history
<1>1. MediaTypeOK'
  BY DEF MediaTypeOK
<1>2. FilesSound'
  BY FilesSame
<1>3. TagsSound'
  BY TagsStay DEF At, Busy
<1> QED
  BY <1>1, <1>2, <1>3

LEMMA JobType ==
  ASSUME MediaInductive
  PROVE  /\ job \in Job /\ job.at \in Nat /\ committed \in Nat /\ Len(log) \in Nat
         /\ committed <= job.at /\ job.at <= Len(log) /\ DOMAIN log = 1 .. Len(log)
         /\ handled \in [done : SUBSET Nat, failed : SUBSET Nat]
         /\ job.slot \in Slots => job.pc = "await"
         /\ spent \in [{"requests", "mishaps"} -> Nat]
<1>1. log \in Seq(Media) /\ committed \in 0 .. job.at /\ job.at \in 0 .. Len(log) /\ job \in Job
  BY DEF MediaInductive, MediaTypeOK
<1>2. Len(log) \in Nat /\ DOMAIN log = 1 .. Len(log)
  BY <1>1, LenProperties
<1> QED
  BY <1>1, <1>2 DEF MediaInductive, MediaTypeOK, JobSound

LEMMA GiveUpKeeps ==
  ASSUME MediaInductive, InHand, job.pc # "await", GiveUp, UNCHANGED <<apiVars, committed, history>>,
         spent' \in [{"requests", "mishaps"} -> Nat]
  PROVE  MediaInductive'
<1>1. /\ job \in Job /\ job.at \in Nat /\ committed \in Nat /\ Len(log) \in Nat
      /\ committed <= job.at /\ job.at <= Len(log) /\ DOMAIN log = 1 .. Len(log)
      /\ handled \in [done : SUBSET Nat, failed : SUBSET Nat]
      /\ job.slot \in Slots => job.pc = "await"
  BY JobType
<1>2. job' \in Job /\ job'.pc = "consume" /\ job'.at = job.at /\ job'.slot = job.slot
  BY <1>1 DEF GiveUp, Job
<1>3. /\ handled' \in [done : SUBSET Nat, failed : SUBSET Nat]
      /\ handled'.done = handled.done /\ handled'.failed = handled.failed \cup {job.at}
  BY <1>1 DEF GiveUp
<1>4. JobSound'
  BY <1>1, <1>2, <1>3 DEF MediaInductive, JobSound, InHand, CommittedWereHandled
<1> QED
  BY <1>1, <1>2, <1>4, WorkerKeeps

(* The worker goes on with the message at hand.                            *)
LEMMA HandKeeps ==
  ASSUME MediaInductive, InHand, job.pc # "await", NEW p \in {"describe", "put"},
         job' = [job EXCEPT !.pc = p], UNCHANGED <<apiVars, committed, history, spent, handled>>
  PROVE  MediaInductive'
<1>1. /\ job \in Job /\ job.at \in Nat /\ committed \in Nat /\ Len(log) \in Nat
      /\ committed <= job.at /\ job.at <= Len(log) /\ DOMAIN log = 1 .. Len(log)
      /\ job.slot \in Slots => job.pc = "await"
      /\ spent \in [{"requests", "mishaps"} -> Nat]
  BY JobType
<1>2. job' \in Job /\ job'.pc = p /\ job'.at = job.at /\ job'.slot = job.slot
  BY <1>1 DEF Job
<1>3. JobSound'
  BY <1>1, <1>2 DEF MediaInductive, JobSound, InHand, CommittedWereHandled, apiVars
<1> QED
  BY <1>1, <1>2, <1>3, WorkerKeeps

LEMMA ConsumeKeeps ==
  ASSUME MediaInductive, Consume
  PROVE  MediaInductive'
<1>1. /\ job \in Job /\ job.at \in Nat /\ committed \in Nat /\ Len(log) \in Nat
      /\ committed <= job.at /\ job.at <= Len(log) /\ DOMAIN log = 1 .. Len(log)
      /\ job.slot \in Slots => job.pc = "await"
      /\ spent \in [{"requests", "mishaps"} -> Nat]
  BY JobType
<1>2. job' \in Job /\ job'.pc = "fetch" /\ job'.at = job.at + 1 /\ job'.slot = job.slot
  <2>1. job' = [job EXCEPT !.pc = "fetch", !.at = @ + 1]
    BY DEF Consume
  <2>2. job.at + 1 \in Nat
    BY <1>1
  <2> QED
    BY <1>1, <2>1, <2>2 DEF Job
<1>3. job.pc = "consume" /\ job.at < Len(log) /\ UNCHANGED <<apiVars, committed, spent, history, handled>>
  BY DEF Consume
<1>4. JobSound'
  <2>1. \A i \in 1 .. job.at : i \in handled.done \cup handled.failed
    BY <1>3 DEF MediaInductive, JobSound, InHand
  <2>2. \A i \in 1 .. job'.at : i = job'.at \/ i \in 1 .. job.at
    BY <1>1, <1>2
  <2> QED
    BY <1>1, <1>2, <1>3, <2>1, <2>2
    DEF MediaInductive, JobSound, InHand, CommittedWereHandled, apiVars
<1> QED
  BY <1>1, <1>2, <1>3, <1>4, WorkerKeeps

LEMMA FetchKeeps ==
  ASSUME MediaInductive, Fetch
  PROVE  MediaInductive'
<1>1. InHand /\ job.pc # "await" /\ UNCHANGED <<apiVars, committed, history>>
  BY DEF Fetch, InHand
<1>2. CASE job' = [job EXCEPT !.pc = "describe"] /\ UNCHANGED <<spent, handled>>
  BY <1>1, <1>2, HandKeeps
<1>3. CASE GiveUp /\ (UNCHANGED spent \/ Spend("mishaps", MaxMishaps))
  <2>1. spent' \in [{"requests", "mishaps"} -> Nat]
    BY <1>3, SpendType, JobType DEF MediaInductive
  <2> QED
    BY <1>1, <1>3, <2>1, GiveUpKeeps
<1> QED
  BY <1>2, <1>3 DEF Fetch

LEMMA DescribeKeeps ==
  ASSUME MediaInductive, Describe
  PROVE  MediaInductive'
<1>1. InHand /\ job.pc # "await" /\ UNCHANGED <<apiVars, committed, history>>
  BY DEF Describe, InHand
<1>2. CASE job' = [job EXCEPT !.pc = "put"] /\ UNCHANGED <<spent, handled>>
  BY <1>1, <1>2, HandKeeps
<1>3. CASE GiveUp /\ Spend("mishaps", MaxMishaps)
  <2>1. spent' \in [{"requests", "mishaps"} -> Nat]
    BY <1>3, SpendType DEF MediaInductive
  <2> QED
    BY <1>1, <1>3, <2>1, GiveUpKeeps
<1> QED
  BY <1>2, <1>3 DEF Describe

(* The media of a message has been stored, whatever became of it since.    *)
LEMMA PutKeeps ==
  ASSUME MediaInductive, Put
  PROVE  MediaInductive'
<1> USE DEF history
<1>1. /\ job \in Job /\ job.at \in Nat /\ committed \in Nat /\ Len(log) \in Nat
      /\ committed <= job.at /\ job.at <= Len(log) /\ DOMAIN log = 1 .. Len(log)
      /\ handled \in [done : SUBSET Nat, failed : SUBSET Nat]
  BY JobType
<1>2. PICK r \in Slots :
        /\ ~Busy(r)
        /\ req' = [req EXCEPT ![r] = [Blank("update", log[job.at]) EXCEPT !.desc = Caption]]
        /\ job' = [job EXCEPT !.pc = "await", !.slot = r]
  BY DEF Put
<1>3. job.pc = "put" /\ UNCHANGED <<files, rows, tags, log, committed, spent, history, handled>>
  BY DEF Put
<1> DEFINE m == log[job.at]
           b == Blank("update", m)
           q == [b EXCEPT !.desc = Caption]
<1>4. job.at \in DOMAIN log
  BY <1>3 DEF MediaInductive, JobSound, InHand
<1>5. /\ m \in minted /\ m \in Media
      /\ \A s \in Slots : Unborn(s) => req[s].id # m
  BY <1>4 DEF MediaInductive, FilesSound, Minted, Alone
<1> HIDE DEF m
<1>6. b \in Request /\ b.id = m /\ b.pc = "read"
  BY <1>5, BlankType
<1>7. req' = [req EXCEPT ![r] = q]
  BY <1>2 DEF m
<1> HIDE DEF b
<1>8. q \in Request /\ q.id = m /\ q.pc = "read"
  BY <1>6 DEF Request
<1> HIDE DEF q
<1>9. FilesSound' /\ TagsSound' /\ req' \in [Slots -> Request \cup {Idle}]
  BY <1>2, <1>3, <1>5, <1>7, <1>8, RequestBegins
<1>10. job' \in Job /\ job'.pc = "await" /\ job'.at = job.at /\ job'.slot = r
  BY <1>1, <1>2 DEF Job
<1>11. r # NoSlot
  BY MediaAssumption
<1>12. MediaTypeOK'
  BY <1>1, <1>3, <1>9, <1>10, <1>11 DEF MediaInductive, MediaTypeOK
<1>13. JobSound'
  BY <1>1, <1>3, <1>4, <1>10 DEF MediaInductive, JobSound, InHand, CommittedWereHandled
<1> QED
  BY <1>9, <1>12, <1>13 DEF MediaInductive

LEMMA CommitOffsetKeeps ==
  ASSUME MediaInductive, CommitOffset
  PROVE  MediaInductive'
<1>1. /\ job \in Job /\ job.at \in Nat /\ committed \in Nat /\ Len(log) \in Nat
      /\ committed <= job.at /\ job.at <= Len(log) /\ DOMAIN log = 1 .. Len(log)
      /\ handled \in [done : SUBSET Nat, failed : SUBSET Nat]
      /\ job.slot \in Slots => job.pc = "await"
      /\ spent \in [{"requests", "mishaps"} -> Nat]
  BY JobType
<1>2. job' \in Job /\ job'.pc = "consume" /\ job'.at = job.at /\ job'.slot = job.slot
  BY <1>1 DEF CommitOffset, Job
<1>3. /\ job.pc = "commit" /\ committed' = job.at
      /\ UNCHANGED <<apiVars, spent, history, handled>>
  BY DEF CommitOffset
<1>4. JobSound'
  <2>1. \A i \in 1 .. job.at : i \in handled.done \cup handled.failed
    BY <1>3 DEF MediaInductive, JobSound, InHand
  <2> QED
    BY <1>1, <1>2, <1>3, <2>1 DEF JobSound, InHand, CommittedWereHandled, apiVars
<1> QED
  BY <1>1, <1>2, <1>3, <1>4, WorkerKeeps

LEMMA RestartKeeps ==
  ASSUME MediaInductive, Restart
  PROVE  MediaInductive'
<1>1. /\ job \in Job /\ job.at \in Nat /\ committed \in Nat /\ Len(log) \in Nat
      /\ committed <= job.at /\ job.at <= Len(log) /\ DOMAIN log = 1 .. Len(log)
      /\ handled \in [done : SUBSET Nat, failed : SUBSET Nat]
  BY JobType
<1>2. /\ job' \in Job /\ job'.pc = "consume" /\ job'.at = committed /\ job'.slot = NoSlot
      /\ UNCHANGED <<apiVars, committed, history, handled>>
  BY <1>1 DEF Restart, Job
<1>3. spent' \in [{"requests", "mishaps"} -> Nat]
  BY SpendType DEF Restart, MediaInductive
<1>4. JobSound'
  BY <1>1, <1>2, MediaAssumption DEF MediaInductive, JobSound, InHand, CommittedWereHandled
<1> QED
  BY <1>1, <1>2, <1>3, <1>4, WorkerKeeps

-----------------------------------------------------------------------------
LEMMA InitInductive ==
  ASSUME Init
  PROVE  MediaInductive
<1> USE DEF Init
<1>1. log \in Seq(Media) /\ Len(log) \in Nat /\ \A i \in DOMAIN log : log[i] \in Stored
  <2>1. IsFiniteSet(Stored)
    BY FS_Subset, MediaAssumption
  <2>2. Cardinality(Stored) \in Nat
    BY <2>1, FS_CardinalityType
  <2>3. log \in [1 .. Cardinality(Stored) -> Stored]
    OBVIOUS
  <2>4. log \in [1 .. Cardinality(Stored) -> Media]
    BY <2>3, MediaAssumption
  <2>5. log \in Seq(Media)
    BY <2>2, <2>4, SeqDef
  <2> QED
    BY <2>3, <2>5, LenProperties
<1>2. \A m \in Media : rows[m] # NoRow <=> m \in Stored
  <2>1. [title |-> NoText, desc |-> NoText, tags |-> {}] \in Row
    BY DEF Row
  <2> QED
    BY <2>1, MediaAssumption
<1>3. MediaTypeOK
  <2>1. rows \in [Media -> Row \cup {NoRow}]
    BY DEF Row
  <2>2. job \in Job
    BY DEF Job
  <2>3. spent \in [{"requests", "mishaps"} -> Nat]
    OBVIOUS
  <2>4. req \in [Slots -> Request \cup {Idle}]
    OBVIOUS
  <2>5. job.at = 0 /\ committed = 0 /\ job.pc = "consume"
    OBVIOUS
  <2>6. 0 \in 0 .. 0 /\ 0 \in 0 .. Len(log)
    BY <1>1
  <2>7. files \subseteq Media /\ tags \subseteq Names
    BY MediaAssumption
  <2> QED
    BY <1>1, <2>1, <2>2, <2>3, <2>4, <2>5, <2>6, <2>7 DEF MediaTypeOK
<1>4. FilesSound
  BY <1>1, <1>2, MediaAssumption
  DEF FilesSound, Alone, Minted, Unlinked, FilesMatchRows, Unborn, At, Busy
<1>5. TagsSound
  BY DEF TagsSound, CaseTwinsOnlyByRace, At, Busy
<1>6. JobSound
  BY MediaAssumption DEF JobSound, InHand, CommittedWereHandled
<1> QED
  BY <1>3, <1>4, <1>5, <1>6 DEF MediaInductive

LEMMA NextInductive ==
  ASSUME MediaInductive, [Next]_vars
  PROVE  MediaInductive'
<1>1. ASSUME NEW r \in Slots,
             StartUpload(r) \/ StartUpdate(r) \/ StartDelete(r) \/ Serve(r) \/ Fail(r)
      PROVE  MediaInductive'
  BY <1>1, StartUploadKeeps, StartUpdateKeeps, StartDeleteKeeps, FailKeeps, StoreKeeps,
     CopyKeeps, InsertKeeps, ReadKeeps, LookupKeeps, CreateKeeps, SaveKeeps, PublishKeeps,
     IndexKeeps,
     UnlinkKeeps, EraseKeeps DEF Serve
<1>2. CASE Work
  BY <1>2, ConsumeKeeps, FetchKeeps, DescribeKeeps, PutKeeps, CommitOffsetKeeps DEF Work
<1>3. CASE Restart
  BY <1>3, RestartKeeps
<1>4. CASE UNCHANGED vars
  <2> USE <1>4 DEF MediaInductive, vars, apiVars, history
  <2>1. MediaTypeOK'
    BY DEF MediaTypeOK
  <2>2. FilesSound'
    BY FilesSame
  <2>3. TagsSound'
    BY TagsStay DEF At, Busy
  <2>4. JobSound'
    BY JobStays
  <2> QED
    BY <2>1, <2>2, <2>3, <2>4
<1> QED
  BY <1>1, <1>2, <1>3, <1>4 DEF Next

(* The inductive invariant holds in every state of every behaviour.        *)
THEOREM MediaInductiveHolds == Spec => []MediaInductive
<1>1. Init => MediaInductive
  BY InitInductive
<1>2. MediaInductive /\ [Next]_vars => MediaInductive'
  BY NextInductive
<1> QED
  BY <1>1, <1>2, PTL DEF Spec

(* Rows, requests, the job of the worker and its offsets keep their types. *)
THEOREM MediaTypeCorrect == Spec => []MediaTypeOK
<1>1. MediaInductive => MediaTypeOK
  BY DEF MediaInductive
<1> QED
  BY <1>1, MediaInductiveHolds, PTL

(* MediaService writes two stores in turn: a media has a row exactly when  *)
(* it has a file, but within an upload or a deletion, or after one that    *)
(* was cut off between the two.                                            *)
THEOREM FilesAndRowsMatch == Spec => []FilesMatchRows
<1>1. MediaInductive => FilesMatchRows
  BY DEF MediaInductive, FilesSound
<1> QED
  BY <1>1, MediaInductiveHolds, PTL

(* GetOrCreateTagsAsync makes no second tag that differs only in case,     *)
(* unless two requests create them at once.                                *)
THEOREM TwinsComeFromRaces == Spec => []CaseTwinsOnlyByRace
<1>1. MediaInductive => CaseTwinsOnlyByRace
  BY DEF MediaInductive, TagsSound
<1> QED
  BY <1>1, MediaInductiveHolds, PTL

(* The consumer of media.uploaded commits no offset past a message that    *)
(* was neither captioned nor given up, whatever restarts it meets.         *)
THEOREM CommitsAreHandled == Spec => []CommittedWereHandled
<1>1. MediaInductive => CommittedWereHandled
  BY DEF MediaInductive, JobSound
<1> QED
  BY <1>1, MediaInductiveHolds, PTL

-----------------------------------------------------------------------------
(* The tags of a media: the writers of its row.                            *)

Writer(r) == WritesTags(req[r])

AtTags(r) == Writer(r) /\ req[r].pc \in {"lookup", "create", "save"}

(* What a request knows of the names it was given: each is found as a tag, *)
(* in some case, or still to do.                                           *)
TagsInHand(q) ==
  /\ q.op = "upload" => q.given # NoTags /\ q.pc # "read"
  /\ q.pc \in {"store", "copy", "insert"} => q.op = "upload"
  /\ ~WritesTags(q) => /\ q.todo = {} /\ q.found = {} /\ q.given = NoTags /\ ~q.flushed
                       /\ q.pc \notin {"lookup", "create"}
  /\ WritesTags(q) => Lowered(q.given) = Lowered(q.found) \cup Lowered(q.todo)
  /\ q.pc = "create" => q.name \in q.todo
  /\ q.pc = "save" => q.todo = {}
  /\ q.flushed => q.op = "update" /\ q.pc \in {"lookup", "create", "save"}
  /\ q.op = "upload" /\ q.pc \in {"lookup", "create", "save"} => q.was.tags = {}

(* No two requests are past their look at one media, both to write its     *)
(* tags, unless it is known to be mixed.                                   *)
OneWriter ==
  \A r, s \in Slots :
    r # s /\ Writer(r) /\ Writer(s) /\ req[r].id = req[s].id /\ req[r].id \notin mixed
      => At(r, "read") \/ At(s, "read")

(* So what the writer saw is what there is.                                *)
SnapshotsHold ==
  \A r \in Slots :
    AtTags(r) /\ req[r].id \notin mixed /\ rows[req[r].id] # NoRow
      => rows[req[r].id].tags = req[r].was.tags

(* The tags are those wanted, unless an update has removed the old ones    *)
(* while it makes new ones.                                                *)
TagsAreThere ==
  \A m \in Media \ mixed :
    \/ rows[m] = NoRow
    \/ \E r \in Slots : Busy(r) /\ req[r].id = m /\ req[r].flushed
    \/ Lowered(rows[m].tags) = wanted[m]

WantedSound ==
  /\ wanted \in [Media -> SUBSET Names]
  /\ \A m \in Media \ minted : wanted[m] = {}
  /\ \A r \in Slots : Unborn(r) => wanted[req[r].id] = {}
  /\ \A r \in Slots : Busy(r) => TagsInHand(req[r])
  /\ OneWriter /\ SnapshotsHold /\ TagsAreThere

LEMMA WritersAreBusy ==
  ASSUME NEW r \in Slots, Writer(r)
  PROVE  Busy(r) /\ req[r] # Idle /\ req[r].op # "delete" /\ req[r].given # NoTags
BY DEF Writer, WritesTags, Busy

(* A request goes on, or ends, and writes no tags.                         *)
LEMMA WantedStays ==
  ASSUME MediaTypeOK, WantedSound, NEW r \in Slots, Busy(r), NEW q \in Request \cup {Idle},
         req' = [req EXCEPT ![r] = q],
         UNCHANGED <<wanted, minted>>, mixed \subseteq mixed',
         \A m \in Media : rows'[m] = NoRow \/ (rows[m] # NoRow /\ rows'[m].tags = rows[m].tags),
         q = Idle => (req[r].flushed => req[r].id \in mixed'),
         q # Idle => /\ q.id = req[r].id /\ TagsInHand(q)
                     /\ req[r].flushed => q.flushed
                     /\ q.pc \in {"store", "copy", "insert"} => Unborn(r)
                     /\ WritesTags(q) => Writer(r) /\ req[r].pc # "read"
                     /\ WritesTags(q) /\ q.pc \in {"lookup", "create", "save"}
                          => AtTags(r) /\ q.was = req[r].was
  PROVE  WantedSound'
<1>1. /\ req'[r] = q /\ \A s \in Slots : s # r => req'[s] = req[s]
  BY SlotChanges
<1>2. \A s \in Slots : Busy(s) => req[s].id \in Media
  BY BusyRequest
<1>3. ASSUME NEW s \in Slots, Busy(s)'
      PROVE  Busy(s) /\ req'[s].id = req[s].id /\ TagsInHand(req'[s])
  BY <1>1, <1>3 DEF Busy, WantedSound
<1>4. ASSUME NEW s \in Slots, Writer(s)'
      PROVE  Writer(s) /\ Busy(s) /\ req'[s].id = req[s].id /\ (At(s, "read") => At(s, "read")')
  <2>1. CASE s = r
    BY <1>1, <1>4, <2>1 DEF Writer, WritesTags, Busy, At
  <2>2. CASE s # r
    BY <1>1, <1>4, <2>2 DEF Writer, WritesTags, Busy, At
  <2> QED
    BY <2>1, <2>2
<1>5. ASSUME NEW s \in Slots, Unborn(s)'
      PROVE  wanted'[req'[s].id] = {}
  <2>1. Unborn(s) /\ req'[s].id = req[s].id
    BY <1>1, <1>5 DEF Unborn, At, Busy
  <2> QED
    BY <2>1 DEF WantedSound
<1>6. OneWriter'
  <2> SUFFICES ASSUME NEW s \in Slots, NEW t \in Slots, s # t, Writer(s)', Writer(t)',
                      req'[s].id = req'[t].id, req'[s].id \notin mixed'
               PROVE  At(s, "read")' \/ At(t, "read")'
    BY DEF OneWriter
  <2> QED
    BY <1>4 DEF WantedSound, OneWriter
<1>7. SnapshotsHold'
  <2> SUFFICES ASSUME NEW s \in Slots, AtTags(s)', req'[s].id \notin mixed', rows'[req'[s].id] # NoRow
               PROVE  rows'[req'[s].id].tags = req'[s].was.tags
    BY DEF SnapshotsHold
  <2>1. Writer(s) /\ Busy(s) /\ req'[s].id = req[s].id /\ req[s].id \in Media
    BY <1>2, <1>4 DEF AtTags
  <2>2. AtTags(s) /\ req'[s].was = req[s].was
    <3>1. CASE s = r
      BY <1>1, <3>1 DEF AtTags, Writer, WritesTags
    <3>2. CASE s # r
      BY <1>1, <3>2 DEF AtTags, Writer
    <3> QED
      BY <3>1, <3>2
  <2>3. rows[req[s].id] # NoRow /\ rows'[req[s].id].tags = rows[req[s].id].tags
    BY <2>1
  <2> QED
    BY <2>1, <2>2, <2>3 DEF WantedSound, SnapshotsHold
<1>8. TagsAreThere'
  <2> SUFFICES ASSUME NEW m \in Media, m \notin mixed', rows'[m] # NoRow
               PROVE  \/ \E s \in Slots : Busy(s)' /\ req'[s].id = m /\ req'[s].flushed
                      \/ Lowered(rows'[m].tags) = wanted'[m]
    BY DEF TagsAreThere
  <2>1. rows[m] # NoRow /\ rows'[m].tags = rows[m].tags /\ m \notin mixed
    OBVIOUS
  <2>2. CASE \E s \in Slots : Busy(s) /\ req[s].id = m /\ req[s].flushed
    <3>1. PICK s \in Slots : Busy(s) /\ req[s].id = m /\ req[s].flushed
      BY <2>2
    <3>2. Busy(s)' /\ req'[s].id = m /\ req'[s].flushed
      BY <1>1, <3>1 DEF Busy
    <3> QED
      BY <3>2
  <2>3. CASE Lowered(rows[m].tags) = wanted[m]
    BY <2>1, <2>3
  <2> QED
    BY <2>1, <2>2, <2>3 DEF WantedSound, TagsAreThere
<1> QED
  BY <1>3, <1>5, <1>6, <1>7, <1>8 DEF WantedSound

(* A new request.                                                          *)
LEMMA WantedStarts ==
  ASSUME MediaTypeOK, WantedSound, NEW r \in Slots, ~Busy(r), NEW q \in Request,
         req' = [req EXCEPT ![r] = q], TagsInHand(q), ~q.flushed,
         UNCHANGED <<wanted, mixed, rows>>, minted \subseteq minted',
         q.pc \in {"read", "store"},
         q.pc = "store" => q.id \notin minted /\ \A s \in Slots : Busy(s) => req[s].id # q.id
  PROVE  WantedSound'
<1>1. /\ req'[r] = q /\ \A s \in Slots : s # r => req'[s] = req[s]
  BY SlotChanges
<1>2. q.id \in Media /\ q # Idle
  BY MediaAssumption DEF Request
<1>3. \A s \in Slots : Busy(s)' => TagsInHand(req'[s])
  BY <1>1 DEF Busy, WantedSound
<1>4. \A s \in Slots : Unborn(s)' => wanted'[req'[s].id] = {}
  <2> SUFFICES ASSUME NEW s \in Slots, Unborn(s)'
               PROVE  wanted'[req'[s].id] = {}
    OBVIOUS
  <2>1. CASE s = r
    BY <1>1, <1>2, <2>1 DEF WantedSound, Unborn, At
  <2>2. CASE s # r
    BY <1>1, <2>2 DEF WantedSound, Unborn, At, Busy
  <2> QED
    BY <2>1, <2>2
<1>5. OneWriter'
  <2> SUFFICES ASSUME NEW s \in Slots, NEW t \in Slots, s # t, Writer(s)', Writer(t)',
                      req'[s].id = req'[t].id, req'[s].id \notin mixed'
               PROVE  At(s, "read")' \/ At(t, "read")'
    BY DEF OneWriter
  <2>1. \A u \in Slots : u # r /\ Writer(u)' => Writer(u) /\ Busy(u) /\ req'[u].id = req[u].id /\ (At(u, "read") => At(u, "read")')
    BY <1>1 DEF Writer, WritesTags, Busy, At
  <2>2. CASE s # r /\ t # r
    BY <2>1, <2>2 DEF WantedSound, OneWriter
  <2>3. CASE s = r
    BY <1>1, <1>2, <2>1, <2>3 DEF At, Busy
  <2>4. CASE t = r
    BY <1>1, <1>2, <2>1, <2>4 DEF At, Busy
  <2> QED
    BY <2>2, <2>3, <2>4
<1>6. SnapshotsHold'
  <2> SUFFICES ASSUME NEW s \in Slots, AtTags(s)', req'[s].id \notin mixed', rows'[req'[s].id] # NoRow
               PROVE  rows'[req'[s].id].tags = req'[s].was.tags
    BY DEF SnapshotsHold
  <2>1. s # r /\ req'[s] = req[s] /\ AtTags(s)
    BY <1>1 DEF AtTags, Writer
  <2> QED
    BY <2>1 DEF WantedSound, SnapshotsHold
<1>7. TagsAreThere'
  <2> SUFFICES ASSUME NEW m \in Media, m \notin mixed', rows'[m] # NoRow
               PROVE  \/ \E s \in Slots : Busy(s)' /\ req'[s].id = m /\ req'[s].flushed
                      \/ Lowered(rows'[m].tags) = wanted'[m]
    BY DEF TagsAreThere
  <2>1. \A s \in Slots : Busy(s) => Busy(s)' /\ req'[s] = req[s]
    BY <1>1 DEF Busy
  <2> QED
    BY <2>1 DEF WantedSound, TagsAreThere
<1> QED
  BY <1>3, <1>4, <1>5, <1>6, <1>7 DEF WantedSound

LEMMA WantedSame ==
  ASSUME WantedSound, UNCHANGED <<req, rows, wanted, mixed, minted>>
  PROVE  WantedSound'
<1>1. /\ \A r \in Slots : (Unborn(r)' <=> Unborn(r)) /\ (Busy(r)' <=> Busy(r)) /\ (Writer(r)' <=> Writer(r))
      /\ \A r \in Slots : (AtTags(r)' <=> AtTags(r)) /\ (At(r, "read")' <=> At(r, "read"))
  BY DEF Unborn, At, Busy, Writer, AtTags
<1>2. OneWriter'
  BY <1>1 DEF WantedSound, OneWriter
<1>3. SnapshotsHold'
  BY <1>1 DEF WantedSound, SnapshotsHold
<1>4. TagsAreThere'
  BY <1>1 DEF WantedSound, TagsAreThere
<1> QED
  BY <1>1, <1>2, <1>3, <1>4 DEF WantedSound

(* Requests that begin.                                                    *)
LEMMA BlankTags ==
  ASSUME NEW op \in {"upload", "update", "delete"}, NEW m \in Media
  PROVE  LET b == Blank(op, m)
         IN  /\ b.op = op /\ b.given = NoTags /\ b.todo = {} /\ b.found = {} /\ ~b.flushed
             /\ b.was = NoRow
BY DEF Blank

LEMMA StartUpdateKeepsTags ==
  ASSUME MediaInductive, WantedSound, NEW r \in Slots, StartUpdate(r)
  PROVE  WantedSound'
<1>1. PICK m \in Media, t \in Texts, names \in TagLists \cup {NoTags} :
        /\ rows[m] # NoRow
        /\ req' = [req EXCEPT ![r] = [Blank("update", m) EXCEPT !.title = t, !.desc = t,
                                       !.given = names,
                                       !.todo = IF names = NoTags THEN {} ELSE names]]
  BY DEF StartUpdate
<1> DEFINE b == Blank("update", m)
           todo == IF names = NoTags THEN {} ELSE names
           q == [b EXCEPT !.title = t, !.desc = t, !.given = names, !.todo = todo]
<1>2. /\ b \in Request /\ b.id = m /\ b.pc = "read" /\ b.op = "update"
      /\ b.found = {} /\ ~b.flushed
  BY BlankType, BlankTags
<1> HIDE DEF b
<1>3. todo \in SUBSET Names
  BY MediaAssumption
<1>4. names \in TagSets \cup {NoTags}
  BY MediaAssumption DEF TagSets
<1>5. IF names = NoTags THEN todo = {} ELSE todo = names
  OBVIOUS
<1> HIDE DEF todo
<1>6. /\ q \in Request /\ q.id = m /\ q.pc = "read" /\ q.op = "update" /\ q.found = {}
      /\ ~q.flushed /\ q.given = names /\ q.todo = todo
  BY <1>2, <1>3, <1>4 DEF Request
<1>7. req' = [req EXCEPT ![r] = q]
  BY <1>1 DEF b, todo
<1> HIDE DEF q
<1>8. TagsInHand(q)
  <2>1. Lowered({}) = {}
    BY DEF Lowered
  <2>2. q # Idle
    BY <1>6, MediaAssumption
  <2>3. WritesTags(q) <=> names # NoTags
    BY <1>6, <2>2 DEF WritesTags
  <2> QED
    BY <1>5, <1>6, <2>1, <2>3 DEF TagsInHand
<1> QED
  BY <1>6, <1>7, <1>8, WantedStarts DEF StartUpdate, MediaInductive, history

LEMMA StartDeleteKeepsTags ==
  ASSUME MediaInductive, WantedSound, NEW r \in Slots, StartDelete(r)
  PROVE  WantedSound'
<1>1. PICK m \in Media : rows[m] # NoRow /\ req' = [req EXCEPT ![r] = Blank("delete", m)]
  BY DEF StartDelete
<1> DEFINE b == Blank("delete", m)
<1>2. /\ b \in Request /\ b.id = m /\ b.pc = "read" /\ b.op = "delete"
      /\ b.found = {} /\ ~b.flushed /\ b.todo = {} /\ b.given = NoTags
  BY BlankType, BlankTags
<1>3. req' = [req EXCEPT ![r] = b]
  BY <1>1
<1> HIDE DEF b
<1>4. TagsInHand(b)
  BY <1>2 DEF TagsInHand, WritesTags
<1> QED
  BY <1>2, <1>3, <1>4, WantedStarts DEF StartDelete, MediaInductive, history

LEMMA StartUploadKeepsTags ==
  ASSUME MediaInductive, WantedSound, NEW r \in Slots, StartUpload(r)
  PROVE  WantedSound'
<1>1. PICK m \in Media \ minted, t \in Texts, names \in TagLists :
       /\ minted' = minted \cup {m}
       /\ req' = [req EXCEPT ![r] = [Blank("upload", m) EXCEPT !.pc = "store", !.title = t,
                                      !.given = names, !.todo = names]]
  BY DEF StartUpload
<1> DEFINE b == Blank("upload", m)
           q == [b EXCEPT !.pc = "store", !.title = t, !.given = names, !.todo = names]
<1>2. /\ b \in Request /\ b.id = m /\ b.op = "upload" /\ b.found = {} /\ ~b.flushed
  BY BlankType, BlankTags
<1>3. req' = [req EXCEPT ![r] = q]
  BY <1>1
<1> HIDE DEF b
<1>4. names \in SUBSET Names /\ names # NoTags
  BY MediaAssumption
<1>5. /\ q \in Request /\ q.id = m /\ q.pc = "store" /\ q.op = "upload" /\ q.found = {}
      /\ ~q.flushed /\ q.given = names /\ q.todo = names
  BY <1>2, <1>4 DEF Request, TagSets
<1> HIDE DEF q
<1>6. TagsInHand(q)
  <2>1. Lowered({}) = {}
    BY DEF Lowered
  <2>2. q # Idle
    BY <1>5, MediaAssumption
  <2> QED
    BY <1>4, <1>5, <2>1, <2>2 DEF TagsInHand, WritesTags
<1>7. \A s \in Slots : Busy(s) => req[s].id # q.id
  BY <1>1, <1>5 DEF MediaInductive, FilesSound, Minted
<1> QED
  BY <1>1, <1>3, <1>5, <1>6, <1>7, WantedStarts DEF StartUpload, MediaInductive

LEMMA PutKeepsTags ==
  ASSUME MediaInductive, WantedSound, Put
  PROVE  WantedSound'
<1>1. PICK r \in Slots :
        /\ ~Busy(r)
        /\ req' = [req EXCEPT ![r] = [Blank("update", log[job.at]) EXCEPT !.desc = Caption]]
  BY DEF Put
<1> DEFINE m == log[job.at]
           b == Blank("update", m)
           q == [b EXCEPT !.desc = Caption]
<1>2. job.pc = "put" /\ UNCHANGED <<rows, history>>
  BY DEF Put
<1>3. job.at \in DOMAIN log
  BY <1>2 DEF MediaInductive, JobSound, InHand
<1>4. m \in Media
  BY <1>3 DEF MediaInductive, FilesSound, Minted
<1> HIDE DEF m
<1>5. /\ b \in Request /\ b.id = m /\ b.pc = "read" /\ b.op = "update"
      /\ b.found = {} /\ ~b.flushed /\ b.todo = {} /\ b.given = NoTags
  BY <1>4, BlankType, BlankTags
<1>6. req' = [req EXCEPT ![r] = q]
  BY <1>1 DEF m
<1> HIDE DEF b
<1>7. /\ q \in Request /\ q.id = m /\ q.pc = "read" /\ q.op = "update" /\ q.found = {}
      /\ ~q.flushed /\ q.given = NoTags /\ q.todo = {}
  BY <1>5 DEF Request
<1> HIDE DEF q
<1>8. TagsInHand(q)
  BY <1>7 DEF TagsInHand, WritesTags
<1> QED
  BY <1>1, <1>2, <1>6, <1>7, <1>8, WantedStarts DEF MediaInductive, history

(* Requests that end without a word about tags.                            *)
LEMMA EndKeepsTags ==
  ASSUME MediaInductive, WantedSound, NEW r \in Slots, Busy(r),
         Reply(r, TRUE) \/ Reply(r, FALSE), UNCHANGED <<wanted, minted>>, mixed \subseteq mixed',
         \A m \in Media : rows'[m] = NoRow \/ (rows[m] # NoRow /\ rows'[m].tags = rows[m].tags),
         req[r].flushed => req[r].id \in mixed'
  PROVE  WantedSound'
<1>1. req' = [req EXCEPT ![r] = Idle]
  BY DEF Reply
<1> QED
  BY <1>1, WantedStays DEF MediaInductive

LEMMA AbortKeepsTags ==
  ASSUME MediaInductive, WantedSound, NEW r \in Slots, Busy(r), Abort(r),
         UNCHANGED <<rows, wanted, minted>>
  PROVE  WantedSound'
<1>1. Reply(r, FALSE) /\ mixed \subseteq mixed' /\ (req[r].flushed => req[r].id \in mixed')
  BY DEF Abort
<1> QED
  BY <1>1, EndKeepsTags

LEMMA FailKeepsTags ==
  ASSUME MediaInductive, WantedSound, NEW r \in Slots, Fail(r)
  PROVE  WantedSound'
BY AbortKeepsTags DEF Fail

(* A request goes on, with nothing to write.                               *)
LEMMA GotoKeepsTags ==
  ASSUME MediaInductive, WantedSound, NEW r \in Slots, Busy(r),
         NEW pc \in {"copy", "insert", "publish", "index", "erase"}, Goto(r, pc),
         pc \in {"copy", "insert"} => Unborn(r), ~req[r].flushed, req[r].pc # "read",
         UNCHANGED <<rows, wanted, minted, mixed>>
  PROVE  WantedSound'
<1> DEFINE q == [req[r] EXCEPT !.pc = pc]
<1>1. req[r] \in Request /\ TagsInHand(req[r])
  BY BusyRequest DEF MediaInductive, WantedSound
<1>2. /\ q \in Request /\ q.id = req[r].id /\ q.pc = pc /\ q.op = req[r].op /\ q.given = req[r].given
      /\ q.todo = req[r].todo /\ q.found = req[r].found /\ q.flushed = req[r].flushed
      /\ q.was = req[r].was /\ q.name = req[r].name
  BY <1>1 DEF Request
<1>3. req' = [req EXCEPT ![r] = q]
  BY DEF Goto, MediaInductive, MediaTypeOK
<1> HIDE DEF q
<1>4. WritesTags(q) <=> WritesTags(req[r])
  BY <1>2, MediaAssumption DEF WritesTags, Busy
<1>5. TagsInHand(q)
  BY <1>1, <1>2, <1>4 DEF TagsInHand, Unborn, At
<1> QED
  BY <1>2, <1>3, <1>4, <1>5, WantedStays DEF MediaInductive, Writer

LEMMA StepsKeepTags ==
  ASSUME MediaInductive, WantedSound, NEW r \in Slots,
         Store(r) \/ Copy(r) \/ Publish(r) \/ Index(r) \/ Unlink(r) \/ Erase(r)
  PROVE  WantedSound'
<1>1. Busy(r) /\ ~req[r].flushed /\ req[r].pc # "read" /\ req[r].id \in Media
  <2>1. Busy(r) /\ req[r].pc \in {"store", "copy", "publish", "index", "unlink", "erase"}
    BY DEF Store, Copy, Publish, Index, Unlink, Erase, At
  <2> QED
    BY <2>1, BusyRequest DEF WantedSound, TagsInHand, MediaInductive
<1>2. UNCHANGED <<wanted, minted, mixed>>
  BY DEF Store, Copy, Publish, Index, Unlink, Erase, history
<1>3. CASE Store(r)
  BY <1>1, <1>2, <1>3, GotoKeepsTags DEF Store, Unborn
<1>8. CASE Copy(r)
  BY <1>1, <1>2, <1>8, GotoKeepsTags DEF Copy, Unborn
<1>4. CASE Publish(r)
  <2>1. UNCHANGED rows /\ (Goto(r, "index") \/ Reply(r, TRUE))
    BY <1>4 DEF Publish
  <2> QED
    BY <1>1, <1>2, <2>1, GotoKeepsTags, EndKeepsTags
<1>5. CASE Index(r)
  BY <1>1, <1>2, <1>5, EndKeepsTags DEF Index
<1>6. CASE Unlink(r)
  BY <1>1, <1>2, <1>6, GotoKeepsTags DEF Unlink
<1>7. CASE Erase(r)
  <2>1. /\ Reply(r, TRUE) \/ Reply(r, FALSE)
        /\ \A m \in Media : rows'[m] = NoRow \/ (rows[m] # NoRow /\ rows'[m].tags = rows[m].tags)
    BY <1>1, <1>7 DEF Erase, MediaInductive, MediaTypeOK
  <2> QED
    BY <1>1, <1>2, <2>1, EndKeepsTags
<1> QED
  BY <1>3, <1>4, <1>5, <1>6, <1>7, <1>8

(* The row of a new media, which nobody else knows yet.                    *)
LEMMA InsertKeepsTags ==
  ASSUME MediaInductive, WantedSound, NEW r \in Slots, Insert(r)
  PROVE  WantedSound'
<1> DEFINE m == req[r].id
           row == [title |-> req[r].title, desc |-> req[r].desc, tags |-> {}]
           pc == IF req[r].given = {} THEN "publish" ELSE "lookup"
           q == [req[r] EXCEPT !.was = row, !.pc = pc]
<1>1. /\ Busy(r) /\ req[r].pc = "insert" /\ req[r] \in Request /\ m \in Media /\ req[r] # Idle
      /\ TagsInHand(req[r])
  BY BusyRequest DEF Insert, At, MediaInductive, WantedSound
<1>2. pc \in {"publish", "lookup"} /\ row \in Row /\ row.tags = {}
  BY <1>1 DEF Request, Row
<1>3. /\ req' = [req EXCEPT ![r] = q] /\ rows' = [rows EXCEPT ![m] = row]
      /\ UNCHANGED <<minted, wanted, mixed>>
  BY DEF Insert, MediaInductive, MediaTypeOK, history
<1>4. req[r].given = {} => pc = "publish"
  OBVIOUS
<1> HIDE DEF row, pc
<1>5. /\ q \in Request /\ q.id = m /\ q.pc = pc /\ q.was = row /\ q.op = req[r].op
      /\ q.given = req[r].given /\ q.todo = req[r].todo /\ q.found = req[r].found
      /\ q.flushed = req[r].flushed /\ q.name = req[r].name
  BY <1>1, <1>2 DEF Request
<1> HIDE DEF q
<1>51. q # Idle
  BY <1>5, MediaAssumption
<1>6. /\ req'[r] = q /\ \A s \in Slots : s # r => req'[s] = req[s]
  BY <1>3, <1>5, SlotChanges DEF MediaInductive
<1>7. rows'[m] = row /\ \A n \in Media : n # m => rows'[n] = rows[n]
  BY <1>1, <1>3 DEF MediaInductive, MediaTypeOK
<1>8. wanted[m] = {} /\ m = req[r].id /\ \A s \in Slots \ {r} : Busy(s) => req[s].id # m
  BY <1>1 DEF MediaInductive, FilesSound, Alone, WantedSound, Unborn, At
<1> HIDE DEF m
<1>9. TagsInHand(q)
  <2>1. WritesTags(q) /\ WritesTags(req[r])
    BY <1>1, <1>5, <1>51 DEF WritesTags, TagsInHand
  <2> QED
    BY <1>1, <1>2, <1>5, <2>1 DEF TagsInHand
<1>10. ASSUME NEW s \in Slots, s # r, Busy(s)'
       PROVE  Busy(s) /\ req'[s] = req[s] /\ req[s].id # m
  BY <1>6, <1>8, <1>10 DEF Busy
<1>11. \A s \in Slots : Busy(s)' => TagsInHand(req'[s])
  BY <1>6, <1>9, <1>10 DEF WantedSound
<1>12. \A s \in Slots : Unborn(s)' => wanted'[req'[s].id] = {}
  <2> SUFFICES ASSUME NEW s \in Slots, Unborn(s)'
               PROVE  wanted'[req'[s].id] = {}
    OBVIOUS
  <2>1. s # r
    BY <1>2, <1>5, <1>6 DEF Unborn, At
  <2>2. Unborn(s) /\ req'[s] = req[s]
    BY <2>1, <1>6 DEF Unborn, At, Busy
  <2> QED
    BY <1>3, <2>2 DEF WantedSound
<1>13. OneWriter'
  <2> SUFFICES ASSUME NEW s \in Slots, NEW t \in Slots, s # t, Writer(s)', Writer(t)',
                      req'[s].id = req'[t].id, req'[s].id \notin mixed'
               PROVE  At(s, "read")' \/ At(t, "read")'
    BY DEF OneWriter
  <2>1. Busy(s)' /\ Busy(t)'
    BY DEF Writer, WritesTags, Busy
  <2>2. s # r /\ t # r
    BY <1>5, <1>6, <1>10, <2>1
  <2>3. req'[s] = req[s] /\ req'[t] = req[t]
    BY <1>6, <2>2
  <2> QED
    BY <1>3, <2>3 DEF WantedSound, OneWriter, Writer, At, Busy
<1>14. SnapshotsHold'
  <2> SUFFICES ASSUME NEW s \in Slots, AtTags(s)', req'[s].id \notin mixed', rows'[req'[s].id] # NoRow
               PROVE  rows'[req'[s].id].tags = req'[s].was.tags
    BY DEF SnapshotsHold
  <2>1. CASE s = r
    BY <1>5, <1>6, <1>7, <2>1
  <2>2. CASE s # r
    <3>1. Busy(s)'
      BY DEF AtTags, Writer, WritesTags, Busy
    <3>2. Busy(s) /\ req'[s] = req[s] /\ req[s].id # m
      BY <1>10, <2>2, <3>1
    <3>3. rows'[req[s].id] = rows[req[s].id] /\ AtTags(s)
      BY <1>7, <3>2, BusyRequest DEF AtTags, Writer, MediaInductive
    <3> QED
      BY <1>3, <3>2, <3>3 DEF WantedSound, SnapshotsHold
  <2> QED
    BY <2>1, <2>2
<1>15. TagsAreThere'
  <2> SUFFICES ASSUME NEW n \in Media, n \notin mixed', rows'[n] # NoRow
               PROVE  \/ \E s \in Slots : Busy(s)' /\ req'[s].id = n /\ req'[s].flushed
                      \/ Lowered(rows'[n].tags) = wanted'[n]
    BY DEF TagsAreThere
  <2>1. CASE n = m
    <3>1. Lowered({}) = {}
      BY DEF Lowered
    <3> QED
      BY <1>2, <1>3, <1>7, <1>8, <2>1, <3>1
  <2>2. CASE n # m
    <3>1. ASSUME NEW s \in Slots, Busy(s), req[s].id = n, req[s].flushed
          PROVE  Busy(s)' /\ req'[s].id = n /\ req'[s].flushed
      BY <1>5, <1>51, <1>6, <1>8, <3>1 DEF Busy
    <3> QED
      BY <1>3, <1>7, <2>2, <3>1 DEF WantedSound, TagsAreThere
  <2> QED
    BY <2>1, <2>2
<1> QED
  BY <1>3, <1>11, <1>12, <1>13, <1>14, <1>15 DEF WantedSound

(* What the request looks at is what it writes over.                       *)
LEMMA ReadKeepsTags ==
  ASSUME MediaInductive, WantedSound, NEW r \in Slots, Read(r)
  PROVE  WantedSound'
<1> DEFINE m == req[r].id
<1>1. /\ Busy(r) /\ req[r].pc = "read" /\ req[r] \in Request /\ m \in Media /\ req[r] # Idle
      /\ TagsInHand(req[r]) /\ ~req[r].flushed
  BY BusyRequest DEF Read, At, MediaInductive, WantedSound, TagsInHand
<1>2. UNCHANGED <<rows, wanted, minted>>
  BY DEF Read
<1>3. CASE rows[m] = NoRow
  <2>1. Reply(r, FALSE) /\ mixed' = mixed
    BY <1>3 DEF Read
  <2> QED
    BY <1>1, <1>2, <2>1, EndKeepsTags
<1>4. CASE rows[m] # NoRow
  <2> DEFINE pc == IF req[r].op = "delete" THEN "unlink" ELSE IF req[r].todo = {} THEN "save" ELSE "lookup"
             q == [req[r] EXCEPT !.was = rows[m], !.pc = pc]
  <2>1. req' = [req EXCEPT ![r] = q]
    BY <1>4 DEF Read, MediaInductive, MediaTypeOK
  <2>2. mixed \subseteq mixed' /\ (Writer(r) /\ Contended(r, m) => m \in mixed')
    BY <1>4 DEF Read, Writer
  <2>3. /\ pc \in {"unlink", "save", "lookup"} /\ (pc = "save" => req[r].todo = {})
        /\ (pc = "lookup" => req[r].todo # {})
    OBVIOUS
  <2> HIDE DEF pc
  <2>4. rows[m] \in Row
    BY <1>1, <1>4 DEF MediaInductive, MediaTypeOK
  <2>5. /\ q \in Request /\ q.id = m /\ q.pc = pc /\ q.was = rows[m] /\ q.op = req[r].op
        /\ q.given = req[r].given /\ q.todo = req[r].todo /\ q.found = req[r].found
        /\ q.flushed = req[r].flushed /\ q.name = req[r].name
    <3>1. pc \in {"store", "copy", "insert", "read", "lookup", "create", "save", "publish", "index",
                  "unlink", "erase"}
      BY <2>3
    <3>2. q \in Request
      BY <1>1, <2>4, <3>1 DEF Request
    <3>3. /\ q.id = m /\ q.pc = pc /\ q.was = rows[m] /\ q.op = req[r].op
          /\ q.given = req[r].given /\ q.todo = req[r].todo
      BY <1>1 DEF Request
    <3>4. q.found = req[r].found /\ q.flushed = req[r].flushed /\ q.name = req[r].name
      BY <1>1 DEF Request
    <3> QED
      BY <3>2, <3>3, <3>4
  <2> HIDE DEF q
  <2>51. q # Idle
    BY <2>5, MediaAssumption
  <2>6. WritesTags(q) <=> Writer(r)
    BY <1>1, <2>5, <2>51 DEF WritesTags, Writer
  <2>7. TagsInHand(q)
    BY <1>1, <2>3, <2>5, <2>6 DEF TagsInHand, Writer
  <2>8. CASE ~Writer(r)
    BY <1>1, <1>2, <2>1, <2>2, <2>3, <2>5, <2>6, <2>7, <2>8, WantedStays DEF MediaInductive
  <2>9. CASE Writer(r)
    <3>1. /\ req'[r] = q /\ \A s \in Slots : s # r => req'[s] = req[s]
      BY <2>1, <2>5, SlotChanges DEF MediaInductive
    <3>2. ASSUME NEW s \in Slots, s # r, Writer(s)', req'[s].id = m
          PROVE  m \in mixed'
      <4>1. Writer(s) /\ req[s].id = m
        BY <3>1, <3>2 DEF Writer
      <4> QED
        BY <2>2, <2>9, <3>2, <4>1 DEF Contended, Writer
    <3>3. \A s \in Slots : Busy(s)' => TagsInHand(req'[s])
      BY <2>7, <3>1 DEF WantedSound, Busy
    <3>4. \A s \in Slots : Unborn(s)' => wanted'[req'[s].id] = {}
      <4> SUFFICES ASSUME NEW s \in Slots, Unborn(s)'
                   PROVE  wanted'[req'[s].id] = {}
        OBVIOUS
      <4>1. s # r
        BY <2>3, <2>5, <3>1 DEF Unborn, At
      <4>2. Unborn(s) /\ req'[s] = req[s]
        BY <4>1, <3>1 DEF Unborn, At, Busy
      <4> QED
        BY <1>2, <4>2 DEF WantedSound
    <3>5. OneWriter'
      <4> SUFFICES ASSUME NEW s \in Slots, NEW t \in Slots, s # t, Writer(s)', Writer(t)',
                          req'[s].id = req'[t].id, req'[s].id \notin mixed'
                   PROVE  At(s, "read")' \/ At(t, "read")'
        BY DEF OneWriter
      <4>1. s # r /\ t # r
        BY <2>5, <3>1, <3>2
      <4>2. req'[s] = req[s] /\ req'[t] = req[t]
        BY <3>1, <4>1
      <4> QED
        BY <2>2, <4>2 DEF WantedSound, OneWriter, Writer, At, Busy
    <3>6. SnapshotsHold'
      <4> SUFFICES ASSUME NEW s \in Slots, AtTags(s)', req'[s].id \notin mixed', rows'[req'[s].id] # NoRow
                   PROVE  rows'[req'[s].id].tags = req'[s].was.tags
        BY DEF SnapshotsHold
      <4>1. CASE s = r
        BY <1>2, <2>5, <3>1, <4>1
      <4>2. CASE s # r
        BY <1>2, <2>2, <3>1, <4>2 DEF AtTags, Writer, WantedSound, SnapshotsHold
      <4> QED
        BY <4>1, <4>2
    <3>7. TagsAreThere'
      <4> SUFFICES ASSUME NEW n \in Media, n \notin mixed', rows'[n] # NoRow
                   PROVE  \/ \E s \in Slots : Busy(s)' /\ req'[s].id = n /\ req'[s].flushed
                          \/ Lowered(rows'[n].tags) = wanted'[n]
        BY DEF TagsAreThere
      <4>1. ASSUME NEW s \in Slots, Busy(s), req[s].id = n, req[s].flushed
            PROVE  Busy(s)' /\ req'[s].id = n /\ req'[s].flushed
        BY <2>5, <2>51, <3>1, <4>1 DEF Busy
      <4> QED
        BY <1>2, <2>2, <4>1 DEF WantedSound, TagsAreThere
    <3> QED
      BY <1>2, <3>3, <3>4, <3>5, <3>6, <3>7 DEF WantedSound
  <2> QED
    BY <2>8, <2>9
<1> QED
  BY <1>3, <1>4

LEMMA LookupKeepsTags ==
  ASSUME MediaInductive, WantedSound, NEW r \in Slots, Lookup(r)
  PROVE  WantedSound'
<1>1. /\ Busy(r) /\ req[r].pc = "lookup" /\ req[r] \in Request /\ req[r] # Idle /\ TagsInHand(req[r])
  BY BusyRequest DEF Lookup, At, MediaInductive, WantedSound
<1>2. UNCHANGED <<rows, wanted, minted, mixed>>
  BY DEF Lookup, history
<1>3. Writer(r) /\ AtTags(r)
  BY <1>1 DEF TagsInHand, Writer, AtTags
<1>4. ASSUME NEW q \in Request, req' = [req EXCEPT ![r] = q], TagsInHand(q), q.id = req[r].id,
             q.flushed = req[r].flushed, q.was = req[r].was, q.pc \in {"lookup", "create", "save"}
      PROVE  WantedSound'
  <2>1. \A m \in Media : rows'[m] = NoRow \/ (rows[m] # NoRow /\ rows'[m].tags = rows[m].tags)
    BY <1>2
  <2>2. q # Idle /\ q.pc \notin {"store", "copy", "insert"} /\ q.pc # "read"
    BY <1>4, MediaAssumption
  <2>3. mixed \subseteq mixed' /\ (req[r].flushed => q.flushed)
    BY <1>2, <1>4
  <2> QED
    BY <1>1, <1>2, <1>3, <1>4, <2>1, <2>2, <2>3, WantedStays DEF MediaInductive
<1>5. CASE req[r].todo = {} /\ Goto(r, "save")
  <2> DEFINE q == [req[r] EXCEPT !.pc = "save"]
  <2>1. /\ q \in Request /\ q.id = req[r].id /\ q.pc = "save" /\ q.was = req[r].was /\ q.op = req[r].op
        /\ q.given = req[r].given /\ q.todo = req[r].todo /\ q.found = req[r].found
        /\ q.flushed = req[r].flushed /\ q.name = req[r].name
    BY <1>1 DEF Request
  <2>2. req' = [req EXCEPT ![r] = q]
    BY <1>5 DEF Goto, MediaInductive, MediaTypeOK
  <2> HIDE DEF q
  <2>21. q # Idle
    BY <2>1, MediaAssumption
  <2>3. WritesTags(q) /\ WritesTags(req[r])
    BY <1>3, <2>1, <2>21 DEF WritesTags, Writer
  <2>4. TagsInHand(q)
    BY <1>1, <1>5, <2>1, <2>3 DEF TagsInHand
  <2> QED
    BY <1>4, <2>1, <2>2, <2>4
<1>6. CASE \E n \in req[r].todo : req' = [req EXCEPT ![r].pc = "create", ![r].name = n]
  <2>1. PICK n \in req[r].todo : req' = [req EXCEPT ![r].pc = "create", ![r].name = n]
    BY <1>6
  <2> DEFINE q == [req[r] EXCEPT !.pc = "create", !.name = n]
  <2>2. n \in Names
    BY <1>1 DEF Request
  <2>3. /\ q \in Request /\ q.id = req[r].id /\ q.pc = "create" /\ q.was = req[r].was /\ q.op = req[r].op
        /\ q.given = req[r].given /\ q.todo = req[r].todo /\ q.found = req[r].found
        /\ q.flushed = req[r].flushed /\ q.name = n
    BY <1>1, <2>2 DEF Request
  <2>4. req' = [req EXCEPT ![r] = q]
    BY <2>1 DEF MediaInductive, MediaTypeOK
  <2> HIDE DEF q
  <2>41. q # Idle
    BY <2>3, MediaAssumption
  <2>5. WritesTags(q) /\ WritesTags(req[r])
    BY <1>3, <2>3, <2>41 DEF WritesTags, Writer
  <2>6. TagsInHand(q)
    BY <1>1, <2>3, <2>5 DEF TagsInHand
  <2> QED
    BY <1>4, <2>3, <2>4, <2>6
<1>7. CASE \E n \in req[r].todo : \E t \in Variants(n) :
             req' = [req EXCEPT ![r].todo = @ \ {n}, ![r].found = @ \cup {t},
                                ![r].twice = @ \/ t \in req[r].found]
  <2>0. PICK n \in req[r].todo : \E t \in Variants(n) :
             req' = [req EXCEPT ![r].todo = @ \ {n}, ![r].found = @ \cup {t},
                                ![r].twice = @ \/ t \in req[r].found]
    BY <1>7
  <2>1. PICK t \in Variants(n) :
             req' = [req EXCEPT ![r].todo = @ \ {n}, ![r].found = @ \cup {t},
                                ![r].twice = @ \/ t \in req[r].found]
    BY <2>0
  <2> DEFINE b == req[r].twice \/ t \in req[r].found
             q == [req[r] EXCEPT !.todo = @ \ {n}, !.found = @ \cup {t}, !.twice = b]
  <2>2. /\ b \in BOOLEAN /\ t \in Names /\ Lower[t] = Lower[n]
        /\ req[r].todo \in SUBSET Names /\ req[r].found \in SUBSET Names
    BY <1>1 DEF Variants, MediaInductive, MediaTypeOK, Request
  <2>3. req' = [req EXCEPT ![r] = q]
    BY <2>1 DEF MediaInductive, MediaTypeOK
  <2> HIDE DEF b
  <2>4. /\ q \in Request /\ q.id = req[r].id /\ q.pc = "lookup" /\ q.was = req[r].was /\ q.op = req[r].op
        /\ q.given = req[r].given /\ q.todo = req[r].todo \ {n} /\ q.found = req[r].found \cup {t}
        /\ q.flushed = req[r].flushed
    BY <1>1, <2>2 DEF Request
  <2> HIDE DEF q
  <2>41. q # Idle
    BY <2>4, MediaAssumption
  <2>5. WritesTags(q) /\ WritesTags(req[r])
    BY <1>3, <2>4, <2>41 DEF WritesTags, Writer
  <2>6. Lowered(q.found) \cup Lowered(q.todo) = Lowered(req[r].found) \cup Lowered(req[r].todo)
    <3>1. Lowered(req[r].found \cup {t}) \cup Lowered(req[r].todo \ {n})
            = Lowered(req[r].found) \cup Lowered(req[r].todo)
      BY <2>2 DEF Lowered
    <3> QED
      BY <2>4, <3>1
  <2>7. TagsInHand(q)
    BY <1>1, <2>4, <2>5, <2>6 DEF TagsInHand
  <2> QED
    BY <1>4, <2>3, <2>4, <2>7
<1> QED
  BY <1>5, <1>6, <1>7 DEF Lookup

(* A writer leaves the media to which it writes; nobody else is writing    *)
(* them, unless they are mixed.                                            *)
LEMMA OthersElsewhere ==
  ASSUME WantedSound, NEW r \in Slots, NEW s \in Slots, s # r, AtTags(r), AtTags(s),
         req[r].id \notin mixed
  PROVE  req[s].id # req[r].id
BY DEF WantedSound, OneWriter, AtTags, At, Busy

(* A request writes tags and goes on, or ends.                             *)
LEMMA WantedWritten ==
  ASSUME MediaInductive, WantedSound, NEW r \in Slots, Busy(r), AtTags(r),
         NEW q \in Request \cup {Idle}, req' = [req EXCEPT ![r] = q],
         UNCHANGED <<minted, mixed>>,
         wanted' \in [Media -> SUBSET Names],
         \A m \in Media \ {req[r].id} : wanted'[m] = wanted[m] /\ rows'[m] = rows[m],
         q # Idle => /\ q.id = req[r].id /\ TagsInHand(q)
                     /\ q.pc \in {"lookup", "publish"} /\ WritesTags(q),
         q # Idle /\ q.pc = "lookup" =>
           (req[r].id \notin mixed /\ rows'[req[r].id] # NoRow => rows'[req[r].id].tags = q.was.tags),
         rows[req[r].id] = NoRow => rows'[req[r].id] = NoRow,
         req[r].id \notin mixed =>
           \/ rows'[req[r].id] = NoRow
           \/ q # Idle /\ q.flushed
           \/ Lowered(rows'[req[r].id].tags) = wanted'[req[r].id]
  PROVE  WantedSound'
<1> DEFINE m == req[r].id
<1>1. /\ req'[r] = q /\ \A s \in Slots : s # r => req'[s] = req[s]
  BY SlotChanges DEF MediaInductive
<1>2. m \in Media /\ m \in minted /\ req[r].pc \in {"lookup", "create", "save"}
  BY BusyRequest DEF MediaInductive, FilesSound, Minted, AtTags
<1>3. \A s \in Slots : Busy(s)' => TagsInHand(req'[s])
  BY <1>1 DEF WantedSound, Busy
<1>4. \A s \in Slots : Unborn(s)' => wanted'[req'[s].id] = {}
  <2> SUFFICES ASSUME NEW s \in Slots, Unborn(s)'
               PROVE  wanted'[req'[s].id] = {}
    OBVIOUS
  <2>1. s # r
    BY <1>1 DEF Unborn, At, Busy
  <2>2. Unborn(s) /\ Busy(s) /\ req'[s] = req[s]
    BY <2>1, <1>1 DEF Unborn, At, Busy
  <2>3. req[s].id # m /\ req[s].id \in Media
    BY <2>1, <2>2, BusyRequest DEF MediaInductive, FilesSound, Alone
  <2> QED
    BY <2>2, <2>3 DEF WantedSound
<1>5. OneWriter'
  <2> SUFFICES ASSUME NEW s \in Slots, NEW t \in Slots, s # t, Writer(s)', Writer(t)',
                      req'[s].id = req'[t].id, req'[s].id \notin mixed'
               PROVE  At(s, "read")' \/ At(t, "read")'
    BY DEF OneWriter
  <2>1. ASSUME NEW u \in Slots, Writer(u)'
        PROVE  Writer(u) /\ req'[u].id = req[u].id /\ (At(u, "read") => At(u, "read")')
    <3>1. CASE u = r
      BY <1>1, <1>2, <2>1, <3>1 DEF Writer, WritesTags, At, AtTags
    <3>2. CASE u # r
      BY <1>1, <2>1, <3>2 DEF Writer, At, Busy
    <3> QED
      BY <3>1, <3>2
  <2> QED
    BY <2>1 DEF WantedSound, OneWriter
<1>6. SnapshotsHold'
  <2> SUFFICES ASSUME NEW s \in Slots, AtTags(s)', req'[s].id \notin mixed', rows'[req'[s].id] # NoRow
               PROVE  rows'[req'[s].id].tags = req'[s].was.tags
    BY DEF SnapshotsHold
  <2>1. CASE s = r
    BY <1>1, <2>1 DEF AtTags, Writer, WritesTags
  <2>2. CASE s # r
    <3>1. AtTags(s) /\ req'[s] = req[s]
      BY <1>1, <2>2 DEF AtTags, Writer
    <3>2. Busy(s) /\ req[s].id \in Media
      BY <3>1, WritersAreBusy, BusyRequest DEF AtTags, MediaInductive
    <3>3. CASE req[s].id = m
      BY <2>2, <3>1, <3>3, OthersElsewhere
    <3>4. CASE req[s].id # m
      BY <3>1, <3>2, <3>4 DEF WantedSound, SnapshotsHold
    <3> QED
      BY <3>3, <3>4
  <2> QED
    BY <2>1, <2>2
<1>7. TagsAreThere'
  <2> SUFFICES ASSUME NEW n \in Media, n \notin mixed', rows'[n] # NoRow
               PROVE  \/ \E s \in Slots : Busy(s)' /\ req'[s].id = n /\ req'[s].flushed
                      \/ Lowered(rows'[n].tags) = wanted'[n]
    BY DEF TagsAreThere
  <2>1. CASE n = m
    BY <1>1, <2>1 DEF Busy
  <2>2. CASE n # m
    <3>1. ASSUME NEW s \in Slots, Busy(s), req[s].id = n, req[s].flushed
          PROVE  Busy(s)' /\ req'[s].id = n /\ req'[s].flushed
      BY <1>1, <2>2, <3>1 DEF Busy
    <3> QED
      BY <2>2, <3>1 DEF WantedSound, TagsAreThere
  <2> QED
    BY <2>1, <2>2
<1>8. \A n \in Media \ minted' : wanted'[n] = {}
  BY <1>2 DEF WantedSound
<1> QED
  BY <1>3, <1>4, <1>5, <1>6, <1>7, <1>8 DEF WantedSound

(* A new tag; an update removes the old ones with it.                      *)
LEMMA CreateKeepsTags ==
  ASSUME MediaInductive, WantedSound, NEW r \in Slots, Create(r)
  PROVE  WantedSound'
<1> DEFINE m == req[r].id
           name == req[r].name
           unlinked == IF req[r].op = "update" THEN req[r].was.tags ELSE {}
           row == IF req[r].op = "update" /\ rows[m] # NoRow
                  THEN [Amended(req[r]) EXCEPT !.tags = @ \ unlinked] ELSE rows[m]
           was == [title |-> req[r].title, desc |-> req[r].desc, tags |-> {}]
           flushed == req[r].op = "update"
           q == [req[r] EXCEPT !.pc = "lookup", !.name = NoTags, !.todo = @ \ {name},
                               !.found = @ \cup {name}, !.was = was, !.flushed = flushed]
<1>1. /\ Busy(r) /\ req[r].pc = "create" /\ req[r] \in Request /\ m \in Media /\ req[r] # Idle
      /\ TagsInHand(req[r])
  BY BusyRequest DEF Create, At, MediaInductive, WantedSound
<1>2. Writer(r) /\ AtTags(r) /\ name \in req[r].todo
  BY <1>1 DEF TagsInHand, Writer, AtTags
<1>3. /\ minted' = minted /\ wanted' = wanted
      /\ \/ Abort(r) /\ UNCHANGED rows
         \/ rows' = [rows EXCEPT ![m] = row] /\ req' = [req EXCEPT ![r] = q] /\ mixed' = mixed
  BY DEF Create
<1>4. CASE Abort(r) /\ UNCHANGED rows
  BY <1>1, <1>3, <1>4, AbortKeepsTags
<1>5. CASE rows' = [rows EXCEPT ![m] = row] /\ req' = [req EXCEPT ![r] = q] /\ mixed' = mixed
  <2>1. /\ row = NoRow <=> rows[m] = NoRow
        /\ rows[m] # NoRow /\ m \notin mixed => row.tags = {}
        /\ req[r].op # "update" => row = rows[m]
    <3>1. CASE req[r].op = "update" /\ rows[m] # NoRow
      <4>1. Amended(req[r]) \in Row /\ Amended(req[r]).tags = rows[m].tags
        BY <1>1, <3>1, AmendedType DEF MediaInductive
      <4>2. [Amended(req[r]) EXCEPT !.tags = @ \ unlinked] \in Row
        BY <4>1 DEF Row
      <4>3. [Amended(req[r]) EXCEPT !.tags = @ \ unlinked].tags = rows[m].tags \ unlinked
        BY <4>1 DEF Row
      <4>4. m \notin mixed => rows[m].tags = unlinked
        BY <1>2, <3>1 DEF WantedSound, SnapshotsHold
      <4>5. row # NoRow
        BY <3>1, <4>2, MediaAssumption
      <4> QED
        BY <3>1, <4>3, <4>4, <4>5
    <3>2. CASE ~(req[r].op = "update" /\ rows[m] # NoRow)
      <4>1. row = rows[m]
        BY <3>2
      <4>2. rows[m] # NoRow => req[r].op = "upload"
        BY <1>1, <1>2, <3>2, WritersAreBusy DEF Request
      <4>3. rows[m] # NoRow /\ m \notin mixed => rows[m].tags = {}
        BY <1>1, <1>2, <4>2 DEF WantedSound, SnapshotsHold, TagsInHand
      <4> QED
        BY <3>2, <4>1, <4>3
    <3> QED
      BY <3>1, <3>2
  <2> HIDE DEF row
  <2>2. was \in Row /\ was.tags = {} /\ flushed \in BOOLEAN /\ (flushed <=> req[r].op = "update")
    BY <1>1 DEF Request, Row
  <2>3. rows'[m] = row /\ \A n \in Media : n # m => rows'[n] = rows[n]
    BY <1>1, <1>5 DEF MediaInductive, MediaTypeOK
  <2> HIDE DEF was, flushed
  <2>4. name \in Names /\ req[r].todo \in SUBSET Names /\ req[r].found \in SUBSET Names
    BY <1>1, <1>2 DEF Request
  <2>5. /\ q \in Request /\ q.id = m /\ q.pc = "lookup" /\ q.was = was /\ q.op = req[r].op
        /\ q.given = req[r].given /\ q.todo = req[r].todo \ {name}
        /\ q.found = req[r].found \cup {name} /\ q.flushed = flushed
    BY <1>1, <2>2, <2>4 DEF Request
  <2> HIDE DEF q
  <2>6. q # Idle
    BY <2>5, MediaAssumption
  <2>7. WritesTags(q) /\ WritesTags(req[r])
    BY <1>2, <2>5, <2>6 DEF WritesTags, Writer
  <2>8. Lowered(q.found) \cup Lowered(q.todo) = Lowered(req[r].found) \cup Lowered(req[r].todo)
    <3>1. Lowered(req[r].found \cup {name}) \cup Lowered(req[r].todo \ {name})
            = Lowered(req[r].found) \cup Lowered(req[r].todo)
      <4> HIDE DEF name
      <4>1. name \in req[r].todo /\ Lower[name] = Lower[name]
        BY <1>2 DEF name
      <4> QED
        BY <4>1 DEF Lowered
    <3> QED
      BY <2>5, <3>1
  <2>9. TagsInHand(q)
    BY <1>1, <2>2, <2>5, <2>7, <2>8 DEF TagsInHand
  <2>10. m \notin mixed => \/ row = NoRow \/ flushed \/ Lowered(row.tags) = wanted[m]
    <3> SUFFICES ASSUME m \notin mixed, row # NoRow, ~flushed
                 PROVE  Lowered(row.tags) = wanted[m]
      OBVIOUS
    <3>1. row = rows[m] /\ ~req[r].flushed
      BY <1>1, <2>1, <2>2 DEF TagsInHand
    <3>2. ASSUME NEW s \in Slots, Busy(s), req[s].id = m, req[s].flushed
          PROVE  FALSE
      <4>1. s # r /\ TagsInHand(req[s])
        BY <3>1, <3>2 DEF WantedSound
      <4>2. AtTags(s)
        BY <3>2, <4>1 DEF TagsInHand, AtTags, Writer
      <4> QED
        BY <1>2, <3>2, <4>1, <4>2, OthersElsewhere
    <3> QED
      BY <1>1, <3>1, <3>2 DEF WantedSound, TagsAreThere
  <2>11. wanted' \in [Media -> SUBSET Names]
    BY <1>3 DEF WantedSound
  <2> QED
    BY <1>1, <1>2, <1>3, <1>5, <2>1, <2>2, <2>3, <2>5, <2>6, <2>7, <2>9, <2>10, <2>11, WantedWritten
<1> QED
  BY <1>3, <1>4, <1>5

(* The links of the tags that were found, and no others.                   *)
LEMMA SaveKeepsTags ==
  ASSUME MediaInductive, WantedSound, NEW r \in Slots, Save(r)
  PROVE  WantedSound'
<1> DEFINE m == req[r].id
           old == IF req[r].given = NoTags THEN {} ELSE req[r].was.tags
           unlinked == old \ req[r].found
           linked == req[r].found \ old
           row == [Amended(req[r]) EXCEPT !.tags = (@ \ unlinked) \cup linked]
<1>1. /\ Busy(r) /\ req[r].pc = "save" /\ req[r] \in Request /\ m \in Media /\ req[r] # Idle
      /\ TagsInHand(req[r])
  BY BusyRequest DEF Save, At, MediaInductive, WantedSound
<1>2. /\ minted' = minted
      /\ \/ Abort(r) /\ UNCHANGED <<rows, wanted>>
         \/ /\ rows' = IF rows[m] = NoRow THEN rows ELSE [rows EXCEPT ![m] = row]
            /\ wanted' = IF Writer(r) THEN [wanted EXCEPT ![m] = Lowered(req[r].given)] ELSE wanted
            /\ \/ req[r].op = "upload" /\ Goto(r, "publish")
               \/ Reply(r, TRUE) /\ req[r].op # "upload"
            /\ mixed' = mixed
  BY DEF Save, Writer
<1>3. CASE Abort(r) /\ UNCHANGED <<rows, wanted>>
  BY <1>1, <1>2, <1>3, AbortKeepsTags
<1>4. CASE /\ rows' = IF rows[m] = NoRow THEN rows ELSE [rows EXCEPT ![m] = row]
           /\ wanted' = IF Writer(r) THEN [wanted EXCEPT ![m] = Lowered(req[r].given)] ELSE wanted
           /\ \/ req[r].op = "upload" /\ Goto(r, "publish")
              \/ Reply(r, TRUE) /\ req[r].op # "upload"
           /\ mixed' = mixed
  <2>1. /\ rows'[m] = IF rows[m] = NoRow THEN NoRow ELSE row
        /\ \A n \in Media : n # m => rows'[n] = rows[n]
    BY <1>1, <1>4 DEF MediaInductive, MediaTypeOK
  <2>2. rows[m] # NoRow => row.tags = (rows[m].tags \ unlinked) \cup linked
    <3> SUFFICES ASSUME rows[m] # NoRow
                 PROVE  row.tags = (rows[m].tags \ unlinked) \cup linked
      OBVIOUS
    <3>1. Amended(req[r]) \in Row /\ Amended(req[r]).tags = rows[m].tags
      BY <1>1, AmendedType DEF MediaInductive
    <3> QED
      BY <3>1 DEF Row
  <2> HIDE DEF row
  <2>3. CASE ~Writer(r)
    <3>1. req[r].op # "upload" /\ ~req[r].flushed /\ unlinked = {} /\ linked = {}
      BY <1>1, <2>3 DEF TagsInHand, Writer, WritesTags
    <3>2. \A n \in Media : rows'[n] = NoRow \/ (rows[n] # NoRow /\ rows'[n].tags = rows[n].tags)
      BY <2>1, <2>2, <3>1
    <3> QED
      BY <1>1, <1>2, <1>4, <2>3, <3>1, <3>2, EndKeepsTags
  <2>4. CASE Writer(r)
    <3>1. AtTags(r) /\ req[r].given # NoTags /\ old = req[r].was.tags
      BY <1>1, <2>4, WritersAreBusy DEF AtTags
    <3>2. /\ wanted'[m] = Lowered(req[r].given) /\ \A n \in Media : n # m => wanted'[n] = wanted[n]
          /\ wanted' \in [Media -> SUBSET Names]
      <4>1. Lowered(req[r].given) \in SUBSET Names
        BY <1>1, <3>1, MediaAssumption DEF Lowered, Request, TagSets
      <4> QED
        BY <1>1, <1>4, <2>4, <4>1 DEF WantedSound
    <3>3. Lowered(req[r].given) = Lowered(req[r].found)
      <4>1. Lowered({}) = {}
        BY DEF Lowered
      <4> QED
        BY <1>1, <2>4, <4>1 DEF TagsInHand, Writer
    <3>4. m \notin mixed /\ rows[m] # NoRow => row.tags = req[r].found
      BY <2>2, <3>1 DEF WantedSound, SnapshotsHold
    <3>5. m \notin mixed => rows'[m] = NoRow \/ Lowered(rows'[m].tags) = wanted'[m]
      BY <2>1, <3>2, <3>3, <3>4
    <3> HIDE DEF old, unlinked, linked
    <3>6. CASE req[r].op = "upload" /\ Goto(r, "publish")
      <4> DEFINE q == [req[r] EXCEPT !.pc = "publish"]
      <4>1. req' = [req EXCEPT ![r] = q]
        BY <3>6 DEF Goto, MediaInductive, MediaTypeOK
      <4>2. /\ q \in Request /\ q.id = m /\ q.pc = "publish" /\ q.op = req[r].op
            /\ q.given = req[r].given /\ q.todo = req[r].todo /\ q.found = req[r].found
            /\ q.flushed = req[r].flushed
        BY <1>1 DEF Request
      <4> HIDE DEF q
      <4>3. q # Idle
        BY <4>2, MediaAssumption
      <4>4. WritesTags(q)
        BY <2>4, <4>2, <4>3 DEF WritesTags, Writer
      <4>5. TagsInHand(q)
        BY <1>1, <2>4, <3>6, <4>2, <4>4 DEF TagsInHand, Writer
      <4> QED
        BY <1>1, <1>2, <1>4, <2>1, <3>1, <3>2, <3>5, <4>1, <4>2, <4>3, <4>4, <4>5, WantedWritten
    <3>7. CASE Reply(r, TRUE)
      <4>1. req' = [req EXCEPT ![r] = Idle]
        BY <3>7 DEF Reply
      <4> QED
        BY <1>1, <1>2, <1>4, <2>1, <3>1, <3>2, <3>5, <4>1, WantedWritten
    <3> QED
      BY <1>4, <3>6, <3>7
  <2> QED
    BY <2>3, <2>4
<1> QED
  BY <1>2, <1>3, <1>4

LEMMA WantedInit ==
  ASSUME Init
  PROVE  WantedSound
<1>1. wanted \in [Media -> SUBSET Names] /\ \A m \in Media : wanted[m] = {}
  BY DEF Init
<1>2. \A r \in Slots : req[r] = Idle
  BY DEF Init
<1>3. \A r \in Slots : ~Busy(r) /\ ~Unborn(r) /\ ~Writer(r) /\ ~AtTags(r)
  BY <1>2 DEF Busy, Unborn, At, Writer, WritesTags, AtTags
<1>4. TagsAreThere
  <2>1. \A m \in Media : rows[m] = NoRow \/ rows[m].tags = {}
    BY DEF Init
  <2>2. Lowered({}) = {}
    BY DEF Lowered
  <2> QED
    BY <1>1, <2>1, <2>2 DEF TagsAreThere
<1> QED
  BY <1>1, <1>3, <1>4 DEF WantedSound, OneWriter, SnapshotsHold

LEMMA WantedNext ==
  ASSUME MediaInductive, WantedSound, [Next]_vars
  PROVE  WantedSound'
<1>1. ASSUME NEW r \in Slots,
             StartUpload(r) \/ StartUpdate(r) \/ StartDelete(r) \/ Serve(r) \/ Fail(r)
      PROVE  WantedSound'
  BY <1>1, StartUploadKeepsTags, StartUpdateKeepsTags, StartDeleteKeepsTags, FailKeepsTags,
     StepsKeepTags, InsertKeepsTags, ReadKeepsTags, LookupKeepsTags, CreateKeepsTags,
     SaveKeepsTags DEF Serve
<1>2. CASE Work
  <2>1. CASE Put
    BY <2>1, PutKeepsTags
  <2>2. CASE Consume \/ Fetch \/ Describe \/ CommitOffset
    BY <2>2, WantedSame DEF Consume, Fetch, Describe, CommitOffset, apiVars, history
  <2> QED
    BY <1>2, <2>1, <2>2 DEF Work
<1>3. CASE Restart
  BY <1>3, WantedSame DEF Restart, apiVars, history
<1>4. CASE UNCHANGED vars
  BY <1>4, WantedSame DEF vars, apiVars, history
<1> QED
  BY <1>1, <1>2, <1>3, <1>4 DEF Next

(* The tags of a media that no request is writing are those that the last  *)
(* accepted request gave it (UploadAsync, UpdateAsync), in whatever case   *)
(* GetOrCreateTagsAsync found them; neither captions nor refused requests  *)
(* touch them, but for the mixes that TagsAsWanted names.                  *)
THEOREM TagsAreAsWanted == Spec => []TagsAsWanted
<1>1. Init => MediaInductive /\ WantedSound
  BY InitInductive, WantedInit
<1>2. MediaInductive /\ WantedSound /\ [Next]_vars => (MediaInductive /\ WantedSound)'
  BY NextInductive, WantedNext
<1>3. WantedSound => TagsAsWanted
  <2> SUFFICES ASSUME WantedSound, NEW m \in Media \ mixed, rows[m] # NoRow,
                      Lowered(rows[m].tags) # wanted[m]
               PROVE  \E r \in Slots : WritesTags(req[r]) /\ req[r].id = m
    BY DEF TagsAsWanted
  <2>1. PICK r \in Slots : Busy(r) /\ req[r].id = m /\ req[r].flushed
    BY DEF WantedSound, TagsAreThere
  <2>2. WritesTags(req[r])
    BY <2>1 DEF WantedSound, TagsInHand
  <2> QED
    BY <2>1, <2>2
<1> QED
  BY <1>1, <1>2, <1>3, PTL DEF Spec
=============================================================================
