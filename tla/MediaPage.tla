----------------------------- MODULE MediaPage -----------------------------
(***************************************************************************)
(* The CMS frontend (frontend/src): the gallery's list of media, which the *)
(* whole app shares and which answers of loads, uploads, saves and deletes *)
(* write in the order they arrive; the upload page, whose "Upload All"     *)
(* goes through the cards it saw when it was pressed; and the modal that   *)
(* edits or deletes the media it was opened with.                          *)
(*                                                                         *)
(* A row of the API is its media's text (title, description and tags are   *)
(* edited, sent and stored together) and the card it was uploaded from.    *)
(* Measurements, layout and the tag filter of the gallery are left out.    *)
(* The API answers late or never, and commits one row at a time.           *)
(***************************************************************************)
EXTENDS Integers, Sequences, SequencesExt, FiniteSets

CONSTANTS
  Cards,       \* the files the user picks for upload, one card each
  Texts,       \* what can be typed into the form of the modal
  Pristine,    \* the text of a row as it is uploaded
  Elsewhere,   \* a text that others write
  Budgets      \* bounds: records of how many cards may be listed at once, and how many loads of
               \* the gallery, presses of an upload button, saves and deletes (calls), and faults
               \* (answers that fail, and rows written by others: the media worker, another tab)
               \* a behaviour may have

ASSUME PageAssumption ==
  /\ Cards # {} /\ {Pristine, Elsewhere} \cap Texts = {} /\ Pristine # Elsewhere
  /\ Budgets \subseteq [cards : Nat, loads : Nat, presses : Nat, calls : Nat, faults : Nat]

VARIABLES
  rows,      \* the API's rows, oldest first: sequence of [card, text, gone]; the index is the id
  list,      \* state.media: sequence of [id, text]
  loading, error,
  page,      \* the route; the statistics and "about" keep no state and are left out
  files,     \* the cards of the upload page: sequence of [card, st]
  posts,     \* uploads: sequence of [card, loop, at, id]
  loops,     \* what each uploadAll still has to upload: sequence of sequences of cards
  leaving,   \* cards with a pending removal timer
  shown,     \* selectedMedia of CmsRoutes: [id, text] or Nothing
  form,      \* the modal: [text, typed, editing, busy, from]
  loads,     \* GETs of the list: sequence of [at, snap, stale]
  calls,     \* PUTs and DELETEs: sequence of [op, id, text, from, at, own]
  budget,    \* one of Budgets
  faults,    \* how many answers failed and rows were written by others
  dirty,     \* the list may differ from the rows, for a known reason
  doubled,   \* cards that may be stored twice, for a known reason
  undone     \* where the form of a save came from that undid a text without its user typing

server == <<rows, faults, budget>>
context == <<list, loading, error>>
uploads == <<posts, loops, leaving, doubled>>
modal == <<shown, form>>
vars == <<server, context, page, files, uploads, modal, loads, calls, dirty, undone>>

Nothing == [id |-> 0, text |-> Pristine]
Closed == [text |-> Pristine, typed |-> FALSE, editing |-> FALSE, busy |-> FALSE, from |-> "open"]

Init ==
  /\ rows = <<[card |-> Pristine, text |-> Pristine, gone |-> FALSE]>>
  /\ list = <<>> /\ loading = FALSE /\ error = FALSE
  /\ page = "upload"
  /\ files = <<>> /\ posts = <<>> /\ loops = <<>> /\ leaving = {}
  /\ shown = Nothing /\ form = Closed
  /\ loads = <<>> /\ calls = <<>> /\ budget \in Budgets
  /\ faults = 0 /\ dirty = TRUE /\ doubled = {} /\ undone = {}

\* The elements of s that are in K, in their order: SelectSeq, as a recursive function.
Kept(s, K) ==
  LET F[i \in 0 .. Len(s)] ==
        IF i = 0 THEN <<>> ELSE IF s[i] \in K THEN Append(F[i - 1], s[i]) ELSE F[i - 1]
  IN  F[Len(s)]

Pending(f) == f.at # "over"
Unanswered(s) == \E i \in DOMAIN s : s[i].at = "done"
UnderWay(s) == \E i \in DOMAIN s : Pending(s[i])

\* The rows as the API lists them, the newest first.
Entry(m) == [id |-> m, text |-> rows[m].text]
Listed == LET live == Kept(Reverse([m \in DOMAIN rows |-> m]), {m \in DOMAIN rows : ~rows[m].gone})
          IN  [i \in DOMAIN live |-> Entry(live[i])]

\* A list that was read before this commit and has not arrived is out of date.
Outdate == loads' = [l \in DOMAIN loads |->
                       IF loads[l].at = "read" THEN [loads[l] EXCEPT !.stale = TRUE] ELSE loads[l]]

Mishap == faults < budget.faults /\ faults' = faults + 1 /\ UNCHANGED budget

-----------------------------------------------------------------------------
(* The gallery *)

StartLoad ==
  /\ Len(loads) < budget.loads
  /\ loading' = TRUE
  /\ loads' = Append(loads, [at |-> "sent", snap |-> <<>>, stale |-> FALSE])

\* A route is entered.  The gallery loads its list when it mounts; the upload page and the modal
\* lose their state when they unmount, but not the media that is selected, nor what is under way.
Navigate(p) ==
  /\ p # page /\ page' = p
  /\ IF p = "gallery" THEN StartLoad ELSE UNCHANGED <<loads, loading>>
  /\ files' = <<>>
  /\ form' = [Closed EXCEPT !.text = shown.text, !.from = "remount"]
  /\ calls' = [c \in DOMAIN calls |-> [calls[c] EXCEPT !.own = FALSE]]
  /\ UNCHANGED <<server, list, error, uploads, shown, dirty, undone>>

Retry ==
  /\ page = "gallery" /\ error /\ ~loading
  /\ StartLoad
  /\ UNCHANGED <<server, list, error, page, files, uploads, modal, calls, dirty, undone>>

\* The API reads its rows.  A row whose upload is not answered yet will be added once more.
ReadList(l) ==
  /\ loads[l].at = "sent"
  /\ loads' = [loads EXCEPT ![l] = [at |-> "read", snap |-> Listed,
                                    stale |-> Unanswered(posts)]]
  /\ UNCHANGED <<server, context, page, files, uploads, modal, calls, dirty, undone>>

EndLoad(l) == loads' = [loads EXCEPT ![l] = [at |-> "over", snap |-> <<>>, stale |-> FALSE]]

LoadArrives(l) ==
  /\ loads[l].at = "read"
  /\ list' = loads[l].snap /\ loading' = FALSE /\ error' = FALSE
  /\ dirty' = loads[l].stale
  /\ EndLoad(l)
  /\ UNCHANGED <<server, page, files, uploads, modal, calls, undone>>

LoadFails(l) ==
  /\ Pending(loads[l]) /\ Mishap
  /\ loading' = FALSE /\ error' = TRUE
  /\ EndLoad(l)
  /\ UNCHANGED <<rows, list, page, files, uploads, modal, calls, dirty, undone>>

-----------------------------------------------------------------------------
(* The upload page *)

Is(c, states) == \E i \in DOMAIN files : files[i].card = c /\ files[i].st \in states
IsQueued(c) == \E k \in DOMAIN loops : c \in Range(loops[k])

\* updateFile: the card may be gone.
Marked(fs, c, st) == [i \in DOMAIN fs |-> IF fs[i].card = c THEN [fs[i] EXCEPT !.st = st] ELSE fs[i]]

\* handleFiles: what is not an image of an accepted type, or is over 5 MB, makes no card.  Each
\* file is picked once here; picked again, it is a card with an id of its own.
Pick(c) ==
  /\ page = "upload" /\ Len(files) < budget.cards
  /\ ~Is(c, {"ready", "up", "done", "err"}) /\ ~IsQueued(c) /\ c \notin leaving
  /\ \A i \in DOMAIN posts : posts[i].card # c
  /\ \A m \in DOMAIN rows : rows[m].card # c
  /\ files' = Append(files, [card |-> c, st |-> "ready"])
  /\ UNCHANGED <<server, context, page, uploads, modal, loads, calls, dirty, undone>>

Without(c) == files' = Kept(files, {f \in Range(files) : f.card # c})

\* removeFile, by the button of a card that is not uploading.
RemoveFile(c) ==
  /\ Is(c, {"ready", "done", "err"}) /\ Without(c)
  /\ UNCHANGED <<server, context, page, uploads, modal, loads, calls, dirty, undone>>

\* removeFile, 1.5 seconds after the card was uploaded.
Sweep(c) ==
  /\ c \in leaving /\ leaving' = leaving \ {c} /\ Without(c)
  /\ UNCHANGED <<server, context, page, posts, loops, doubled, modal, loads, calls, dirty, undone>>

\* The beginning of uploadSingleFile, for the loop k or (0) for the button of the card.
Post(fs, ps, c, k) ==
  /\ posts' = Append(ps, [card |-> c, loop |-> k, at |-> "sent", id |-> 0])
  /\ files' = Marked(fs, c, "up")

\* The button of one card.  It is there while an uploadAll still has the card to upload.
UploadOne(c) ==
  /\ Len(posts) < budget.presses
  /\ Is(c, {"ready", "err"})
  /\ Post(files, posts, c, 0)
  /\ doubled' = IF IsQueued(c) THEN doubled \cup {c} ELSE doubled
  /\ UNCHANGED <<server, context, page, loops, leaving, modal, loads, calls, dirty, undone>>

\* Fault: whatever is listed.
ToUploadListed == [i \in DOMAIN files |-> files[i].card]

\* The cards that uploadAll takes.
ToUpload == LET s == Kept(files, {f \in Range(files) : f.st = "ready"}) IN [i \in DOMAIN s |-> s[i].card]

\* uploadAll, which keeps to the cards of the render it was pressed in.  It may be pressed while
\* another still has cards to upload, for that may be at one that has been removed.
UploadAll ==
  /\ Len(posts) < budget.presses
  /\ \E c \in Cards : Is(c, {"ready"})
  /\ \A c \in Cards : ~Is(c, {"up"})
  /\ Post(files, posts, Head(ToUpload), Len(loops) + 1)
  /\ loops' = Append(loops, Tail(ToUpload))
  /\ doubled' = doubled \cup {c \in Range(ToUpload) : IsQueued(c)}
  /\ UNCHANGED <<server, context, page, leaving, modal, loads, calls, dirty, undone>>

\* POST /api/media: the row, with a new id.
StoreUpload(i) ==
  /\ posts[i].at = "sent"
  /\ rows' = Append(rows, [card |-> posts[i].card, text |-> Pristine, gone |-> FALSE])
  /\ posts' = [posts EXCEPT ![i] = [@ EXCEPT !.at = "done", !.id = Len(rows) + 1]]
  /\ Outdate
  /\ UNCHANGED <<faults, budget, context, page, files, loops, leaving, doubled, modal, calls, dirty, undone>>

\* uploadSingleFile ends with the card in this state: its loop, if it has one, takes the next.
GoOn(i, st) ==
  LET over == [posts EXCEPT ![i] = [card |-> Pristine, loop |-> 0, at |-> "over", id |-> 0]]
      fs == Marked(files, posts[i].card, st)
      k == posts[i].loop
  IN  IF k = 0 \/ loops[k] = <<>> THEN posts' = over /\ files' = fs /\ UNCHANGED loops
      ELSE Post(fs, over, Head(loops[k]), k) /\ loops' = [loops EXCEPT ![k] = Tail(@)]

UploadAnswered(i) ==
  /\ posts[i].at = "done"
  /\ GoOn(i, "done")
  /\ list' = <<[id |-> posts[i].id, text |-> Pristine]>> \o list
  /\ leaving' = leaving \cup {posts[i].card}
  /\ UNCHANGED <<server, loading, error, page, doubled, modal, loads, calls, dirty, undone>>

\* Refused, or the answer was lost: then the media is stored and the card says it failed.
UploadFails(i) ==
  /\ Pending(posts[i]) /\ Mishap
  /\ GoOn(i, "err")
  /\ IF posts[i].at = "done" THEN dirty' = TRUE /\ doubled' = doubled \cup {posts[i].card}
                             ELSE UNCHANGED <<dirty, doubled>>
  /\ UNCHANGED <<rows, context, page, leaving, modal, loads, calls, undone>>

-----------------------------------------------------------------------------
(* The modal *)

IsOpen == page = "gallery" /\ shown # Nothing

\* A tile is clicked.  The effect on `media` fills the form; what the modal was doing goes on.
\* Known: the list may be out of date, or be about to be.
Open(e) ==
  /\ page = "gallery" /\ shown = Nothing /\ ~loading /\ ~error
  /\ shown' = e
  /\ form' = [form EXCEPT !.text = e.text, !.typed = FALSE,
                          !.from = IF dirty \/ UnderWay(calls) \/ UnderWay(loads)
                                   THEN "outdated" ELSE "open"]
  /\ UNCHANGED <<server, context, page, files, uploads, loads, calls, dirty, undone>>

Close ==
  /\ IsOpen /\ shown' = Nothing
  /\ UNCHANGED <<server, context, page, files, uploads, form, loads, calls, dirty, undone>>

OnForm(f) ==
  /\ IsOpen /\ form' = f
  /\ UNCHANGED <<server, context, page, files, uploads, shown, loads, calls, dirty, undone>>

Edit == ~form.editing /\ OnForm([form EXCEPT !.editing = TRUE])

\* The fields are open while a save is under way.
Type(t) ==
  /\ form.editing /\ t # form.text
  /\ OnForm([form EXCEPT !.text = t, !.typed = TRUE])

\* The form is filled with the media that was opened, which a save does not bring up to date.
Cancel ==
  /\ form.editing /\ ~form.busy
  /\ OnForm([form EXCEPT !.editing = FALSE, !.text = shown.text, !.typed = FALSE,
                         !.from = IF @ = "outdated" THEN @ ELSE "cancel"])

\* Known: a save whose text was not typed in may undo what is written while it is under way.
Overtaken(cs) == [c \in DOMAIN cs |-> [cs[c] EXCEPT !.from = IF @ = "user" THEN @ ELSE "outdated"]]

Call(op) ==
  /\ IsOpen /\ ~form.busy /\ Len(calls) < budget.calls
  /\ form' = [form EXCEPT !.busy = TRUE]
  /\ calls' = Append(Overtaken(calls), [op |-> op, id |-> shown.id, text |-> form.text, at |-> "sent", own |-> TRUE,
                             from |-> IF form.typed THEN "user" ELSE form.from])
  /\ UNCHANGED <<server, context, page, files, uploads, shown, loads, dirty, undone>>

Save == form.editing /\ Call("save")
Delete == Call("delete")

\* PUT and DELETE /api/media/{id}, for a row that is there.
CommitCall(c) ==
  /\ calls[c].at = "sent" /\ ~rows[calls[c].id].gone
  /\ IF calls[c].op = "delete"
     THEN rows' = [rows EXCEPT ![calls[c].id].gone = TRUE] /\ UNCHANGED undone
     ELSE /\ rows' = [rows EXCEPT ![calls[c].id].text = calls[c].text]
          /\ undone' = IF rows[calls[c].id].text = calls[c].text THEN undone
                       ELSE undone \cup {calls[c].from}
  /\ calls' = [calls EXCEPT ![c].at = "done"]
  /\ Outdate
  /\ UNCHANGED <<faults, budget, context, page, files, uploads, modal, dirty>>

EndCall(c) == calls' = [calls EXCEPT ![c] = [op |-> "save", id |-> 0, text |-> Pristine, at |-> "over",
                                             own |-> FALSE, from |-> "user"]]

\* Fault: after a save the form shows the media that was opened.
SaveAnsweredRefilling(c) ==
  /\ calls[c].at = "done" /\ calls[c].op = "save"
  /\ list' = [i \in DOMAIN list |-> IF list[i].id # calls[c].id THEN list[i]
                                    ELSE [list[i] EXCEPT !.text = calls[c].text]]
  /\ form' = IF calls[c].own
             THEN [form EXCEPT !.busy = FALSE, !.editing = FALSE, !.text = shown.text, !.typed = FALSE]
             ELSE form
  /\ EndCall(c)
  /\ UNCHANGED <<server, loading, error, page, files, uploads, shown, loads, dirty, undone>>

\* UPDATE_MEDIA, and the end of the editing, whatever is edited by now.  The answer may be older
\* than the row.
SaveAnswered(c) ==
  /\ calls[c].at = "done" /\ calls[c].op = "save"
  /\ list' = [i \in DOMAIN list |-> IF list[i].id # calls[c].id THEN list[i]
                                    ELSE [list[i] EXCEPT !.text = calls[c].text]]
  /\ form' = IF calls[c].own
             THEN [form EXCEPT !.busy = FALSE, !.editing = FALSE,
                               !.typed = @ /\ (shown.id # calls[c].id \/ form.text # calls[c].text)]
             ELSE form
  /\ dirty' = (dirty \/ rows[calls[c].id].text # calls[c].text)
  /\ EndCall(c)
  /\ UNCHANGED <<server, loading, error, page, files, uploads, shown, loads, undone>>

\* Fault: what the modal shows by now leaves the list, too late a look at `media`.
DeleteAnsweredLate(c) ==
  /\ calls[c].at = "done" /\ calls[c].op = "delete"
  /\ list' = Kept(list, {e \in Range(list) : e.id # shown.id})
  /\ shown' = Nothing
  /\ form' = IF calls[c].own THEN [form EXCEPT !.busy = FALSE] ELSE form
  /\ EndCall(c)
  /\ UNCHANGED <<server, loading, error, page, files, uploads, loads, dirty, undone>>

\* DELETE_MEDIA and onClose, which closes the modal whatever it shows by now.
DeleteAnswered(c) ==
  /\ calls[c].at = "done" /\ calls[c].op = "delete"
  /\ list' = Kept(list, {e \in Range(list) : e.id # calls[c].id})
  /\ shown' = Nothing
  /\ form' = IF calls[c].own THEN [form EXCEPT !.busy = FALSE] ELSE form
  /\ EndCall(c)
  /\ UNCHANGED <<server, loading, error, page, files, uploads, loads, dirty, undone>>

\* The media is gone, the API refuses, or the answer is lost.
CallFails(c) ==
  /\ Pending(calls[c])
  /\ IF calls[c].at = "sent" /\ rows[calls[c].id].gone THEN UNCHANGED <<faults, budget>> ELSE Mishap
  /\ form' = IF calls[c].own THEN [form EXCEPT !.busy = FALSE] ELSE form
  /\ dirty' = (dirty \/ calls[c].at = "done")
  /\ EndCall(c)
  /\ UNCHANGED <<rows, context, page, files, uploads, shown, loads, undone>>

\* The media worker or another tab writes a row.
WrittenElsewhere(m) ==
  /\ Mishap
  /\ ~rows[m].gone /\ rows' = [rows EXCEPT ![m].text = Elsewhere]
  /\ dirty' = TRUE /\ form' = [form EXCEPT !.from = "outdated"]
  /\ calls' = Overtaken(calls)
  /\ Outdate
  /\ UNCHANGED <<context, page, files, uploads, shown, undone>>

-----------------------------------------------------------------------------
Next ==
  \/ \E p \in {"gallery", "upload"} : Navigate(p)
  \/ Retry
  \/ \E l \in DOMAIN loads : ReadList(l) \/ LoadArrives(l) \/ LoadFails(l)
  \/ \E c \in Cards : Pick(c) \/ RemoveFile(c) \/ Sweep(c) \/ UploadOne(c)
  \/ UploadAll
  \/ \E i \in DOMAIN posts : StoreUpload(i) \/ UploadAnswered(i) \/ UploadFails(i)
  \/ \E i \in DOMAIN list : Open(list[i])
  \/ Close \/ Edit \/ Cancel \/ Save \/ Delete
  \/ \E t \in Texts : Type(t)
  \/ \E c \in DOMAIN calls : CommitCall(c) \/ SaveAnswered(c) \/ DeleteAnswered(c) \/ CallFails(c)
  \/ \E m \in DOMAIN rows : WrittenElsewhere(m)

Spec == Init /\ [][Next]_vars

-----------------------------------------------------------------------------
(* The statistics page, which counts the list it finds. *)

\* The media of one upload date: ids are given in the order of upload, two a day.
UploadedOn(e) == e.id \div 2

\* The size of a media.
Size(e) == e.id

Grown(s, day) == Kept(s, {e \in Range(s) : UploadedOn(e) <= day})
Days(s) == SetToSortSeq({UploadedOn(s[i]) : i \in DOMAIN s}, <)

\* fileCountGrowth and fileSizeGrowth: one point for each date, cumulative.
Growth(s) == [d \in DOMAIN Days(s) |->
               [date |-> Days(s)[d], count |-> Len(Grown(s, Days(s)[d])),
                size |-> FoldLeft(LAMBDA n, e : n + Size(e), 0, Grown(s, Days(s)[d]))]]

-----------------------------------------------------------------------------
(* Properties *)

\* A file that was picked is stored once, although "Upload All", the buttons of the cards, the
\* removal timers and changes of the route overlap.  Known exceptions: the button of a card that
\* "Upload All" still has before it, "Upload All" pressed again while it has, and a retry of an
\* upload whose answer was lost.
StoredOnceUnlessExcused ==
  \A c \in Cards \ doubled : Cardinality({m \in DOMAIN rows : rows[m].card = c}) <= 1

\* When every answer has come, the gallery shows the rows of the API, each once and with its
\* text, and the statistics count them right.  Known exceptions: until the next load, what others
\* wrote, an answer that was lost, one that is older than the row, and a list that was read before
\* a commit and arrived after it or that holds an upload whose answer was still to come.
GalleryMatchesRowsUnlessRaced ==
  (~dirty /\ ~Unanswered(posts) /\ ~Unanswered(calls)) =>
    /\ Len(list) = Len(Listed) /\ Range(list) = Range(Listed)
    /\ \A i \in DOMAIN Growth(list) :
         Growth(list)[i].count =
           Cardinality({m \in DOMAIN rows : ~rows[m].gone /\ UploadedOn(Entry(m)) <= Growth(list)[i].date})

\* A save changes a row only to what its user typed in, however saves, failures, further typing
\* and other media follow each other in one modal.  Known exceptions: the form was filled again
\* from the media as it was opened (by Cancel, or by a return to the gallery), or the media was
\* opened or written while the list was or became out of date.
NoSilentUndo == "open" \notin undone

=============================================================================
