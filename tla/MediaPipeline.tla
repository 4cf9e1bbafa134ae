----------------------------- MODULE MediaPipeline -----------------------------
(***************************************************************************)
(* The demo CMS behind its REST API: MediaService writes the file store,   *)
(* the database and the Kafka topic one after the other, and the media     *)
(* worker reads the topic, fetches each file, has it described by a model  *)
(* and puts the description back through the same API.                     *)
(*                                                                         *)
(* A request is cut at every await.  Text is a small set of values, a file *)
(* is the media it belongs to (StoreAsync makes names unique), and a tag   *)
(* is its name.  Tags are looked up without regard to case, while the      *)
(* unique index of the Tags table compares exactly.                        *)
(***************************************************************************)
EXTENDS Naturals, Sequences, FiniteSets

CONSTANTS
  Media,        \* media ids
  Stored,       \* those uploaded, without title or tags, before the worker first ran
  TextMedia,    \* those that are text files, which are indexed for search
  Slots,        \* requests that the API can be working on at once
  Names,        \* tag names, trimmed and at most 50 characters long
  TagLists,     \* the sets of names that users send
  Lower,        \* the lower-case form of each name
  Texts,        \* titles and descriptions that users give
  Caption,      \* the description the model gives
  NoText,       \* null
  NoRow, NoTags, NoSlot, Idle,
  MaxRequests,  \* bound on the requests of users
  MaxMishaps    \* bound on steps that fail and on restarts of the worker

Row == [title : Texts \cup {NoText}, desc : Texts \cup {Caption, NoText}, tags : SUBSET Names]

TagSets == SUBSET Names

(* A request: the row as it was read (Entity Framework's snapshot), what   *)
(* is to be written, the names still to be resolved and the tags found.    *)
Request ==
  [op : {"upload", "update", "delete"}, id : Media,
   pc : {"store", "copy", "insert", "read", "lookup", "create", "save", "publish", "index",
         "unlink", "erase"},
   title : Texts \cup {NoText}, desc : Texts \cup {Caption, NoText},
   given : TagSets \cup {NoTags}, todo : SUBSET Names, name : Names \cup {NoTags},
   found : SUBSET Names, twice : BOOLEAN, was : Row \cup {NoRow}, flushed : BOOLEAN]

ASSUME MediaAssumption ==
  /\ TextMedia \subseteq Media /\ Stored \subseteq Media
  /\ TagLists \subseteq SUBSET Names
  /\ Lower \in [Names -> Names]
  /\ Caption \notin Texts /\ NoText \notin Texts \cup {Caption}
  /\ IsFiniteSet(Media) /\ {MaxRequests, MaxMishaps} \subseteq Nat
  /\ \A names \in SUBSET Names : names # NoTags
  /\ NoRow \notin Row /\ NoSlot \notin Slots
  /\ Idle \notin Request

VARIABLES
  files,        \* the media whose file is in the store
  rows,         \* the Media table with the tags linked to each row
  tags,         \* the Tags table
  log,          \* the topic media.uploaded
  req,          \* what the API is doing in each slot
  job,          \* what the worker is doing
  committed,    \* offset of the consumer group: messages 1 .. committed are done
  spent,        \* requests and mishaps used up
  minted,       \* history: ids that have been given to an upload
  torn,         \* history: media whose file and row a failure has parted
  raced,        \* history: names that were created while somebody else created a variant
  wanted,       \* history: the tags that each media was last given, in lower case
  mixed,        \* history: media whose tags two requests wrote at once, or one wrote in part
  handled       \* history: offsets captioned, and offsets given up

apiVars == <<files, rows, tags, log, req>>
history == <<minted, torn, raced, wanted, mixed>>
vars == <<apiVars, job, committed, spent, history, handled>>

Job == [pc : {"consume", "fetch", "describe", "put", "await", "commit"}, at : Nat,
        slot : Slots \cup {NoSlot}]

MediaTypeOK ==
  /\ files \subseteq Media
  /\ rows \in [Media -> Row \cup {NoRow}]
  /\ tags \subseteq Names
  /\ log \in Seq(Media)
  /\ req \in [Slots -> Request \cup {Idle}]
  /\ job \in Job
  /\ committed \in 0 .. job.at /\ job.at \in 0 .. Len(log)
  /\ spent \in [{"requests", "mishaps"} -> Nat]
  /\ job.pc = "await" => job.slot # NoSlot

Init ==
  /\ files = Stored /\ tags = {}
  /\ rows = [m \in Media |-> IF m \in Stored
                            THEN [title |-> NoText, desc |-> NoText, tags |-> {}] ELSE NoRow]
  /\ log \in {f \in [1 .. Cardinality(Stored) -> Stored] : \A m \in Stored : \E i \in DOMAIN f : f[i] = m}
  /\ req = [r \in Slots |-> Idle]
  /\ job = [pc |-> "consume", at |-> 0, slot |-> NoSlot]
  /\ committed = 0
  /\ spent = [k \in {"requests", "mishaps"} |-> 0]
  /\ minted = Stored /\ torn = {} /\ raced = {} /\ mixed = {}
  /\ wanted = [m \in Media |-> {}]
  /\ handled = [done |-> {}, failed |-> {}]

-----------------------------------------------------------------------------
(* Requests.                                                               *)

Busy(r) == req[r] # Idle

At(r, pc) == Busy(r) /\ req[r].pc = pc

Lowered(names) == {Lower[n] : n \in names}

WritesTags(q) == q # Idle /\ q.op # "delete" /\ q.given # NoTags

(* Somebody else is writing the tags of media m.                           *)
Contended(r, m) == \E s \in Slots \ {r} : WritesTags(req[s]) /\ req[s].id = m

Blank(op, m) ==
  [op |-> op, id |-> m, pc |-> "read", title |-> NoText, desc |-> NoText,
   given |-> NoTags, todo |-> {}, name |-> NoTags, found |-> {}, twice |-> FALSE,
   was |-> NoRow, flushed |-> FALSE]

Goto(r, pc) == req' = [req EXCEPT ![r].pc = pc]

Spend(kind, max) == spent[kind] < max /\ spent' = [spent EXCEPT ![kind] = @ + 1]

(* POST /api/media: file type and size have been checked.                  *)
StartUpload(r) ==
  /\ ~Busy(r)
  /\ \E m \in Media \ minted, t \in Texts, names \in TagLists :
       /\ minted' = minted \cup {m}
       /\ req' = [req EXCEPT ![r] = [Blank("upload", m) EXCEPT !.pc = "store", !.title = t,
                                      !.given = names, !.todo = names]]
  /\ Spend("requests", MaxRequests)
  /\ UNCHANGED <<files, rows, tags, log, job, committed, torn, raced, wanted, mixed, handled>>

(* PUT /api/media/{id}; without tags, those of the media stay.             *)
StartUpdate(r) ==
  /\ ~Busy(r)
  /\ \E m \in Media, t \in Texts, names \in TagLists \cup {NoTags} :
       /\ rows[m] # NoRow
       /\ req' = [req EXCEPT ![r] = [Blank("update", m) EXCEPT !.title = t, !.desc = t,
                                      !.given = names,
                                      !.todo = IF names = NoTags THEN {} ELSE names]]
  /\ Spend("requests", MaxRequests)
  /\ UNCHANGED <<files, rows, tags, log, job, committed, history, handled>>

(* DELETE /api/media/{id}.                                                 *)
StartDelete(r) ==
  /\ ~Busy(r)
  /\ \E m \in Media : rows[m] # NoRow /\ req' = [req EXCEPT ![r] = Blank("delete", m)]
  /\ Spend("requests", MaxRequests)
  /\ UNCHANGED <<files, rows, tags, log, job, committed, history, handled>>

(* The answer of a request.  The worker, if it waits for this one, commits *)
(* the offset or gives the message up and consumes the next.               *)
Reply(r, ok) ==
  /\ req' = [req EXCEPT ![r] = Idle]
  /\ IF job.slot # r THEN UNCHANGED <<job, handled>>
     ELSE /\ job' = [job EXCEPT !.slot = NoSlot, !.pc = IF ok THEN "commit" ELSE "consume"]
          /\ handled' = IF ok THEN [handled EXCEPT !.done = @ \cup {job.at}]
                              ELSE [handled EXCEPT !.failed = @ \cup {job.at}]

(* LocalFileStore.StoreAsync: the file is there before its content is.     *)
Store(r) ==
  /\ At(r, "store")
  /\ files' = files \cup {req[r].id}
  /\ Goto(r, "copy")
  /\ UNCHANGED <<rows, tags, log, job, committed, spent, history, handled>>

(* CopyToAsync ends.  When it does not (see Fail: the request's token, a   *)
(* full disk) the file stays as far as it was written.                     *)
Copy(r) ==
  /\ At(r, "copy")
  /\ Goto(r, "insert")
  /\ UNCHANGED <<files, rows, tags, log, job, committed, spent, history, handled>>

(* The first SaveChangesAsync of an upload: the row, without tags.         *)
Insert(r) ==
  /\ At(r, "insert")
  /\ LET q == req[r]
         row == [title |-> q.title, desc |-> q.desc, tags |-> {}]
     IN  /\ rows' = [rows EXCEPT ![q.id] = row]
         /\ req' = [req EXCEPT ![r].was = row,
                               ![r].pc = IF q.given = {} THEN "publish" ELSE "lookup"]
  /\ UNCHANGED <<files, tags, log, job, committed, spent, history, handled>>

(* FirstOrDefaultAsync and FindAsync: not found, or on with the request.   *)
Read(r) ==
  /\ At(r, "read")
  /\ LET q == req[r]
     IN  IF rows[q.id] = NoRow
         THEN Reply(r, FALSE) /\ UNCHANGED mixed
         ELSE /\ req' = [req EXCEPT ![r].was = rows[q.id],
                           ![r].pc = IF q.op = "delete" THEN "unlink"
                                     ELSE IF q.todo = {} THEN "save" ELSE "lookup"]
              /\ mixed' = IF WritesTags(q) /\ Contended(r, q.id)
                          THEN mixed \cup {q.id} ELSE mixed
              /\ UNCHANGED <<job, handled>>
  /\ UNCHANGED <<files, rows, tags, log, committed, spent, minted, torn, raced, wanted>>

-----------------------------------------------------------------------------
(* GetOrCreateTagsAsync, one name at a time.                               *)

Variants(n) == {t \in tags : Lower[t] = Lower[n]}

(* Fault: the look-up compares exactly.                                    *)
LookupExactly(r) ==
  /\ At(r, "lookup")
  /\ LET q == req[r]
     IN  \/ /\ q.todo = {}
            /\ Goto(r, "save")
         \/ \E n \in q.todo : /\ n \notin tags
                              /\ req' = [req EXCEPT ![r].pc = "create", ![r].name = n]
         \/ \E n \in q.todo \cap tags :
              req' = [req EXCEPT ![r].todo = @ \ {n}, ![r].found = @ \cup {n}]
  /\ UNCHANGED <<files, rows, tags, log, job, committed, spent, history, handled>>

(* The tags to which two of the names lead are met twice.                  *)
Lookup(r) ==
  /\ At(r, "lookup")
  /\ LET q == req[r]
     IN  \/ /\ q.todo = {}
            /\ Goto(r, "save")
         \/ \E n \in q.todo : /\ Variants(n) = {}
                              /\ req' = [req EXCEPT ![r].pc = "create", ![r].name = n]
         \/ \E n \in q.todo : \E t \in Variants(n) :
              req' = [req EXCEPT ![r].todo = @ \ {n}, ![r].found = @ \cup {t},
                                 ![r].twice = @ \/ t \in q.found]
  /\ UNCHANGED <<files, rows, tags, log, job, committed, spent, history, handled>>

(* What an update has pending: the columns that differ from the row as it  *)
(* was read, and the links to remove.                                      *)
Amended(q) ==
  [rows[q.id] EXCEPT
     !.title = IF q.title = q.was.title THEN @ ELSE q.title,
     !.desc = IF q.desc = q.was.desc THEN @ ELSE q.desc]

(* The database refuses to change or unlink what is no longer there.       *)
Missing(q, unlinked) ==
  \/ rows[q.id] = NoRow /\ (q.title # q.was.title \/ q.desc # q.was.desc)
  \/ rows[q.id] = NoRow /\ unlinked # {}
  \/ rows[q.id] # NoRow /\ ~(unlinked \subseteq rows[q.id].tags)

(* A failed save, and any exception: the answer is 500 and what earlier    *)
(* steps have written stays.                                               *)
Abort(r) ==
  LET q == req[r]
  IN  /\ Reply(r, FALSE)
      /\ torn' = IF q.pc \in {"copy", "insert", "erase"} THEN torn \cup {q.id} ELSE torn
      /\ mixed' = IF q.flushed THEN mixed \cup {q.id} ELSE mixed

(* The SaveChangesAsync that makes a new tag.  In an update it also writes *)
(* what is pending: the new title and description, and the removal of all  *)
(* old tags.                                                               *)
Create(r) ==
  /\ At(r, "create")
  /\ LET q == req[r]
         unlinked == IF q.op = "update" THEN q.was.tags ELSE {}
     IN  IF q.name \in tags \/ (q.op = "update" /\ Missing(q, unlinked))
         THEN Abort(r) /\ UNCHANGED <<rows, tags, raced>>
         ELSE LET row == IF q.op = "update" /\ rows[q.id] # NoRow
                         THEN [Amended(q) EXCEPT !.tags = @ \ unlinked] ELSE rows[q.id]
              IN  /\ tags' = tags \cup {q.name}
                  /\ rows' = [rows EXCEPT ![q.id] = row]
                  /\ req' = [req EXCEPT ![r] =
                       [q EXCEPT !.pc = "lookup", !.name = NoTags, !.todo = @ \ {q.name},
                                 !.found = @ \cup {q.name},
                                 !.was = [title |-> q.title, desc |-> q.desc, tags |-> {}],
                                 !.flushed = q.op = "update"]]
                  /\ raced' = raced \cup {req[s].name : s \in
                       {s \in Slots \ {r} : At(s, "create") /\ Lower[req[s].name] = Lower[q.name]}}
                  /\ UNCHANGED <<job, handled, torn, mixed>>
  /\ UNCHANGED <<files, log, committed, spent, minted, wanted>>

(* Fault: an update links the new tags and forgets to remove the old ones. *)
SaveKeepingOldTags(r) ==
  /\ At(r, "save")
  /\ LET q == req[r]
     IN  IF q.twice \/ Missing(q, {}) \/ rows[q.id] = NoRow
         THEN Abort(r) /\ UNCHANGED <<rows, wanted>>
         ELSE /\ rows' = [rows EXCEPT ![q.id] = [Amended(q) EXCEPT !.tags = @ \cup q.found]]
              /\ wanted' = IF WritesTags(q) THEN [wanted EXCEPT ![q.id] = Lowered(q.given)]
                                            ELSE wanted
              /\ IF q.op = "upload" THEN Goto(r, "publish") /\ UNCHANGED <<job, handled>>
                 ELSE Reply(r, TRUE)
              /\ UNCHANGED <<torn, mixed>>
  /\ UNCHANGED <<files, tags, log, committed, spent, minted, raced>>

(* The last SaveChangesAsync: columns and links.  It fails when a tag was  *)
(* met twice (two links with one key), when a link is there already, and   *)
(* when what it changes is gone.  With nothing to change it succeeds.      *)
Save(r) ==
  /\ At(r, "save")
  /\ LET q == req[r]
         old == IF q.given = NoTags THEN {} ELSE q.was.tags
         unlinked == old \ q.found
         linked == q.found \ old
         gone == rows[q.id] = NoRow
     IN  IF \/ q.twice \/ Missing(q, unlinked)
            \/ linked # {} /\ (gone \/ linked \cap rows[q.id].tags # {})
         THEN Abort(r) /\ UNCHANGED <<rows, wanted>>
         ELSE /\ rows' = IF gone THEN rows
                         ELSE [rows EXCEPT ![q.id] =
                                 [Amended(q) EXCEPT !.tags = (@ \ unlinked) \cup linked]]
              /\ wanted' = IF WritesTags(q) THEN [wanted EXCEPT ![q.id] = Lowered(q.given)]
                                            ELSE wanted
              /\ IF q.op = "upload" THEN Goto(r, "publish") /\ UNCHANGED <<job, handled>>
                 ELSE Reply(r, TRUE)
              /\ UNCHANGED <<torn, mixed>>
  /\ UNCHANGED <<files, tags, log, committed, spent, minted, raced>>

(* PublishMediaUploadedAsync swallows every exception, so that an event is *)
(* lost without a trace.                                                   *)
Publish(r) ==
  /\ At(r, "publish")
  /\ \/ log' = Append(log, req[r].id) /\ UNCHANGED spent
     \/ Spend("mishaps", MaxMishaps) /\ UNCHANGED log
  /\ IF req[r].id \in TextMedia THEN Goto(r, "index") /\ UNCHANGED <<job, handled>> ELSE Reply(r, TRUE)
  /\ UNCHANGED <<files, rows, tags, committed, history>>

(* A text file goes to the search index.                                   *)
Index(r) ==
  /\ At(r, "index")
  /\ Reply(r, TRUE)
  /\ UNCHANGED <<files, rows, tags, log, committed, spent, history>>

(* Fault: deleting erases the row and leaves the file to a failing step.   *)
UnlinkNothing(r) ==
  /\ At(r, "unlink")
  /\ Goto(r, "erase")
  /\ UNCHANGED <<files, rows, tags, log, job, committed, spent, history, handled>>

Unlink(r) ==
  /\ At(r, "unlink")
  /\ files' = files \ {req[r].id}
  /\ Goto(r, "erase")
  /\ UNCHANGED <<rows, tags, log, job, committed, spent, history, handled>>

(* The row goes with its links.                                            *)
Erase(r) ==
  /\ At(r, "erase")
  /\ LET m == req[r].id
     IN  IF rows[m] = NoRow THEN Reply(r, FALSE) /\ UNCHANGED rows
         ELSE Reply(r, TRUE) /\ rows' = [rows EXCEPT ![m] = NoRow]
  /\ UNCHANGED <<files, tags, log, committed, spent, history>>

(* An exception, or the end of the API's process, at any await.            *)
Fail(r) ==
  /\ Busy(r)
  /\ Spend("mishaps", MaxMishaps)
  /\ Abort(r)
  /\ UNCHANGED <<files, rows, tags, log, committed, minted, raced, wanted>>

-----------------------------------------------------------------------------
(* The worker.  A message that fails is left behind: the position moves on *)
(* and nothing is committed, until a later message is.                     *)

(* Fault: a message that fails is tried again, for ever.                   *)
GiveUpAndRetry ==
  /\ job' = [job EXCEPT !.pc = "consume", !.at = @ - 1]
  /\ UNCHANGED handled

GiveUp ==
  /\ job' = [job EXCEPT !.pc = "consume"]
  /\ handled' = [handled EXCEPT !.failed = @ \cup {job.at}]

(* Fault: offsets are committed when messages are consumed (auto-commit).  *)
ConsumeAndCommit ==
  /\ job.pc = "consume"
  /\ job.at < Len(log)
  /\ job' = [job EXCEPT !.pc = "fetch", !.at = @ + 1]
  /\ committed' = job.at + 1
  /\ UNCHANGED <<apiVars, spent, history, handled>>

Consume ==
  /\ job.pc = "consume"
  /\ job.at < Len(log)
  /\ job' = [job EXCEPT !.pc = "fetch", !.at = @ + 1]
  /\ UNCHANGED <<apiVars, committed, spent, history, handled>>

(* GET /api/media/{id}/file.                                               *)
Fetch ==
  /\ job.pc = "fetch"
  /\ LET m == log[job.at]
     IN  \/ /\ rows[m] # NoRow /\ m \in files
            /\ job' = [job EXCEPT !.pc = "describe"]
            /\ UNCHANGED <<spent, handled>>
         \/ /\ rows[m] = NoRow \/ m \notin files
            /\ GiveUp
            /\ UNCHANGED spent
         \/ Spend("mishaps", MaxMishaps) /\ GiveUp
  /\ UNCHANGED <<apiVars, committed, history>>

Describe ==
  /\ job.pc = "describe"
  /\ \/ job' = [job EXCEPT !.pc = "put"] /\ UNCHANGED <<spent, handled>>
     \/ Spend("mishaps", MaxMishaps) /\ GiveUp
  /\ UNCHANGED <<apiVars, committed, history>>

(* PUT with nothing but the description: no title, no tags.                *)
Put ==
  /\ job.pc = "put"
  /\ \E r \in Slots :
       /\ ~Busy(r)
       /\ req' = [req EXCEPT ![r] = [Blank("update", log[job.at]) EXCEPT !.desc = Caption]]
       /\ job' = [job EXCEPT !.pc = "await", !.slot = r]
  /\ UNCHANGED <<files, rows, tags, log, committed, spent, history, handled>>

(* Fault: the offset that is committed passes the next message too.        *)
CommitOffsetTwice ==
  /\ job.pc = "commit"
  /\ committed' = job.at + 1
  /\ job' = [job EXCEPT !.pc = "consume"]
  /\ UNCHANGED <<apiVars, spent, history, handled>>

CommitOffset ==
  /\ job.pc = "commit"
  /\ committed' = job.at
  /\ job' = [job EXCEPT !.pc = "consume"]
  /\ UNCHANGED <<apiVars, spent, history, handled>>

(* The worker stops at any point and starts again from the offset that is  *)
(* committed (AutoOffsetReset Earliest).  Its request goes on.             *)
Restart ==
  /\ Spend("mishaps", MaxMishaps)
  /\ job' = [pc |-> "consume", at |-> committed, slot |-> NoSlot]
  /\ UNCHANGED <<apiVars, committed, history, handled>>

-----------------------------------------------------------------------------
Serve(r) ==
  \/ Store(r) \/ Copy(r) \/ Insert(r) \/ Read(r) \/ Lookup(r) \/ Create(r) \/ Save(r)
  \/ Publish(r) \/ Index(r) \/ Unlink(r) \/ Erase(r)

Work == Consume \/ Fetch \/ Describe \/ Put \/ CommitOffset

Next ==
  \/ \E r \in Slots : StartUpload(r) \/ StartUpdate(r) \/ StartDelete(r) \/ Serve(r) \/ Fail(r)
  \/ Work \/ Restart

Spec == Init /\ [][Next]_vars

(* The API goes on with its requests and the worker with its messages.     *)
FairSpec == Spec /\ WF_vars(Work) /\ \A r \in Slots : WF_vars(Serve(r))

-----------------------------------------------------------------------------
Between(r) == At(r, "copy") \/ At(r, "insert") \/ At(r, "erase")

(* A media has a row exactly when it has a file, but while it is being     *)
(* uploaded or deleted, or when one of those was cut off between the two   *)
(* stores (UploadAsync stores first, and a copy that breaks off leaves its *)
(* part of the file; DeleteAsync unlinks first).                           *)
FilesMatchRows ==
  \A m \in Media :
    \/ (rows[m] # NoRow) <=> (m \in files)
    \/ m \in torn
    \/ \E r \in Slots : Between(r) /\ req[r].id = m

(* Two tags that differ only in case come from two requests that created   *)
(* them at the same time (GetOrCreateTagsAsync looks up, then saves).      *)
CaseTwinsOnlyByRace ==
  \A m, n \in tags : (m # n /\ Lower[m] = Lower[n]) => {m, n} \cap raced # {}

(* A media at rest has the tags of the last request that gave it tags and  *)
(* was accepted, in whatever case they are stored; captions do not touch   *)
(* them.  Two requests that write the tags of one media at once may mix,   *)
(* and an update that fails after it made a new tag has already lost the   *)
(* old ones.                                                               *)
TagsAsWanted ==
  \A m \in Media \ mixed :
    \/ rows[m] = NoRow
    \/ \E r \in Slots : WritesTags(req[r]) /\ req[r].id = m
    \/ Lowered(rows[m].tags) = wanted[m]

(* The offset of the consumer group passes only messages that were         *)
(* captioned, or given up after an attempt that failed: a restart of the   *)
(* worker skips no message that it has not tried.                          *)
CommittedWereHandled == 1 .. committed \subseteq handled.done \cup handled.failed

(* Every upload that is announced is captioned, or an attempt at it fails. *)
EveryEventIsTaken ==
  \A i \in 1 .. Cardinality(Media) :
    (Len(log) >= i) ~> (i \in handled.done \cup handled.failed)
=============================================================================
