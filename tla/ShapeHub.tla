------------------------------ MODULE ShapeHub ------------------------------
(***************************************************************************)
(* The server half of the collaborative whiteboard for one board: the      *)
(* shape methods of BoardHub, each cut at its awaits, over the Shapes      *)
(* table, the SignalR group of the board and one FIFO of messages per      *)
(* connection.                                                             *)
(*                                                                         *)
(* SignalR runs the calls of one connection one after the other; handlers  *)
(* of different connections interleave at every await, and a group send    *)
(* writes to its recipients one at a time.  When a connection is lost its  *)
(* ConnectionAborted token is cancelled: the call in flight may go on or   *)
(* be abandoned at any await.  Entity Framework writes only the columns    *)
(* whose values differ from those the handler read.                        *)
(***************************************************************************)
EXTENDS Naturals, Sequences

CONSTANTS
  Conns,       \* SignalR connection ids; a reconnect takes a new one
  Shapes,      \* shape ids, minted by the clients
  Solid,       \* the ids of Path and Mesh3D shapes
  Positions,   \* values of the columns a drag changes (x, y, width, ...)
  Fills,       \* values of the columns the property panel changes
  Geometries,  \* values of geometryJson
  NoGeometry,  \* geometryJson is null
  Absent,      \* there is no row, or a message carries none
  NoCall,      \* the connection has no hub call in flight
  Drafts,      \* the payloads of new shapes
  Changes,     \* the payloads of updates
  Seed,        \* the shapes the board starts with: id -> row
  MaxCalls     \* bound on the number of hub calls

Row == [pos : Positions, fill : Fills, geo : Geometries \cup {NoGeometry}]

GroupOps == {"join", "leave"}
ShapeOps == {"create", "update", "delete"}

(* What a client asks of the hub.                                          *)
Requests ==
       [op : GroupOps, id : {Absent}, dto : {Absent}]
  \cup [op : {"create"}, id : Shapes, dto : Drafts]
  \cup [op : {"update"}, id : Shapes, dto : Changes]
  \cup [op : {"delete"}, id : Shapes, dto : {Absent}]

(* A hub call in flight: how far it is, and the handler's locals.          *)
Call ==
  [step : {"check", "save", "cast", "fan"},
   req  : Requests,
   row  : Row \cup {Absent},   \* the entity read, then the entity saved
   to   : SUBSET Conns]        \* who is still to be sent the broadcast

Events == {"created", "updated", "deleted"}

Message ==
       [kind : {"created", "updated"}, id : Shapes, row : Row]
  \cup [kind : {"deleted"}, id : Shapes, row : {Absent}]
  \cup [kind : {"ok", "error"}, id : Shapes \cup {Absent}, row : {Absent}]

(* ValidateForCreate: a path or a mesh needs a geometry.                   *)
ValidForCreate(id, dto) == id \in Solid => dto.geo # NoGeometry

ASSUME HubAssumption ==
  /\ Solid \subseteq Shapes
  /\ NoGeometry \notin Geometries
  /\ Absent \notin Row
  /\ Absent \notin Shapes
  /\ NoCall \notin Call
  /\ Drafts \subseteq Row
  /\ Changes \subseteq Row
  /\ DOMAIN Seed \subseteq Shapes
  /\ \A s \in DOMAIN Seed : Seed[s] \in Row /\ ValidForCreate(s, Seed[s])
  /\ MaxCalls \in Nat

VARIABLES
  board,       \* does the board row exist?
  db,          \* the Shapes table
  status,      \* "new", "open" or "closed" for each connection
  group,       \* the connections in the board's SignalR group
  call,        \* the hub call each connection has in flight
  outbox,      \* messages written to each connection, not yet handled by it
  asked,       \* how many hub calls were made (bounded by MaxCalls)
  minted,      \* history: the ids clients have made up
  erased       \* history: the ids whose row was deleted

hubVars == <<board, db, status, group, call, outbox, asked, minted, erased>>

TypeOK ==
  /\ board \in BOOLEAN
  /\ db \in [Shapes -> Row \cup {Absent}]
  /\ status \in [Conns -> {"new", "open", "closed"}]
  /\ group \subseteq Conns
  /\ call \in [Conns -> Call \cup {NoCall}]
  /\ outbox \in [Conns -> Seq(Message)]
  /\ asked \in 0 .. MaxCalls
  /\ minted \subseteq Shapes
  /\ erased \subseteq Shapes

Live == {s \in Shapes : db[s] # Absent}

Busy(c, steps, ops) ==
  /\ call[c] # NoCall
  /\ call[c].step \in steps
  /\ call[c].req.op \in ops

Init ==
  /\ board = TRUE
  /\ db = [s \in Shapes |-> IF s \in DOMAIN Seed THEN Seed[s] ELSE Absent]
  /\ status = [c \in Conns |-> "new"]
  /\ group = {}
  /\ call = [c \in Conns |-> NoCall]
  /\ outbox = [c \in Conns |-> <<>>]
  /\ asked = 0
  /\ minted = DOMAIN Seed
  /\ erased = {}

-----------------------------------------------------------------------------
(* Connections.                                                            *)

Connect(c) ==
  /\ status[c] = "new"
  /\ status' = [status EXCEPT ![c] = "open"]
  /\ UNCHANGED <<board, db, group, call, outbox, asked, minted, erased>>

(* The transport is lost or stopped: nothing more is delivered, and the    *)
(* connection leaves its groups.  A call in flight is not waited for.      *)
Drop(c) ==
  /\ status[c] = "open"
  /\ status' = [status EXCEPT ![c] = "closed"]
  /\ group' = group \ {c}
  /\ outbox' = [outbox EXCEPT ![c] = <<>>]
  /\ UNCHANGED <<board, db, call, asked, minted, erased>>

(* A call whose token is cancelled ends with OperationCanceledException.   *)
Abandon(c) ==
  /\ status[c] = "closed"
  /\ call[c] # NoCall
  /\ call' = [call EXCEPT ![c] = NoCall]
  /\ UNCHANGED <<board, db, status, group, outbox, asked, minted, erased>>

(* The hub starts the next call of a connection.  The id of a new shape is *)
(* a fresh UUID.                                                           *)
Begin(c, req) ==
  /\ status[c] = "open"
  /\ call[c] = NoCall
  /\ asked < MaxCalls
  /\ req.op = "create" => req.id \notin minted
  /\ minted' = IF req.op = "create" THEN minted \cup {req.id} ELSE minted
  /\ asked' = asked + 1
  /\ call' = [call EXCEPT ![c] = [step |-> "check", req |-> req,
                                  row |-> Absent, to |-> {}]]
  /\ UNCHANGED <<board, db, status, group, outbox, erased>>

-----------------------------------------------------------------------------
(* The group.  A connection that is already gone is not added.             *)

EnterGroup(c) ==
  /\ Busy(c, {"check"}, {"join"})
  /\ group' = IF status[c] = "open" THEN group \cup {c} ELSE group
  /\ call' = [call EXCEPT ![c].step = "fan"]
  /\ UNCHANGED <<board, db, status, outbox, asked, minted, erased>>

ExitGroup(c) ==
  /\ Busy(c, {"check"}, {"leave"})
  /\ group' = group \ {c}
  /\ call' = [call EXCEPT ![c].step = "fan"]
  /\ UNCHANGED <<board, db, status, outbox, asked, minted, erased>>

-----------------------------------------------------------------------------
(* Creating, updating and deleting a shape.                                *)

(* Faulty variants are named after their fault, and stand before the       *)
(* definition they would replace.  The model does not use them.            *)

(* Fault: a null geometry in an update is stored.                          *)
CopyShapeNullGeometry(dto, row) == dto

(* CopyShape: every column comes from the payload, but a null geometry     *)
(* keeps the one the handler read.                                         *)
CopyShape(dto, row) ==
  [dto EXCEPT !.geo = IF dto.geo = NoGeometry THEN row.geo ELSE dto.geo]

(* SaveChanges of an update: only the columns the handler changed reach    *)
(* the row as it is now.                                                   *)
WriteChanges(now, read, new) ==
  [pos  |-> IF new.pos = read.pos THEN now.pos ELSE new.pos,
   fill |-> IF new.fill = read.fill THEN now.fill ELSE new.fill,
   geo  |-> IF new.geo = read.geo THEN now.geo ELSE new.geo]

(* Fault: the broadcast comes before the save.                             *)
FindBoardThenCast(c) ==
  /\ Busy(c, {"check"}, {"create"})
  /\ board
  /\ ValidForCreate(call[c].req.id, call[c].req.dto)
  /\ call' = [call EXCEPT ![c].step = "cast", ![c].row = call[c].req.dto]
  /\ UNCHANGED <<board, db, status, group, outbox, asked, minted, erased>>

FindBoard(c) ==
  /\ Busy(c, {"check"}, {"create"})
  /\ board
  /\ ValidForCreate(call[c].req.id, call[c].req.dto)
  /\ call' = [call EXCEPT ![c].step = "save", ![c].row = call[c].req.dto]
  /\ UNCHANGED <<board, db, status, group, outbox, asked, minted, erased>>

FindShape(c) ==
  /\ Busy(c, {"check"}, {"update", "delete"})
  /\ call[c].req.id \in Live
  /\ call' = [call EXCEPT ![c].step = "save", ![c].row = db[call[c].req.id]]
  /\ UNCHANGED <<board, db, status, group, outbox, asked, minted, erased>>

SaveCreate(c) ==
  /\ Busy(c, {"save"}, {"create"})
  /\ board
  /\ call[c].req.id \notin Live
  /\ db' = [db EXCEPT ![call[c].req.id] = call[c].row]
  /\ call' = [call EXCEPT ![c].step = "cast"]
  /\ UNCHANGED <<board, status, group, outbox, asked, minted, erased>>

(* Fault: the save of an update inserts a row that is no longer there.     *)
SaveUpdateUpserting(c) ==
  LET new == CopyShape(call[c].req.dto, call[c].row) IN
  /\ Busy(c, {"save"}, {"update"})
  /\ db' = [db EXCEPT ![call[c].req.id] = new]
  /\ call' = [call EXCEPT ![c].step = "cast", ![c].row = new]
  /\ UNCHANGED <<board, status, group, outbox, asked, minted, erased>>

SaveUpdate(c) ==
  LET id  == call[c].req.id
      new == CopyShape(call[c].req.dto, call[c].row)
  IN
  /\ Busy(c, {"save"}, {"update"})
  /\ id \in Live
  /\ db' = [db EXCEPT ![id] = WriteChanges(db[id], call[c].row, new)]
  /\ call' = [call EXCEPT ![c].step = "cast", ![c].row = new]
  /\ UNCHANGED <<board, status, group, outbox, asked, minted, erased>>

SaveDelete(c) ==
  LET id == call[c].req.id IN
  /\ Busy(c, {"save"}, {"delete"})
  /\ id \in Live
  /\ db' = [db EXCEPT ![id] = Absent]
  /\ erased' = erased \cup {id}
  /\ call' = [call EXCEPT ![c].step = "cast"]
  /\ UNCHANGED <<board, status, group, outbox, asked, minted>>

(* Write a message to a connection; one that is gone gets nothing.         *)
Post(c, m) ==
  outbox' = [outbox EXCEPT
               ![c] = IF status[c] = "open" THEN Append(@, m) ELSE @]

Answer(c, kind) ==
  [kind |-> kind, id |-> call[c].req.id, row |-> Absent]

(* Fault: a call that fails is given up, and the client is not told.       *)
RefuseSilently(c) ==
  /\ Busy(c, {"check", "save"}, ShapeOps)
  /\ call' = [call EXCEPT ![c] = NoCall]
  /\ UNCHANGED <<board, db, status, group, outbox, asked, minted, erased>>

(* A query or SaveChanges throws: the board or the shape is missing, the   *)
(* payload is invalid, the key is taken, the row went away since it was    *)
(* read (an UPDATE or DELETE that touches no row), or the database cannot  *)
(* be reached or times out, which may happen to any of them.  A statement  *)
(* that fails has written nothing.                                         *)
Refuse(c) ==
  /\ Busy(c, {"check", "save"}, ShapeOps)
  /\ Post(c, Answer(c, "error"))
  /\ call' = [call EXCEPT ![c] = NoCall]
  /\ UNCHANGED <<board, db, status, group, asked, minted, erased>>

-----------------------------------------------------------------------------
(* The broadcast, after the save: to every member of the group, the caller *)
(* included, then the completion of the call to the caller.                *)

(* Fault: the broadcast leaves the caller out.                             *)
CastToOthers(c) ==
  /\ Busy(c, {"cast"}, ShapeOps)
  /\ call' = [call EXCEPT ![c].step = "fan", ![c].to = group \ {c}]
  /\ UNCHANGED <<board, db, status, group, outbox, asked, minted, erased>>

Cast(c) ==
  /\ Busy(c, {"cast"}, ShapeOps)
  /\ call' = [call EXCEPT ![c].step = "fan", ![c].to = group]
  /\ UNCHANGED <<board, db, status, group, outbox, asked, minted, erased>>

EventKind(op) ==
  CASE op = "create" -> "created"
    [] op = "update" -> "updated"
    [] OTHER         -> "deleted"

(* Fault: the event of a deletion carries the shape.                       *)
EventWithRow(c) ==
  [kind |-> EventKind(call[c].req.op), id |-> call[c].req.id, row |-> call[c].row]

Event(c) ==
  [kind |-> EventKind(call[c].req.op),
   id   |-> call[c].req.id,
   row  |-> IF call[c].req.op = "delete" THEN Absent ELSE call[c].row]

Send(c, r) ==
  /\ Busy(c, {"fan"}, ShapeOps)
  /\ r \in call[c].to
  /\ Post(r, Event(c))
  /\ call' = [call EXCEPT ![c].to = @ \ {r}]
  /\ UNCHANGED <<board, db, status, group, asked, minted, erased>>

Finish(c) ==
  /\ Busy(c, {"fan"}, GroupOps \cup ShapeOps)
  /\ call[c].to = {}
  /\ Post(c, Answer(c, "ok"))
  /\ call' = [call EXCEPT ![c] = NoCall]
  /\ UNCHANGED <<board, db, status, group, asked, minted, erased>>

-----------------------------------------------------------------------------
(* DELETE /api/boards/{id}: the rows go with the board, nobody is told.    *)
DeleteBoard ==
  /\ board
  /\ board' = FALSE
  /\ db' = [s \in Shapes |-> Absent]
  /\ erased' = erased \cup Live
  /\ UNCHANGED <<status, group, call, outbox, asked, minted>>

(* A client handles the next message of its connection.                    *)
Receive(c) ==
  /\ outbox[c] # <<>>
  /\ outbox' = [outbox EXCEPT ![c] = Tail(@)]
  /\ UNCHANGED <<board, db, status, group, call, asked, minted, erased>>

-----------------------------------------------------------------------------
ServerStep(c) ==
  \/ EnterGroup(c)
  \/ ExitGroup(c)
  \/ FindBoard(c)
  \/ FindShape(c)
  \/ SaveCreate(c)
  \/ SaveUpdate(c)
  \/ SaveDelete(c)
  \/ Refuse(c)
  \/ Cast(c)
  \/ \E r \in Conns : Send(c, r)
  \/ Finish(c)

Next ==
  \/ \E c \in Conns :
       \/ Connect(c)
       \/ Drop(c)
       \/ Abandon(c)
       \/ \E req \in Requests : Begin(c, req)
       \/ ServerStep(c)
       \/ Receive(c)
  \/ DeleteBoard

Spec == Init /\ [][Next]_hubVars

-----------------------------------------------------------------------------
(* Properties.                                                             *)

(* "Persist create/update/delete shape operations before broadcasting":    *)
(* whatever has been sent, or is about to be, about a shape is about a row *)
(* that was committed, and a deletion that is announced has happened.      *)
Committed(kind, id) ==
  IF kind = "deleted" THEN id \in erased ELSE id \in Live \cup erased

PersistedBeforeBroadcast ==
  /\ \A c \in Conns : \A i \in DOMAIN outbox[c] :
       outbox[c][i].kind \in Events => Committed(outbox[c][i].kind, outbox[c][i].id)
  /\ \A c \in Conns :
       Busy(c, {"cast", "fan"}, ShapeOps)
         => Committed(EventKind(call[c].req.op), call[c].req.id)

(* A path or a mesh always has its geometry: in the database, which        *)
(* validates it on create only, and in every event sent to a client, though *)
(* moves, resizes and fills send a null one.                               *)
SolidShapesKeepGeometry ==
  /\ \A s \in Solid : db[s] # Absent => db[s].geo # NoGeometry
  /\ \A c \in Conns : \A i \in DOMAIN outbox[c] :
       outbox[c][i].kind \in {"created", "updated"} /\ outbox[c][i].id \in Solid
         => outbox[c][i].row.geo # NoGeometry

(* Why these hold.  The id of a create call that has not saved yet is      *)
(* nobody else's, and every row, past or present, is of a minted id.       *)
Creating(c) == Busy(c, {"check", "save"}, {"create"})

IdsAreFresh ==
  /\ Live \cup erased \subseteq minted
  /\ \A c \in Conns : Creating(c) =>
       /\ call[c].req.id \in minted \ (Live \cup erased)
       /\ \A d \in Conns \ {c} : Creating(d) => call[d].req.id # call[c].req.id

(* A handler past its reads holds a row, with a geometry where one is      *)
(* needed; only the shape methods get to a save or a broadcast.            *)
SoundCall(k) ==
  /\ k.step \in {"save", "cast"} => k.req.op \in ShapeOps
  /\ k.step # "check" /\ k.req.op \in ShapeOps =>
       /\ k.row # Absent
       /\ k.req.id \in Solid => k.row.geo # NoGeometry

CallsHoldSoundRows == \A c \in Conns : call[c] # NoCall => SoundCall(call[c])

Inductive ==
  /\ TypeOK
  /\ IdsAreFresh
  /\ CallsHoldSoundRows
  /\ PersistedBeforeBroadcast
  /\ SolidShapesKeepGeometry

(* The table behaves like BoardStore: in particular a shape deleted while  *)
(* another client was updating it does not come back.                      *)
Store == INSTANCE BoardStore WITH rows <- db
ImplementsBoardStore == Store!Spec

(* The rule of the API contract, "Conflict resolution is last-write-wins   *)
(* per shape", as the clients see it: once the hub is idle, the last       *)
(* event about a shape that a member of the group was sent is the stored   *)
(* shape (on a board that still exists, no connection having been lost).   *)
LastEventIsStored ==
  /\ board
  /\ \A c \in Conns : call[c] = NoCall /\ status[c] # "closed"
  => \A c \in group, s \in Shapes :
       LET events == SelectSeq(outbox[c], LAMBDA m : m.kind \in Events /\ m.id = s)
       IN events # <<>> => events[Len(events)].row = db[s]
=============================================================================
