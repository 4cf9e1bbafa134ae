------------------------------ MODULE ShapeSync ------------------------------
(***************************************************************************)
(* The collaborative whiteboard end to end: the browser tabs of one board  *)
(* composed with ShapeHub.  A tab loads the board over REST, then joins it *)
(* over the hub; every edit changes the tab's own scene graph at once      *)
(* (optimistically), is sent to the hub, and is undone when the hub call   *)
(* fails; the events of the hub overwrite shapes one by one.               *)
(*                                                                         *)
(* The protocol has gaps in which a tab can end up showing something else  *)
(* than the database.  The history variable excused collects the tabs and  *)
(* shapes that went through one of them; everything else must converge.    *)
(***************************************************************************)
EXTENDS ShapeHub, FiniteSets, FiniteSetsExt

CONSTANTS
  Tabs,        \* browser tabs showing the board
  NoConn,      \* the tab has no connection
  NoDrag,      \* no drag in progress
  Draggers,    \* the tabs whose user drags shapes (bounds the model)
  MaxWait      \* bound on the hub calls a tab has outstanding

VARIABLES
  shown,       \* the tabs that have loaded the board (setBoard)
  link,        \* the connection of each tab
  view,        \* the scene graph of each tab: a shape or Absent for each id
  sent,        \* requests on their way to the hub, per connection
  wait,        \* the outstanding commits of each tab, oldest first
  drag,        \* the drag in progress in each tab
  excused      \* history: <<tab, shape>> pairs that hit a gap

tabVars == <<shown, link, view, sent, wait, drag>>
vars == <<hubVars, tabVars, excused>>

(* A commit: what to put back if the call fails.  Two fields are history:  *)
(* the shape before the user changed it, and whether nothing but this      *)
(* change has touched it since.                                            *)
Commit ==
       [op : {"join"}, id : {Absent}, undo : {Absent}, before : {Absent}, clean : BOOLEAN]
  \cup [op : {"create"}, id : Shapes, undo : {Absent}, before : {Absent}, clean : BOOLEAN]
  \cup [op : {"update", "delete"}, id : Shapes, undo : Row, before : Row, clean : BOOLEAN]

(* A drag: the shape as it was on pointer down, and whether it is still    *)
(* selected (removing a shape drops it from the selection).  "resize" also *)
(* stands for "orbit".  History: has nothing else touched it?              *)
Drag == [id : Shapes, mode : {"move", "resize"}, orig : Row,
         selected : BOOLEAN, clean : BOOLEAN]

(* The updates that the tabs send are updates of the hub.                  *)
ASSUME SyncAssumption ==
  /\ \A row \in Row : [row EXCEPT !.geo = NoGeometry] \in Changes
  /\ NoConn \notin Conns
  /\ NoDrag \notin Drag

SyncTypeOK ==
  /\ TypeOK
  /\ shown \subseteq Tabs
  /\ link \in [Tabs -> Conns \cup {NoConn}]
  /\ view \in [Tabs -> [Shapes -> Row \cup {Absent}]]
  /\ sent \in [Conns -> Seq(Requests)]
  /\ wait \in [Tabs -> Seq(Commit)]
  /\ drag \in [Tabs -> Drag \cup {NoDrag}]
  /\ excused \subseteq Tabs \X Shapes

Linked(t) == link[t] # NoConn

Pending(t, s) == \E i \in DOMAIN wait[t] : wait[t][i].id = s

Dragging(t, s) == drag[t] # NoDrag /\ drag[t].id = s

SyncInit ==
  /\ Init
  /\ shown = {}
  /\ link = [t \in Tabs |-> NoConn]
  /\ view = [t \in Tabs |-> [s \in Shapes |-> Absent]]
  /\ sent = [c \in Conns |-> <<>>]
  /\ wait = [t \in Tabs |-> <<>>]
  /\ drag = [t \in Tabs |-> NoDrag]
  /\ excused = {}

-----------------------------------------------------------------------------
(* Opening a board.                                                        *)

(* load(): GET /api/boards/{id} answers with the stored shapes, setBoard.  *)
Load(t) ==
  /\ t \notin shown
  /\ board
  /\ shown' = shown \cup {t}
  /\ view' = [view EXCEPT ![t] = db]
  /\ UNCHANGED <<hubVars, link, sent, wait, drag, excused>>

(* Requests on their way count against the bound on hub calls.             *)
OnTheWay == {p \in Conns \X (1 .. MaxCalls) : p[2] \in DOMAIN sent[p[1]]}

MayCall == asked + Cardinality(OnTheWay) < MaxCalls

Transmit(t, c, req, commit) ==
  /\ MayCall
  /\ sent' = [sent EXCEPT ![c] = Append(@, req)]
  /\ wait' = [wait EXCEPT ![t] = Append(@, commit)]

(* hub.connect(), or SignalR's automatic reconnect: a new connection, then *)
(* JoinBoard.  Shapes are not loaded again after a reconnect.              *)
Open(t, c) ==
  /\ t \in shown
  /\ ~Linked(t)
  /\ Connect(c)
  /\ link' = [link EXCEPT ![t] = c]
  /\ Transmit(t, c, [op |-> "join", id |-> Absent, dto |-> Absent],
              [op |-> "join", id |-> Absent, undo |-> Absent,
               before |-> Absent, clean |-> TRUE])
  /\ UNCHANGED <<shown, view, drag, excused>>

(* Faulty variants are named after their fault, and stand before the       *)
(* definition they would replace.  The model does not use them.            *)

(* Fault: the outstanding commits outlive their connection.                *)
LinkLostUnsettled(t) ==
  /\ Linked(t)
  /\ Drop(link[t])
  /\ link' = [link EXCEPT ![t] = NoConn]
  /\ sent' = [sent EXCEPT ![link[t]] = <<>>]
  /\ excused' = excused \cup ({t} \X Shapes)
  /\ UNCHANGED <<shown, view, wait, drag>>

(* The commits of tab t on shape s that are outstanding.                   *)
CommitsOn(t, s) == {i \in DOMAIN wait[t] : wait[t][i].op # "join" /\ wait[t][i].id = s}

(* The shapes a tab may show wrongly once its connection is lost: those    *)
(* with a commit outstanding, which may have been stored all the same, and *)
(* those with an event that is on its way or about to be sent to the tab.  *)
(* Shapes are not loaded again when the connection is back.                *)
Stranded(t) ==
  {s \in Shapes :
     \/ CommitsOn(t, s) # {}
     \/ \E i \in DOMAIN outbox[link[t]] :
          outbox[link[t]][i].kind \in Events /\ outbox[link[t]][i].id = s
     \/ \E d \in Conns : /\ Busy(d, {"fan"}, ShapeOps) /\ call[d].req.id = s
                          /\ link[t] \in call[d].to}

(* The connection is lost: what is on its way in either direction is gone, *)
(* and every outstanding commit fails and is undone, oldest first, so that *)
(* the undo of the newest is the one that stays.                           *)
LinkLost(t) ==
  /\ Linked(t)
  /\ Drop(link[t])
  /\ link' = [link EXCEPT ![t] = NoConn]
  /\ sent' = [sent EXCEPT ![link[t]] = <<>>]
  /\ wait' = [wait EXCEPT ![t] = <<>>]
  /\ view' = [view EXCEPT ![t] =
                [s \in Shapes |-> IF CommitsOn(t, s) = {} THEN view[t][s]
                                  ELSE wait[t][Max(CommitsOn(t, s))].undo]]
  /\ drag' = IF drag[t] # NoDrag /\ view'[t][drag[t].id] = Absent
               THEN [drag EXCEPT ![t].selected = FALSE] ELSE drag
  /\ excused' = excused \cup ({t} \X Stranded(t))
  /\ UNCHANGED shown

-----------------------------------------------------------------------------
(* Editing.                                                                *)

(* runInteractionCommit: show the change, call the hub, remember the undo. *)
(* (Without a connection the call fails at once, and the change is undone  *)
(* before anything else happens.)                                          *)
CommitShape(t, op, s, local, dto, undo, before, clean) ==
  /\ Linked(t)
  /\ Len(wait[t]) < MaxWait
  /\ view' = [view EXCEPT ![t][s] = local]
  /\ Transmit(t, link[t], [op |-> op, id |-> s, dto |-> dto],
              [op |-> op, id |-> s, undo |-> undo,
               before |-> before, clean |-> clean])

Untouched(t, s) == ~Pending(t, s) /\ ~Dragging(t, s)

(* The ids of the shapes some tab has drawn.                               *)
Drawn ==
  minted \cup {s \in Shapes : \E c \in Conns : \E i \in DOMAIN sent[c] :
                 sent[c][i].op = "create" /\ sent[c][i].id = s}

Draw(t, s, dto) ==
  /\ s \notin Drawn
  /\ CommitShape(t, "create", s, dto, dto, Absent, Absent, TRUE)
  /\ UNCHANGED <<hubVars, shown, link, drag, excused>>

(* The payload of an update: the tab's shape with a null geometry.         *)
ShapeUpdate(row) == [row EXCEPT !.geo = NoGeometry]

(* The property panel: the undo is the shape before the edit.              *)
EditFill(t, s, fill) ==
  /\ view[t][s] # Absent
  /\ fill # view[t][s].fill
  /\ LET updated == [view[t][s] EXCEPT !.fill = fill] IN
       CommitShape(t, "update", s, updated, ShapeUpdate(updated), view[t][s],
                   view[t][s], Untouched(t, s))
  /\ UNCHANGED <<hubVars, shown, link, drag, excused>>

(* Fault: the undo is taken when the shape has been removed already.       *)
RemoveShapeUndoneLate(t, s) ==
  /\ view[t][s] # Absent
  /\ CommitShape(t, "delete", s, Absent, Absent, Absent, view[t][s], Untouched(t, s))
  /\ drag' = IF Dragging(t, s) THEN [drag EXCEPT ![t].selected = FALSE] ELSE drag
  /\ UNCHANGED <<hubVars, shown, link, excused>>

RemoveShape(t, s) ==
  /\ view[t][s] # Absent
  /\ CommitShape(t, "delete", s, Absent, Absent, view[t][s], view[t][s],
                 Untouched(t, s))
  /\ drag' = IF Dragging(t, s) THEN [drag EXCEPT ![t].selected = FALSE] ELSE drag
  /\ UNCHANGED <<hubVars, shown, link, excused>>

PointerDown(t, s, mode) ==
  /\ t \in Draggers
  /\ MayCall
  /\ drag[t] = NoDrag
  /\ view[t][s] # Absent
  /\ drag' = [drag EXCEPT ![t] = [id |-> s, mode |-> mode, orig |-> view[t][s],
                                  selected |-> TRUE, clean |-> ~Pending(t, s)]]
  /\ UNCHANGED <<hubVars, shown, link, view, sent, wait, excused>>

(* Every move puts the shape of pointer down back, displaced.              *)
PointerMove(t, pos) ==
  /\ drag[t] # NoDrag
  /\ pos # drag[t].orig.pos
  /\ view' = [view EXCEPT ![t][drag[t].id] = [drag[t].orig EXCEPT !.pos = pos]]
  /\ UNCHANGED <<hubVars, shown, link, sent, wait, drag, excused>>

(* The end of a drag sends the shape if it is there, a move only if it is  *)
(* selected.  The undo is taken here, when the shape has already moved.    *)
DragSends(t) ==
  /\ view[t][drag[t].id] # Absent
  /\ drag[t].mode = "move" => drag[t].selected

PointerUp(t) ==
  LET s == drag[t].id
      row == view[t][s]
  IN
  /\ drag[t] # NoDrag
  /\ DragSends(t)
  /\ CommitShape(t, "update", s, row, ShapeUpdate(row), row, drag[t].orig, drag[t].clean)
  /\ drag' = [drag EXCEPT ![t] = NoDrag]
  /\ UNCHANGED <<hubVars, shown, link, excused>>

(* Otherwise the shape stays where it was dragged: nothing is sent, or the *)
(* call fails at once, without a connection, and the undo comes too late.  *)
PointerUpInVain(t) ==
  /\ drag[t] # NoDrag
  /\ ~DragSends(t) \/ ~Linked(t)
  /\ drag' = [drag EXCEPT ![t] = NoDrag]
  /\ excused' = excused \cup {<<t, drag[t].id>>}
  /\ UNCHANGED <<hubVars, shown, link, view, sent, wait>>

(* pointercancel: the shape stays where it was dragged, nothing is sent.   *)
PointerCancel(t) ==
  /\ drag[t] # NoDrag
  /\ drag' = [drag EXCEPT ![t] = NoDrag]
  /\ excused' = excused \cup {<<t, drag[t].id>>}
  /\ UNCHANGED <<hubVars, shown, link, view, sent, wait>>

-----------------------------------------------------------------------------
(* Messages from the hub.                                                  *)

(* Fault: a tab does not listen to ShapeDeleted.                           *)
ApplyEventButDeleted(t, m) ==
  /\ m.kind \in Events
  /\ view' = IF m.kind = "deleted" THEN view ELSE [view EXCEPT ![t][m.id] = m.row]
  /\ UNCHANGED <<wait, drag, excused>>

(* upsertShape and removeShape, for an event on shape s.                   *)
ApplyEvent(t, m) ==
  /\ m.kind \in Events
  /\ view' = [view EXCEPT ![t][m.id] = m.row]
  /\ wait' = [wait EXCEPT ![t] =
                [i \in DOMAIN @ |-> IF @[i].id = m.id
                                      THEN [@[i] EXCEPT !.clean = FALSE]
                                      ELSE @[i]]]
  /\ drag' = IF Dragging(t, m.id)
               THEN [drag EXCEPT ![t].clean = FALSE,
                                 ![t].selected = @ /\ m.kind # "deleted"]
               ELSE drag
  /\ UNCHANGED excused

CallSucceeds(t, m) ==
  /\ m.kind = "ok"
  /\ wait' = [wait EXCEPT ![t] = Tail(@)]
  /\ UNCHANGED <<view, drag, excused>>

(* Fault: a call that fails changes nothing in the tab.                    *)
CallFailsWithoutUndo(t, m) ==
  /\ m.kind = "error"
  /\ wait' = [wait EXCEPT ![t] = Tail(@)]
  /\ UNCHANGED <<view, drag, excused>>

(* The catch branch of runInteractionCommit: onRevert.  It is a gap when   *)
(* something else has touched the shape since, and at the end of a drag,   *)
(* where the undo was taken when the shape had moved already.              *)
CallFails(t, m) ==
  LET commit == Head(wait[t]) IN
  /\ m.kind = "error"
  /\ view' = [view EXCEPT ![t][commit.id] = commit.undo]
  /\ wait' = [wait EXCEPT ![t] = Tail(@)]
  /\ drag' = IF commit.undo = Absent /\ Dragging(t, commit.id)
               THEN [drag EXCEPT ![t].selected = FALSE] ELSE drag
  /\ excused' = IF commit.clean /\ commit.undo = commit.before
                  THEN excused ELSE excused \cup {<<t, commit.id>>}

Handle(t) ==
  /\ Linked(t)
  /\ Receive(link[t])
  /\ LET m == Head(outbox[link[t]]) IN
       \/ ApplyEvent(t, m)
       \/ CallSucceeds(t, m)
       \/ CallFails(t, m)
  /\ UNCHANGED <<shown, link, sent>>

-----------------------------------------------------------------------------
(* The hub, with the gaps its steps can open.                              *)

Dispatch(c) ==
  /\ sent[c] # <<>>
  /\ Begin(c, Head(sent[c]))
  /\ sent' = [sent EXCEPT ![c] = Tail(@)]
  /\ UNCHANGED <<shown, link, view, wait, drag, excused>>

(* Another call is between its read and the end of its broadcast on the    *)
(* shape that call c is about to write.                                    *)
Contended(c) ==
  \E d \in Conns \ {c} :
    /\ Busy(d, {"save", "cast", "fan"}, ShapeOps)
    /\ call[d].req.id = call[c].req.id

(* Tabs that show the board but are not in its group.                      *)
Outsiders == {t \in shown : ~Linked(t) \/ link[t] \notin group}

HubStep(c) ==
  /\ ServerStep(c)
  /\ excused' =
       IF Busy(c, {"save"}, ShapeOps) /\ Contended(c)
         THEN excused \cup (Tabs \X {call[c].req.id})
       ELSE IF Busy(c, {"cast"}, ShapeOps)
         THEN excused \cup (Outsiders \X {call[c].req.id})
       ELSE excused
  /\ UNCHANGED tabVars

GiveUp(c) ==
  /\ Abandon(c)
  /\ excused' = IF Busy(c, {"cast", "fan"}, ShapeOps)
                  THEN excused \cup (Tabs \X {call[c].req.id}) ELSE excused
  /\ UNCHANGED tabVars

BoardDeleted ==
  /\ DeleteBoard
  /\ excused' = Tabs \X Shapes
  /\ UNCHANGED tabVars

-----------------------------------------------------------------------------
SyncNext ==
  \/ \E t \in Tabs :
       \/ Load(t)
       \/ \E c \in Conns : Open(t, c)
       \/ LinkLost(t)
       \/ \E s \in Shapes, dto \in Drafts : Draw(t, s, dto)
       \/ \E s \in Shapes, fill \in Fills : EditFill(t, s, fill)
       \/ \E s \in Shapes : RemoveShape(t, s)
       \/ \E s \in Shapes, mode \in {"move", "resize"} : PointerDown(t, s, mode)
       \/ \E pos \in Positions : PointerMove(t, pos)
       \/ PointerUp(t)
       \/ PointerUpInVain(t)
       \/ PointerCancel(t)
       \/ Handle(t)
  \/ \E c \in Conns : Dispatch(c) \/ HubStep(c) \/ GiveUp(c)
  \/ BoardDeleted

SyncSpec == SyncInit /\ [][SyncNext]_vars

(* SignalR dispatches the calls it has received, the server runs the calls *)
(* it has started, and browsers handle what they are sent.  Users and the  *)
(* network do what they like.                                              *)
SyncFairSpec ==
  /\ SyncSpec
  /\ \A c \in Conns : WF_vars(Dispatch(c)) /\ WF_vars(HubStep(c))
  /\ \A t \in Tabs : WF_vars(Handle(t))

-----------------------------------------------------------------------------
(* Properties.                                                             *)

(* Nothing is on its way and nobody is in the middle of anything.          *)
Quiet ==
  /\ \A c \in Conns : call[c] = NoCall /\ outbox[c] = <<>> /\ sent[c] = <<>>
  /\ \A t \in Tabs : drag[t] = NoDrag

(* Once everything has settled, every tab in the board's group shows every *)
(* shape exactly as it is stored, whatever the interleaving of edits,      *)
(* echoes, failures and undos, except the shapes that went through one of  *)
(* the gaps that the steps above name.                                     *)
ConvergesUnlessExcused ==
  Quiet => \A t \in shown \ Outsiders : \A s \in Shapes :
             <<t, s>> \notin excused => view[t][s] = db[s]

(* "Reconcile against the echoed server event": when a successful commit   *)
(* is answered, the echo of the shape, with what the server stored, has    *)
(* already replaced the optimistic copy.                                   *)
EchoPrecedesAnswer ==
  \A t \in Tabs :
    Linked(t) /\ outbox[link[t]] # <<>> /\ Head(outbox[link[t]]).kind = "ok"
      => Head(wait[t]).op = "join" \/ ~Head(wait[t]).clean

(* The answers among some messages; the calls of a connection under way.   *)
Answers(messages) == {i \in DOMAIN messages : messages[i].kind \notin Events}

Running(c) == IF call[c] = NoCall THEN 0 ELSE 1

SentFor(req, commit) == commit.op = req.op /\ commit.id = req.id

(* The tabs and the hub agree on which commit each answer is for: first    *)
(* those that wait to be handled, then the call under way, then what has   *)
(* not been dispatched.                                                    *)
AnswersMatchCommits ==
  \A t \in Tabs : Linked(t) =>
    LET c == link[t]
        n == Cardinality(Answers(outbox[c]))
    IN
    /\ Len(wait[t]) = n + Running(c) + Len(sent[c])
    /\ \A i \in Answers(outbox[c]) :
         wait[t][Cardinality(Answers(outbox[c]) \cap 1 .. i)].id = outbox[c][i].id
    /\ call[c] # NoCall => SentFor(call[c].req, wait[t][n + 1])
    /\ \A i \in DOMAIN sent[c] : SentFor(sent[c][i], wait[t][n + Running(c) + i])

(* "Roll back the optimistic change if the hub call fails": when a call    *)
(* fails and nothing else has touched the shape, the tab shows it as it    *)
(* was before the user changed it.  Known exception: the tabs that drag,   *)
(* whose undo is taken when the drag has moved the shape.                  *)
FailureHandled(t) ==
  /\ Linked(t)
  /\ outbox[link[t]] # <<>>
  /\ Head(outbox[link[t]]).kind = "error"
  /\ link'[t] = link[t]
  /\ outbox'[link[t]] = Tail(outbox[link[t]])

FailedChangesAreUndone ==
  [][\A t \in Tabs \ Draggers : FailureHandled(t) /\ Head(wait[t]).clean
       => LET commit == Head(wait[t]) IN view'[t][commit.id] = commit.before]_vars

(* What a tab sends is eventually answered, or undone with its connection. *)
EveryCommitSettles == \A t \in Tabs : wait[t] # <<>> ~> wait[t] = <<>>
=============================================================================
