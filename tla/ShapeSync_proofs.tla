--------------------------- MODULE ShapeSync_proofs ---------------------------
(***************************************************************************)
(* Theorems about the hub (ShapeHub) and about the tabs that drive it      *)
(* (ShapeSync), for any number of tabs, connections, shapes, values and    *)
(* calls.                                                                  *)
(*                                                                         *)
(*   TypeCorrect             the type invariant of the hub                 *)
(*   BroadcastsArePersisted  nothing is announced before it is committed   *)
(*   GeometryIsKept          paths and meshes keep their geometry          *)
(*   HubImplementsStore      the interleaved handlers implement BoardStore *)
(*   SyncTypeCorrect         the type invariant of the tabs                *)
(*   AnswersReachCommits     each answer finds the commit it is for        *)
(*   EchoesComeFirst         an event of a commit is ahead of its answer   *)
(*   FailuresAreUndone       a refused change is undone                    *)
(*   TabsConverge            the tabs come to show what is stored          *)
(*                                                                         *)
(* Those of the hub follow from InductiveHolds, the invariance of          *)
(* Inductive.  A step of the hub is a step of BoardStore or leaves the     *)
(* table alone (NextStore); what such steps preserve is stated once        *)
(* (StoreSteps, CommittedStays), and so is what a step does to the         *)
(* messages on their way: what holds of every message already written, and *)
(* of the one being written, holds of all afterwards (PostKeeps, TailKeeps,*)
(* OutboxSteps).                                                           *)
(*                                                                         *)
(* The inductive invariant of the tabs relates, for every tab with a       *)
(* connection, four queues: the commits w the tab waits for, the messages  *)
(* o written to its connection, the call k under way there, and the        *)
(* requests q that are on their way.  Agree says which commit each answer  *)
(* and request is for, and Echoed that the event of a commit is ahead of   *)
(* its answer.  Both are operators of the four queues, so that what a step *)
(* of a tab or of the hub does to them is a lemma without state.           *)
(* ServerTells names the five things a step of the hub can do to a         *)
(* connection; the lemmas ...Keeps treat the actions one by one.           *)
(*                                                                         *)
(* For TabsConverge a second invariant, Convergence, says how a tab and    *)
(* the table may differ while something is under way.  For every shape and *)
(* tab that is not excused nothing contends for the shape (Uncontended),   *)
(* and the tab shows the stored row, drags the shape, is still to be told  *)
(* of it, or is to be told that its change has failed; the last event on   *)
(* its way tells the stored row; and what a clean commit is undone to is   *)
(* the stored row (Converging).  Converging too is an operator of the      *)
(* queues of one tab, with lemmas of its own; the lemmas ...Converges      *)
(* treat the actions one by one.                                           *)
(***************************************************************************)
EXTENDS ShapeSync, SequenceTheorems, FiniteSetTheorems, WellFoundedInduction, TLAPS

(* Every message that is written and not yet handled is in the set S.      *)
OutboxIn(S) == \A c \in Conns : outbox[c] \in Seq(S)

(* Writing a message of S keeps the outboxes in S.                         *)
LEMMA PostKeeps ==
  ASSUME NEW S, OutboxIn(S), outbox = [c \in Conns |-> outbox[c]],
         NEW r \in Conns, NEW m \in S, Post(r, m)
  PROVE  OutboxIn(S)' /\ outbox' = [c \in Conns |-> outbox'[c]]
<1>1. Append(outbox[r], m) \in Seq(S)
  BY AppendProperties DEF OutboxIn
<1> QED
  BY <1>1 DEF OutboxIn, Post

(* So does handling the oldest message of a connection.                    *)
LEMMA TailKeeps ==
  ASSUME NEW S, OutboxIn(S), outbox = [c \in Conns |-> outbox[c]],
         NEW r \in Conns, outbox[r] # <<>>,
         outbox' = [outbox EXCEPT ![r] = Tail(@)]
  PROVE  OutboxIn(S)' /\ outbox' = [c \in Conns |-> outbox'[c]]
<1>1. Tail(outbox[r]) \in Seq(S)
  BY HeadTailProperties DEF OutboxIn
<1> QED
  BY <1>1 DEF OutboxIn

(* A type invariant's outboxes are functions on the connections.           *)
LEMMA OutboxType ==
  TypeOK => OutboxIn(Message) /\ outbox = [c \in Conns |-> outbox[c]]
BY DEF TypeOK, OutboxIn

(* What CopyShape and WriteChanges build are rows.                         *)
LEMMA RowsAreBuilt ==
  ASSUME NEW dto \in Row, NEW read \in Row, NEW now \in Row
  PROVE  /\ CopyShape(dto, read) \in Row
         /\ WriteChanges(now, read, CopyShape(dto, read)) \in Row
BY DEF CopyShape, WriteChanges, Row

(* Requests carry drafts and changes, which are rows.                      *)
LEMMA RequestType ==
  ASSUME NEW req \in Requests
  PROVE  /\ req.op \in GroupOps \cup ShapeOps
         /\ req.id \in Shapes \cup {Absent}
         /\ req.op \in ShapeOps => req.id \in Shapes
         /\ req.op \in {"create", "update"} => req.dto \in Row
BY HubAssumption DEF Requests, GroupOps, ShapeOps

(* A call in flight stays one when its step, its row or its recipients     *)
(* change.                                                                 *)
LEMMA CallType ==
  ASSUME NEW k \in Call, NEW step \in {"check", "save", "cast", "fan"},
         NEW row \in Row \cup {Absent}, NEW to \in SUBSET Conns
  PROVE  /\ [k EXCEPT !.step = step] \in Call
         /\ [k EXCEPT !.step = step, !.row = row] \in Call
         /\ [k EXCEPT !.step = step, !.to = to] \in Call
         /\ [k EXCEPT !.to = to] \in Call
         /\ k.req \in Requests
         /\ k.row \in Row \cup {Absent}
         /\ k.to \subseteq Conns
BY DEF Call

(* A connection that is busy has a call in flight.                         *)
LEMMA BusyType ==
  ASSUME TypeOK, NEW c \in Conns, NEW steps, NEW ops, Busy(c, steps, ops)
  PROVE  /\ call[c] \in Call
         /\ call[c].step \in steps
         /\ call[c].req.op \in ops
BY DEF Busy, TypeOK

-----------------------------------------------------------------------------
(* The type invariant holds at the start, and every step keeps it.         *)
LEMMA InitType == Init => TypeOK
BY HubAssumption DEF Init, TypeOK

(* Of CallsHoldSoundRows it takes that a call that saves holds a row, for  *)
(* what is written to the table and to the outboxes.                       *)
LEMMA NextType == TypeOK /\ CallsHoldSoundRows /\ [Next]_hubVars => TypeOK'
<1> SUFFICES ASSUME TypeOK, CallsHoldSoundRows, [Next]_hubVars PROVE TypeOK'
  OBVIOUS
<1> USE DEF GroupOps, ShapeOps
<1>1. ASSUME NEW c \in Conns, Connect(c) PROVE TypeOK'
  BY <1>1 DEF Connect, TypeOK
<1>2. ASSUME NEW c \in Conns, Drop(c) PROVE TypeOK'
  BY <1>2 DEF Drop, TypeOK
<1>3. ASSUME NEW c \in Conns, Abandon(c) PROVE TypeOK'
  BY <1>3 DEF Abandon, TypeOK
<1>4. ASSUME NEW c \in Conns, NEW req \in Requests, Begin(c, req) PROVE TypeOK'
  <2>1. [step |-> "check", req |-> req, row |-> Absent, to |-> {}] \in Call
    BY DEF Call
  <2>2. call' \in [Conns -> Call \cup {NoCall}]
    BY <1>4, <2>1 DEF Begin, TypeOK
  <2>3. minted' \subseteq Shapes
    BY <1>4, RequestType DEF Begin, TypeOK
  <2>4. asked' \in 0 .. MaxCalls
    BY <1>4, HubAssumption DEF Begin, TypeOK
  <2> QED
    BY <1>4, <2>2, <2>3, <2>4 DEF Begin, TypeOK
<1>5. ASSUME NEW c \in Conns, EnterGroup(c) \/ ExitGroup(c) PROVE TypeOK'
  <2>1. call[c] \in Call
    BY <1>5 DEF EnterGroup, ExitGroup, Busy, TypeOK
  <2>2. [call[c] EXCEPT !.step = "fan"] \in Call
    BY <2>1, CallType
  <2>3. call' = [call EXCEPT ![c] = [call[c] EXCEPT !.step = "fan"]]
    BY <1>5 DEF EnterGroup, ExitGroup
  <2> QED
    BY <1>5, <2>2, <2>3 DEF EnterGroup, ExitGroup, TypeOK
<1>6. ASSUME NEW c \in Conns, FindBoard(c) PROVE TypeOK'
  <2> DEFINE new == [call[c] EXCEPT !.step = "save", !.row = call[c].req.dto]
  <2>1. call[c] \in Call /\ call[c].req.op = "create"
    BY <1>6 DEF FindBoard, Busy, TypeOK
  <2>2. call[c].req.dto \in Row
    BY <2>1, CallType, RequestType
  <2>3. new \in Call
    BY <2>1, <2>2, CallType
  <2>4. call' = [call EXCEPT ![c] = new]
    BY <1>6 DEF FindBoard
  <2> QED
    BY <1>6, <2>3, <2>4 DEF FindBoard, TypeOK
<1>7. ASSUME NEW c \in Conns, FindShape(c) PROVE TypeOK'
  <2> DEFINE new == [call[c] EXCEPT !.step = "save", !.row = db[call[c].req.id]]
  <2>1. call[c] \in Call
    BY <1>7, BusyType DEF FindShape
  <2>2. db[call[c].req.id] \in Row
    BY <1>7 DEF FindShape, Live, TypeOK
  <2>3. new \in Call
    BY <2>1, <2>2, CallType
  <2>4. call' = [call EXCEPT ![c] = new]
    BY <1>7 DEF FindShape
  <2> QED
    BY <1>7, <2>3, <2>4 DEF FindShape, TypeOK
<1>8. ASSUME NEW c \in Conns, SaveCreate(c) \/ SaveDelete(c) PROVE TypeOK'
  <2>1. call[c] \in Call /\ call[c].req.op \in ShapeOps
    BY <1>8 DEF SaveCreate, SaveDelete, Busy, TypeOK
  <2>2. call[c].req.id \in Shapes
    BY <2>1, CallType, RequestType
  <2>3. call[c].row \in Row \cup {Absent}
    BY <2>1, CallType
  <2>4. [call[c] EXCEPT !.step = "cast"] \in Call
    BY <2>1, CallType
  <2>5. call' = [call EXCEPT ![c] = [call[c] EXCEPT !.step = "cast"]]
    BY <1>8 DEF SaveCreate, SaveDelete
  <2> QED
    BY <1>8, <2>2, <2>3, <2>4, <2>5 DEF SaveCreate, SaveDelete, TypeOK
<1>9. ASSUME NEW c \in Conns, SaveUpdate(c) PROVE TypeOK'
  <2> DEFINE id == call[c].req.id
             built == CopyShape(call[c].req.dto, call[c].row)
             new == [call[c] EXCEPT !.step = "cast", !.row = built]
             written == WriteChanges(db[id], call[c].row, built)
  <2>1. call[c] \in Call /\ call[c].req.op = "update"
    BY <1>9 DEF SaveUpdate, Busy, TypeOK
  <2>2. id \in Shapes /\ call[c].req.dto \in Row
    BY <2>1, CallType, RequestType
  <2>3. call[c].row \in Row
    BY <1>9, <2>1, CallType DEF SaveUpdate, Busy, CallsHoldSoundRows, SoundCall
  <2>4. db[id] \in Row
    BY <1>9, <2>2 DEF SaveUpdate, Live, TypeOK
  <2>5. built \in Row /\ written \in Row
    BY <2>2, <2>3, <2>4, RowsAreBuilt
  <2>6. new \in Call
    BY <2>1, <2>5, CallType
  <2>7. call' = [call EXCEPT ![c] = new] /\ db' = [db EXCEPT ![id] = written]
    BY <1>9 DEF SaveUpdate
  <2>8. UNCHANGED <<board, status, group, outbox, asked, minted, erased>>
    BY <1>9 DEF SaveUpdate
  <2> HIDE DEF id, built, new, written
  <2> QED
    BY <2>2, <2>5, <2>6, <2>7, <2>8 DEF TypeOK
<1>10. ASSUME NEW c \in Conns, Refuse(c) \/ Finish(c) PROVE TypeOK'
  <2>1. call[c] \in Call
    BY <1>10 DEF Refuse, Finish, Busy, TypeOK
  <2>2. call[c].req.id \in Shapes \cup {Absent}
    BY <2>1, CallType, RequestType
  <2>3. PICK kind \in {"ok", "error"} : Post(c, Answer(c, kind))
    BY <1>10 DEF Refuse, Finish
  <2>4. Answer(c, kind) \in Message
    BY <2>2 DEF Answer, Message
  <2>5. OutboxIn(Message)' /\ outbox' = [d \in Conns |-> outbox'[d]]
    BY <2>3, <2>4, PostKeeps, OutboxType
  <2> QED
    BY <1>10, <2>5 DEF Refuse, Finish, OutboxIn, TypeOK
<1>11. ASSUME NEW c \in Conns, Cast(c) PROVE TypeOK'
  <2> DEFINE new == [call[c] EXCEPT !.step = "fan", !.to = group]
  <2>1. call[c] \in Call
    BY <1>11 DEF Cast, Busy, TypeOK
  <2>2. new \in Call
    BY <2>1, CallType DEF TypeOK
  <2>3. call' = [call EXCEPT ![c] = new]
    BY <1>11 DEF Cast
  <2> QED
    BY <1>11, <2>2, <2>3 DEF Cast, TypeOK
<1>12. ASSUME NEW c \in Conns, NEW r \in Conns, Send(c, r) PROVE TypeOK'
  <2> DEFINE new == [call[c] EXCEPT !.to = @ \ {r}]
  <2>1. call[c] \in Call /\ call[c].step = "fan" /\ call[c].req.op \in ShapeOps
    BY <1>12 DEF Send, Busy, TypeOK
  <2>2. call[c].req.id \in Shapes /\ call[c].row \in Row
    BY <2>1, CallType, RequestType, HubAssumption DEF CallsHoldSoundRows, SoundCall
  <2>3. Event(c) \in Message
    BY <2>1, <2>2 DEF Event, EventKind, Message
  <2>4. OutboxIn(Message)' /\ outbox' = [d \in Conns |-> outbox'[d]]
    BY <1>12, <2>3, PostKeeps, OutboxType DEF Send
  <2>5. new \in Call
    BY <2>1, CallType
  <2>6. call' = [call EXCEPT ![c] = new]
    BY <1>12 DEF Send
  <2> QED
    BY <1>12, <2>4, <2>5, <2>6 DEF Send, OutboxIn, TypeOK
<1>13. ASSUME NEW c \in Conns, Receive(c) PROVE TypeOK'
  <2>1. OutboxIn(Message)' /\ outbox' = [d \in Conns |-> outbox'[d]]
    BY <1>13, TailKeeps, OutboxType DEF Receive
  <2> QED
    BY <1>13, <2>1 DEF Receive, OutboxIn, TypeOK
<1>14. CASE DeleteBoard
  BY <1>14 DEF DeleteBoard, Live, TypeOK
<1>15. CASE UNCHANGED hubVars
  BY <1>15 DEF hubVars, TypeOK
<1> QED
  BY <1>1, <1>2, <1>3, <1>4, <1>5, <1>6, <1>7, <1>8, <1>9, <1>10, <1>11, <1>12,
     <1>13, <1>14, <1>15 DEF Next, ServerStep

-----------------------------------------------------------------------------
(* Only the call of one connection changes.                                *)
LEMMA OneCallChanges ==
  ASSUME TypeOK, CallsHoldSoundRows, NEW c \in Conns, NEW k,
         call' = [call EXCEPT ![c] = k], k # NoCall => SoundCall(k)
  PROVE  CallsHoldSoundRows'
BY DEF TypeOK, CallsHoldSoundRows, SoundCall

(* A handler that gets past its reads holds a row, with a geometry when    *)
(* the shape needs one.                                                    *)
LEMMA NextRows ==
  ASSUME TypeOK, CallsHoldSoundRows, SolidShapesKeepGeometry, [Next]_hubVars
  PROVE  CallsHoldSoundRows'
<1> USE DEF GroupOps, ShapeOps
<1>1. ASSUME NEW c \in Conns, Abandon(c) \/ Refuse(c) \/ Finish(c)
      PROVE  CallsHoldSoundRows'
  <2>1. call' = [call EXCEPT ![c] = NoCall]
    BY <1>1 DEF Abandon, Refuse, Finish
  <2> QED
    BY <2>1, OneCallChanges
<1>2. ASSUME NEW c \in Conns, NEW req \in Requests, Begin(c, req)
      PROVE  CallsHoldSoundRows'
  <2> DEFINE k == [step |-> "check", req |-> req, row |-> Absent, to |-> {}]
  <2>1. call' = [call EXCEPT ![c] = k]
    BY <1>2 DEF Begin
  <2>2. SoundCall(k)
    BY DEF SoundCall
  <2> QED
    BY <2>1, <2>2, OneCallChanges
<1>3. ASSUME NEW c \in Conns, EnterGroup(c) \/ ExitGroup(c)
      PROVE  CallsHoldSoundRows'
  <2> DEFINE k == [call[c] EXCEPT !.step = "fan"]
  <2>1. call[c] \in Call /\ call[c].req.op \in GroupOps
    BY <1>3 DEF EnterGroup, ExitGroup, Busy, TypeOK
  <2>2. SoundCall(k)
    BY <2>1 DEF SoundCall, Call
  <2>3. call' = [call EXCEPT ![c] = k]
    BY <1>3 DEF EnterGroup, ExitGroup
  <2> QED
    BY <2>2, <2>3, OneCallChanges
<1>4. ASSUME NEW c \in Conns, FindBoard(c) PROVE CallsHoldSoundRows'
  <2> DEFINE k == [call[c] EXCEPT !.step = "save", !.row = call[c].req.dto]
  <2>1. /\ call[c] \in Call
        /\ call[c].req.op = "create"
        /\ ValidForCreate(call[c].req.id, call[c].req.dto)
    BY <1>4 DEF FindBoard, Busy, TypeOK
  <2>2. call[c].req.dto \in Row
    BY <2>1, CallType, RequestType
  <2>3. SoundCall(k)
    BY <2>1, <2>2, HubAssumption DEF SoundCall, Call, ValidForCreate
  <2>4. call' = [call EXCEPT ![c] = k]
    BY <1>4 DEF FindBoard
  <2> QED
    BY <2>3, <2>4, OneCallChanges
<1>5. ASSUME NEW c \in Conns, FindShape(c) PROVE CallsHoldSoundRows'
  <2> DEFINE k == [call[c] EXCEPT !.step = "save", !.row = db[call[c].req.id]]
  <2>1. call[c] \in Call /\ call[c].req.op \in ShapeOps
    BY <1>5 DEF FindShape, Busy, TypeOK
  <2>2. db[call[c].req.id] # Absent
    BY <1>5 DEF FindShape, Live
  <2>3. SoundCall(k)
    BY <2>1, <2>2 DEF SoundCall, Call, SolidShapesKeepGeometry
  <2>4. call' = [call EXCEPT ![c] = k]
    BY <1>5 DEF FindShape
  <2> QED
    BY <2>3, <2>4, OneCallChanges
<1>6. ASSUME NEW c \in Conns, SaveCreate(c) \/ SaveDelete(c)
      PROVE  CallsHoldSoundRows'
  <2> DEFINE k == [call[c] EXCEPT !.step = "cast"]
  <2>1. call[c] \in Call /\ call[c].step = "save" /\ call[c].req.op \in ShapeOps
    BY <1>6 DEF SaveCreate, SaveDelete, Busy, TypeOK
  <2>2. SoundCall(call[c])
    BY <2>1, HubAssumption DEF CallsHoldSoundRows
  <2>3. SoundCall(k)
    BY <2>1, <2>2 DEF SoundCall, Call
  <2>4. call' = [call EXCEPT ![c] = k]
    BY <1>6 DEF SaveCreate, SaveDelete
  <2> QED
    BY <2>3, <2>4, OneCallChanges
<1>7. ASSUME NEW c \in Conns, SaveUpdate(c) PROVE CallsHoldSoundRows'
  <2> DEFINE built == CopyShape(call[c].req.dto, call[c].row)
             k == [call[c] EXCEPT !.step = "cast", !.row = built]
  <2>1. call[c] \in Call /\ call[c].step = "save" /\ call[c].req.op = "update"
    BY <1>7 DEF SaveUpdate, Busy, TypeOK
  <2>2. SoundCall(call[c])
    BY <2>1, HubAssumption DEF CallsHoldSoundRows
  <2>3. call[c].req.dto \in Row /\ call[c].row \in Row
    BY <2>1, <2>2, CallType, RequestType DEF SoundCall
  <2>4. built \in Row
    BY <2>3, RowsAreBuilt
  <2>5. call[c].req.id \in Solid => built.geo # NoGeometry
    BY <2>1, <2>2, <2>3 DEF SoundCall, CopyShape, Row
  <2>6. call' = [call EXCEPT ![c] = k]
    BY <1>7 DEF SaveUpdate
  <2> HIDE DEF built
  <2>7. SoundCall(k)
    BY <2>1, <2>4, <2>5, HubAssumption DEF SoundCall, Call
  <2> QED
    BY <2>6, <2>7, OneCallChanges
<1>8. ASSUME NEW c \in Conns, Cast(c) PROVE CallsHoldSoundRows'
  <2> DEFINE k == [call[c] EXCEPT !.step = "fan", !.to = group]
  <2>1. call[c] \in Call /\ call[c].step = "cast"
    BY <1>8 DEF Cast, Busy, TypeOK
  <2>2. SoundCall(k)
    BY <2>1, HubAssumption DEF CallsHoldSoundRows, SoundCall, Call
  <2>3. call' = [call EXCEPT ![c] = k]
    BY <1>8 DEF Cast
  <2> QED
    BY <2>2, <2>3, OneCallChanges
<1>9. ASSUME NEW c \in Conns, NEW r \in Conns, Send(c, r) PROVE CallsHoldSoundRows'
  <2> DEFINE k == [call[c] EXCEPT !.to = @ \ {r}]
  <2>1. call[c] \in Call
    BY <1>9 DEF Send, Busy, TypeOK
  <2>2. SoundCall(k)
    BY <2>1, HubAssumption DEF CallsHoldSoundRows, SoundCall, Call
  <2>3. call' = [call EXCEPT ![c] = k]
    BY <1>9 DEF Send
  <2> QED
    BY <2>2, <2>3, OneCallChanges
<1>10. ASSUME UNCHANGED call PROVE CallsHoldSoundRows'
  BY <1>10 DEF CallsHoldSoundRows, SoundCall
<1> QED
  BY <1>1, <1>2, <1>3, <1>4, <1>5, <1>6, <1>7, <1>8, <1>9, <1>10
     DEF Next, ServerStep, Connect, Drop, Receive, DeleteBoard, hubVars

-----------------------------------------------------------------------------
(* Every step of the hub is a step of BoardStore, or leaves the table as   *)
(* it is.                                                                  *)
LEMMA NextStore ==
  ASSUME TypeOK, IdsAreFresh, CallsHoldSoundRows, SolidShapesKeepGeometry,
         [Next]_hubVars
  PROVE  [Store!Next]_Store!vars
<1> USE DEF GroupOps, ShapeOps
<1>1. ASSUME NEW c \in Conns, SaveCreate(c) PROVE Store!Next
  <2> DEFINE id == call[c].req.id
             row == call[c].row
  <2>1. /\ call[c] \in Call
        /\ call[c].step = "save"
        /\ call[c].req.op = "create"
        /\ Creating(c)
    BY <1>1 DEF SaveCreate, Creating, Busy, TypeOK
  <2>2. id \in Shapes
    BY <2>1, CallType, RequestType
  <2>3. row \in Row /\ Store!Sound(id, row)
    BY <2>1, CallType, HubAssumption DEF CallsHoldSoundRows, SoundCall, Store!Sound
  <2>4. id \notin Live \cup erased
    BY <2>1 DEF IdsAreFresh
  <2>5. board /\ db' = [db EXCEPT ![id] = row] /\ UNCHANGED <<board, erased>>
    BY <1>1 DEF SaveCreate
  <2>6. Store!Insert(id)
    BY <2>3, <2>4, <2>5 DEF Store!Insert, Store!Live, Live, Store!Row, Row
  <2> QED
    BY <2>2, <2>6 DEF Store!Next
<1>2. ASSUME NEW c \in Conns, SaveUpdate(c) PROVE Store!Next
  <2> DEFINE id == call[c].req.id
             built == CopyShape(call[c].req.dto, call[c].row)
             written == WriteChanges(db[id], call[c].row, built)
  <2>1. /\ call[c] \in Call
        /\ call[c].step = "save"
        /\ call[c].req.op = "update"
        /\ id \in Live
    BY <1>2 DEF SaveUpdate, Busy, TypeOK
  <2>2. id \in Shapes /\ call[c].req.dto \in Row
    BY <2>1, CallType, RequestType
  <2>3. SoundCall(call[c]) /\ call[c].row \in Row
    BY <2>1, CallType, HubAssumption DEF CallsHoldSoundRows, SoundCall
  <2>4. db[id] \in Row
    BY <2>1 DEF Live, TypeOK
  <2>5. written \in Row
    BY <2>2, <2>3, <2>4, RowsAreBuilt
  <2>6. id \in Solid => call[c].row.geo # NoGeometry /\ db[id].geo # NoGeometry
    BY <2>1, <2>3, <2>4, HubAssumption DEF SoundCall, SolidShapesKeepGeometry
  <2>7. Store!Sound(id, written)
    BY <2>2, <2>6 DEF Store!Sound, WriteChanges, CopyShape, Row
  <2>8. db' = [db EXCEPT ![id] = written] /\ UNCHANGED <<board, erased>>
    BY <1>2 DEF SaveUpdate
  <2> HIDE DEF written
  <2>9. Store!Amend(id)
    BY <2>1, <2>5, <2>7, <2>8 DEF Store!Amend, Store!Live, Live, Store!Row, Row
  <2> QED
    BY <2>2, <2>9 DEF Store!Next
<1>3. ASSUME NEW c \in Conns, SaveDelete(c) PROVE Store!Next
  <2>1. call[c].req.id \in Live /\ Store!Erase(call[c].req.id)
    BY <1>3 DEF SaveDelete, Store!Erase, Store!Live, Live
  <2> QED
    BY <2>1 DEF Store!Next, Live
<1>4. ASSUME DeleteBoard PROVE Store!Next
  BY <1>4 DEF DeleteBoard, Store!DropBoard, Store!Live, Live, Store!Next
<1>5. ASSUME UNCHANGED <<board, db, erased>> PROVE [Store!Next]_Store!vars
  BY <1>5 DEF Store!vars
<1> QED
  BY <1>1, <1>2, <1>3, <1>4, <1>5
     DEF Next, ServerStep, Connect, Drop, Abandon, Begin, EnterGroup, ExitGroup,
         FindBoard, FindShape, Refuse, Cast, Send, Finish, Receive, hubVars

(* The part of SolidShapesKeepGeometry that is about the table.            *)
RowsKeepGeometry == \A s \in Solid : db[s] # Absent => db[s].geo # NoGeometry

(* What a step of the store does to the ids that have had a row, and to    *)
(* the geometry of the rows.                                               *)
LEMMA StoreSteps ==
  ASSUME TypeOK, [Store!Next]_Store!vars
  PROVE  /\ Live \cup erased \subseteq (Live \cup erased)'
         /\ erased \subseteq erased'
         /\ RowsKeepGeometry => RowsKeepGeometry'
<1>1. ASSUME NEW s \in Shapes, NEW row \in Row, Store!Sound(s, row),
             db' = [db EXCEPT ![s] = row], erased' = erased
      PROVE  /\ Live \cup erased \subseteq (Live \cup erased)'
             /\ RowsKeepGeometry => RowsKeepGeometry'
  <2>1. Live \subseteq Live'
    BY <1>1, HubAssumption DEF Live, TypeOK
  <2>2. RowsKeepGeometry => RowsKeepGeometry'
    BY <1>1, HubAssumption DEF RowsKeepGeometry, Store!Sound, TypeOK
  <2> QED
    BY <1>1, <2>1, <2>2
<1>2. ASSUME NEW s \in Shapes, Store!Erase(s)
      PROVE  /\ Live \cup erased \subseteq (Live \cup erased)'
             /\ erased \subseteq erased'
             /\ RowsKeepGeometry => RowsKeepGeometry'
  <2>1. /\ Live \subseteq Live' \cup {s}
        /\ erased' = erased \cup {s}
    BY <1>2 DEF Store!Erase, Live, TypeOK
  <2>2. RowsKeepGeometry => RowsKeepGeometry'
    BY <1>2, HubAssumption DEF Store!Erase, RowsKeepGeometry, TypeOK
  <2> QED
    BY <2>1, <2>2
<1>3. ASSUME Store!DropBoard
      PROVE  /\ Live \cup erased \subseteq (Live \cup erased)'
             /\ erased \subseteq erased'
             /\ RowsKeepGeometry'
  BY <1>3, HubAssumption DEF Store!DropBoard, Store!Live, Live, RowsKeepGeometry
<1>4. CASE UNCHANGED Store!vars
  BY <1>4 DEF Store!vars, Live, RowsKeepGeometry
<1>5. ASSUME NEW s \in Shapes, Store!Insert(s) \/ Store!Amend(s)
      PROVE  /\ erased' = erased
             /\ \E row \in Row : db' = [db EXCEPT ![s] = row] /\ Store!Sound(s, row)
  BY <1>5 DEF Store!Insert, Store!Amend, Store!Row, Row
<1> QED
  BY <1>1, <1>2, <1>3, <1>4, <1>5 DEF Store!Next

(* An event that is true of the table stays true.                          *)
LEMMA CommittedStays ==
  ASSUME TypeOK, [Store!Next]_Store!vars, NEW kind, NEW id, Committed(kind, id)
  PROVE  Committed(kind, id)'
BY StoreSteps DEF Committed

-----------------------------------------------------------------------------
(* Freshness.  It is kept by every step that gives no id a row and makes   *)
(* no call a creating one.                                                 *)
LEMMA FreshKept ==
  ASSUME IdsAreFresh, (Live \cup erased)' \subseteq Live \cup erased, minted' = minted,
         \A c \in Conns : Creating(c)' => Creating(c) /\ call'[c].req.id = call[c].req.id
  PROVE  IdsAreFresh'
BY DEF IdsAreFresh

(* The ids of shapes stay fresh: only Begin makes one up, and only the     *)
(* save of its own call gives it a row.                                    *)
LEMMA NextFresh ==
  ASSUME TypeOK, IdsAreFresh, [Next]_hubVars
  PROVE  IdsAreFresh'
<1> USE DEF GroupOps, ShapeOps
<1>1. ASSUME NEW c \in Conns, NEW req \in Requests, Begin(c, req) PROVE IdsAreFresh'
  <2>1. Live' = Live /\ erased' = erased /\ minted \subseteq minted'
    BY <1>1 DEF Begin, Live
  <2>2. \A d \in Conns \ {c} :
          Creating(d)' => Creating(d) /\ call'[d].req.id = call[d].req.id
    BY <1>1 DEF Begin, Creating, Busy, TypeOK
  <2>3. Creating(c)' =>
          /\ call'[c].req.id = req.id
          /\ req.id \notin minted
          /\ req.id \in minted'
    BY <1>1 DEF Begin, Creating, Busy, TypeOK
  <2> QED
    BY <2>1, <2>2, <2>3 DEF IdsAreFresh
<1>2. ASSUME NEW c \in Conns, SaveCreate(c) PROVE IdsAreFresh'
  <2> DEFINE id == call[c].req.id
  <2>1. Creating(c) /\ ~Creating(c)'
    BY <1>2 DEF SaveCreate, Creating, Busy, TypeOK
  <2>2. (Live \cup erased)' \subseteq Live \cup erased \cup {id} /\ minted' = minted
    BY <1>2 DEF SaveCreate, Live, TypeOK
  <2>3. \A d \in Conns \ {c} :
          Creating(d)' => Creating(d) /\ call'[d].req.id = call[d].req.id
    BY <1>2 DEF SaveCreate, Creating, Busy, TypeOK
  <2> QED
    BY <2>1, <2>2, <2>3 DEF IdsAreFresh
<1>3. ASSUME NEW c \in Conns, FindBoard(c) PROVE IdsAreFresh'
  <2>1. \A d \in Conns : Creating(d)' => Creating(d) /\ call'[d].req.id = call[d].req.id
    BY <1>3 DEF FindBoard, Creating, Busy, TypeOK, Call
  <2> QED
    BY <1>3, <2>1, FreshKept DEF FindBoard, Live
<1>4. ASSUME NEW c \in Conns, SaveUpdate(c) \/ SaveDelete(c) PROVE IdsAreFresh'
  <2>1. \A d \in Conns : Creating(d)' => Creating(d) /\ call'[d].req.id = call[d].req.id
    <3>1. \A d \in Conns \ {c} : call'[d] = call[d]
      BY <1>4 DEF SaveUpdate, SaveDelete, TypeOK
    <3>2. call'[c].step = "cast"
      BY <1>4 DEF SaveUpdate, SaveDelete, Busy, TypeOK, Call
    <3> QED
      BY <3>1, <3>2 DEF Creating, Busy
  <2>2. (Live \cup erased)' \subseteq Live \cup erased /\ minted' = minted
    BY <1>4 DEF SaveUpdate, SaveDelete, Live, TypeOK
  <2> QED
    BY <2>1, <2>2, FreshKept
<1>5. ASSUME NEW c \in Conns,
             \/ EnterGroup(c) \/ ExitGroup(c) \/ FindShape(c)
             \/ Abandon(c) \/ Refuse(c) \/ Finish(c)
      PROVE  IdsAreFresh'
  <2>1. \A d \in Conns : Creating(d)' => Creating(d) /\ call'[d].req.id = call[d].req.id
    BY <1>5 DEF EnterGroup, ExitGroup, FindShape, Abandon, Refuse, Finish,
                Creating, Busy, TypeOK, Call
  <2>2. Live' = Live /\ erased' = erased /\ minted' = minted
    BY <1>5 DEF EnterGroup, ExitGroup, FindShape, Abandon, Refuse, Finish, Live
  <2> QED
    BY <2>1, <2>2, FreshKept
<1>6. ASSUME NEW c \in Conns, Cast(c) \/ (\E r \in Conns : Send(c, r))
      PROVE  IdsAreFresh'
  <2>1. \A d \in Conns : Creating(d)' => Creating(d) /\ call'[d].req.id = call[d].req.id
    <3>1. CASE Cast(c)
      BY <3>1 DEF Cast, Creating, Busy, TypeOK, Call
    <3>2. CASE \E r \in Conns : Send(c, r)
      BY <3>2 DEF Send, Creating, Busy, TypeOK, Call
    <3> QED
      BY <1>6, <3>1, <3>2
  <2>2. Live' = Live /\ erased' = erased /\ minted' = minted
    BY <1>6 DEF Cast, Send, Live
  <2> QED
    BY <2>1, <2>2, FreshKept
<1>7. ASSUME UNCHANGED <<call, minted>>, (Live \cup erased)' \subseteq Live \cup erased
      PROVE  IdsAreFresh'
  BY <1>7, FreshKept DEF Creating, Busy
<1>8. ASSUME \/ DeleteBoard \/ UNCHANGED hubVars
             \/ \E c \in Conns : Connect(c) \/ Drop(c) \/ Receive(c)
      PROVE  UNCHANGED <<call, minted>> /\ (Live \cup erased)' \subseteq Live \cup erased
  BY <1>8 DEF DeleteBoard, hubVars, Connect, Drop, Receive, Live
<1> QED
  BY <1>1, <1>2, <1>3, <1>4, <1>5, <1>6, <1>7, <1>8 DEF Next, ServerStep

-----------------------------------------------------------------------------
(* Broadcasts.                                                             *)

(* A sequence over S whose elements are in T is a sequence over T.         *)
LEMMA SeqOver ==
  ASSUME NEW S, NEW T, NEW s \in Seq(S), \A i \in DOMAIN s : s[i] \in T
  PROVE  s \in Seq(T)
<1>1. PICK n \in Nat : s \in [1 .. n -> S]
  BY SeqDef
<1>2. s \in [1 .. n -> T]
  BY <1>1
<1> QED
  BY <1>2, SeqDef

(* The elements of a sequence over S are in S.                             *)
LEMMA SeqElements ==
  ASSUME NEW S, NEW s \in Seq(S)
  PROVE  \A i \in DOMAIN s : s[i] \in S
BY SeqDef

(* If what is written to the outboxes in a step is in S, and what was      *)
(* there before is, then so is what is there afterwards.                   *)
LEMMA OutboxSteps ==
  ASSUME TypeOK, [Next]_hubVars, NEW S, OutboxIn(S),
         \A c \in Conns : \A kind \in {"ok", "error"} :
            call[c] # NoCall => Answer(c, kind) \in S,
         \A c \in Conns : Busy(c, {"fan"}, ShapeOps) => Event(c) \in S
  PROVE  OutboxIn(S)'
<1>1. outbox = [c \in Conns |-> outbox[c]]
  BY OutboxType
<1>2. ASSUME NEW c \in Conns, Refuse(c) \/ Finish(c) PROVE OutboxIn(S)'
  <2>1. call[c] # NoCall
    BY <1>2 DEF Refuse, Finish, Busy
  <2>2. PICK kind \in {"ok", "error"} : Post(c, Answer(c, kind))
    BY <1>2 DEF Refuse, Finish
  <2> QED
    BY <1>1, <2>1, <2>2, PostKeeps
<1>3. ASSUME NEW c \in Conns, NEW r \in Conns, Send(c, r) PROVE OutboxIn(S)'
  <2>1. Event(c) \in S /\ Post(r, Event(c))
    BY <1>3 DEF Send
  <2> QED
    BY <1>1, <2>1, PostKeeps
<1>4. ASSUME NEW c \in Conns, Receive(c) PROVE OutboxIn(S)'
  BY <1>1, <1>4, TailKeeps DEF Receive
<1>5. ASSUME NEW c \in Conns, Drop(c) PROVE OutboxIn(S)'
  BY <1>1, <1>5 DEF Drop, OutboxIn
<1>6. ASSUME UNCHANGED outbox PROVE OutboxIn(S)'
  BY <1>6 DEF OutboxIn
<1> QED
  BY <1>2, <1>3, <1>4, <1>5, <1>6
     DEF Next, ServerStep, Connect, Abandon, Begin, EnterGroup, ExitGroup, FindBoard,
         FindShape, SaveCreate, SaveUpdate, SaveDelete, Cast, DeleteBoard, hubVars

(* The call of connection c is about to broadcast, or broadcasting.        *)
Announcing(c) == Busy(c, {"cast", "fan"}, ShapeOps)

(* A call that is broadcasting after a step was broadcasting before it, or *)
(* has just saved.                                                         *)
LEMMA NextAnnouncing ==
  ASSUME TypeOK, [Next]_hubVars, NEW c \in Conns, Announcing(c)'
  PROVE  \/ Announcing(c) /\ call'[c].req = call[c].req
         \/ SaveCreate(c) \/ SaveUpdate(c) \/ SaveDelete(c)
<1> USE DEF GroupOps, ShapeOps
<1>1. ASSUME NEW d \in Conns, NEW k, call' = [call EXCEPT ![d] = k],
             c = d => k = NoCall \/ (k.req = call[c].req /\ Announcing(c))
                        \/ k.step \notin {"cast", "fan"} \/ k.req.op \notin ShapeOps
      PROVE  Announcing(c) /\ call'[c].req = call[c].req
  BY <1>1 DEF Announcing, Busy, TypeOK
<1>2. ASSUME UNCHANGED call PROVE Announcing(c) /\ call'[c].req = call[c].req
  BY <1>2 DEF Announcing, Busy
<1>3. ASSUME NEW d \in Conns, Abandon(d) \/ Refuse(d) \/ Finish(d)
      PROVE  Announcing(c) /\ call'[c].req = call[c].req
  BY <1>1, <1>3 DEF Abandon, Refuse, Finish
<1>4. ASSUME NEW d \in Conns, NEW req \in Requests, Begin(d, req)
      PROVE  Announcing(c) /\ call'[c].req = call[c].req
  <2> DEFINE k == [step |-> "check", req |-> req, row |-> Absent, to |-> {}]
  <2>1. call' = [call EXCEPT ![d] = k] /\ k.step \notin {"cast", "fan"}
    BY <1>4 DEF Begin
  <2> HIDE DEF k
  <2> QED
    BY <2>1, <1>1
<1>5. ASSUME NEW d \in Conns, EnterGroup(d) \/ ExitGroup(d)
      PROVE  Announcing(c) /\ call'[c].req = call[c].req
  <2> DEFINE k == [call[d] EXCEPT !.step = "fan"]
  <2>1. call' = [call EXCEPT ![d] = k]
    BY <1>5 DEF EnterGroup, ExitGroup
  <2>2. k.req.op \notin ShapeOps
    BY <1>5 DEF EnterGroup, ExitGroup, Busy, TypeOK, Call
  <2> HIDE DEF k
  <2> QED
    BY <2>1, <2>2, <1>1
<1>6. ASSUME NEW d \in Conns, FindBoard(d) \/ FindShape(d)
      PROVE  Announcing(c) /\ call'[c].req = call[c].req
  <2>1. PICK row : call' = [call EXCEPT ![d] = [call[d] EXCEPT !.step = "save", !.row = row]]
    BY <1>6 DEF FindBoard, FindShape
  <2> DEFINE k == [call[d] EXCEPT !.step = "save", !.row = row]
  <2>2. k.step \notin {"cast", "fan"}
    BY <1>6 DEF FindBoard, FindShape, Busy, TypeOK, Call
  <2> HIDE DEF k
  <2> QED
    BY <2>1, <2>2, <1>1 DEF k
<1>7. ASSUME NEW d \in Conns, Cast(d) \/ (\E r \in Conns : Send(d, r))
      PROVE  Announcing(c) /\ call'[c].req = call[c].req
  <2>1. call[d] \in Call /\ Announcing(d)
    BY <1>7 DEF Cast, Send, Busy, TypeOK, Announcing
  <2>2. PICK k : call' = [call EXCEPT ![d] = k] /\ k.req = call[d].req
    BY <1>7, <2>1 DEF Cast, Send, Call
  <2> QED
    BY <2>1, <2>2, <1>1
<1>8. ASSUME NEW d \in Conns, SaveCreate(d) \/ SaveUpdate(d) \/ SaveDelete(d), c # d
      PROVE  Announcing(c) /\ call'[c].req = call[c].req
  BY <1>8 DEF SaveCreate, SaveUpdate, SaveDelete, Announcing, Busy, TypeOK
<1> QED
  BY <1>2, <1>3, <1>4, <1>5, <1>6, <1>7, <1>8
     DEF Next, ServerStep, Connect, Drop, Receive, DeleteBoard, hubVars

(* An event is written by a call that is broadcasting, which has saved;    *)
(* and what was committed when it was written remains so.                  *)
LEMMA NextPersisted ==
  ASSUME TypeOK, TypeOK', CallsHoldSoundRows, PersistedBeforeBroadcast,
         [Next]_hubVars, [Store!Next]_Store!vars
  PROVE  PersistedBeforeBroadcast'
<1> USE DEF GroupOps, ShapeOps
<1>1. PICK S : S = {m \in Message : m.kind \in Events => Committed(m.kind, m.id)'}
  OBVIOUS
<1>2. \A m \in Message : (m.kind \in Events => Committed(m.kind, m.id)) => m \in S
  BY <1>1, CommittedStays
<1>3. OutboxIn(S)
  <2> SUFFICES ASSUME NEW c \in Conns PROVE outbox[c] \in Seq(S)
    BY DEF OutboxIn
  <2>1. \A i \in DOMAIN outbox[c] : outbox[c][i] \in Message
    BY SeqElements DEF TypeOK
  <2>2. \A i \in DOMAIN outbox[c] : outbox[c][i] \in S
    BY <1>2, <2>1 DEF PersistedBeforeBroadcast
  <2> QED
    BY <2>2, SeqOver DEF TypeOK
<1>4. ASSUME NEW c \in Conns, call[c] # NoCall, NEW kind \in {"ok", "error"}
      PROVE  Answer(c, kind) \in S
  <2>1. call[c].req.id \in Shapes \cup {Absent}
    BY <1>4, CallType, RequestType DEF TypeOK
  <2>2. Answer(c, kind) \in Message /\ Answer(c, kind).kind \notin Events
    BY <2>1 DEF Answer, Message, Events
  <2> QED
    BY <1>2, <2>2
<1>5. ASSUME NEW c \in Conns, Busy(c, {"fan"}, ShapeOps) PROVE Event(c) \in S
  <2>1. call[c] \in Call /\ call[c].step = "fan" /\ call[c].req.op \in ShapeOps
    BY <1>5 DEF Busy, TypeOK
  <2>2. call[c].req.id \in Shapes /\ call[c].row \in Row
    BY <2>1, CallType, RequestType, HubAssumption DEF CallsHoldSoundRows, SoundCall
  <2>3. Event(c) \in Message
    BY <2>1, <2>2 DEF Event, EventKind, Message
  <2>4. Committed(Event(c).kind, Event(c).id)
    BY <1>5 DEF PersistedBeforeBroadcast, Busy, Event
  <2> QED
    BY <1>2, <2>3, <2>4
<1>6. OutboxIn(S)'
  BY <1>3, <1>4, <1>5, OutboxSteps
<1>7. ASSUME NEW c \in Conns
      PROVE  (\A i \in DOMAIN outbox[c] : outbox[c][i].kind \in Events =>
                Committed(outbox[c][i].kind, outbox[c][i].id))'
  <2>1. \A i \in DOMAIN outbox'[c] : outbox'[c][i] \in S
    BY <1>6, SeqElements DEF OutboxIn
  <2> QED
    BY <1>1, <2>1 DEF Committed
<1>8. ASSUME NEW c \in Conns, Announcing(c)'
      PROVE  Committed(EventKind(call[c].req.op), call[c].req.id)'
  <2> DEFINE req == call[c].req
  <2>1. CASE SaveCreate(c)
    <3>1. call[c] \in Call /\ call[c].step = "save" /\ req.op = "create"
      BY <2>1 DEF SaveCreate, Busy, TypeOK
    <3>2. req.id \in Shapes /\ call[c].row # Absent
      BY <3>1, CallType, RequestType, HubAssumption DEF CallsHoldSoundRows, SoundCall
    <3>3. call'[c].req = req /\ req.id \in Live'
      BY <2>1, <3>1, <3>2 DEF SaveCreate, Live, TypeOK, Call
    <3> QED
      BY <3>1, <3>3 DEF Committed, EventKind
  <2>3. CASE SaveUpdate(c)
    <3>1. call[c] \in Call /\ req.op = "update" /\ req.id \in Live
      BY <2>3 DEF SaveUpdate, Busy, TypeOK
    <3>2. call'[c].req = req
      BY <2>3, <3>1 DEF SaveUpdate, TypeOK, Call
    <3>3. req.id \in (Live \cup erased)'
      BY <3>1, StoreSteps
    <3> QED
      BY <3>1, <3>2, <3>3 DEF Committed, EventKind
  <2>4. CASE SaveDelete(c)
    <3>1. call[c] \in Call /\ req.op = "delete"
      BY <2>4 DEF SaveDelete, Busy, TypeOK
    <3>2. call'[c].req = req /\ req.id \in erased'
      BY <2>4, <3>1 DEF SaveDelete, TypeOK, Call
    <3> QED
      BY <3>1, <3>2 DEF Committed, EventKind
  <2>2. CASE Announcing(c) /\ call'[c].req = req
    <3>1. PICK k, id : k = EventKind(req.op) /\ id = req.id
      OBVIOUS
    <3>2. Committed(k, id)
      BY <2>2, <3>1 DEF PersistedBeforeBroadcast, Announcing
    <3>3. Committed(k, id)'
      BY <3>2, CommittedStays
    <3> QED
      BY <2>2, <3>1, <3>3 DEF Committed, EventKind
  <2> QED
    BY <1>8, <2>1, <2>2, <2>3, <2>4, NextAnnouncing
<1> QED
  BY <1>7, <1>8 DEF PersistedBeforeBroadcast, Announcing

(* The geometry is kept in the table by StoreSteps, and put in every event *)
(* by CallsHoldSoundRows.                                                  *)
LEMMA NextGeometry ==
  ASSUME TypeOK, CallsHoldSoundRows, SolidShapesKeepGeometry,
         [Next]_hubVars, [Store!Next]_Store!vars
  PROVE  SolidShapesKeepGeometry'
<1> USE DEF GroupOps, ShapeOps
<1> DEFINE S == {m \in Message : m.kind \in {"created", "updated"} /\ m.id \in Solid
                                   => m.row.geo # NoGeometry}
<1>1. OutboxIn(S)
  <2> SUFFICES ASSUME NEW c \in Conns PROVE outbox[c] \in Seq(S)
    BY DEF OutboxIn
  <2>1. \A i \in DOMAIN outbox[c] : outbox[c][i] \in Message
    BY SeqElements DEF TypeOK
  <2>2. \A i \in DOMAIN outbox[c] : outbox[c][i] \in S
    BY <2>1 DEF SolidShapesKeepGeometry
  <2> HIDE DEF S
  <2> QED
    BY <2>2, SeqOver DEF TypeOK
<1>2. ASSUME NEW c \in Conns, call[c] # NoCall, NEW kind \in {"ok", "error"}
      PROVE  Answer(c, kind) \in S
  <2>1. call[c].req.id \in Shapes \cup {Absent}
    BY <1>2, CallType, RequestType DEF TypeOK
  <2> QED
    BY <2>1 DEF Answer, Message
<1>3. ASSUME NEW c \in Conns, Busy(c, {"fan"}, ShapeOps) PROVE Event(c) \in S
  <2>1. call[c] \in Call /\ call[c].step = "fan" /\ call[c].req.op \in ShapeOps
    BY <1>3 DEF Busy, TypeOK
  <2>2. call[c].req.id \in Shapes /\ call[c].row \in Row
    BY <2>1, CallType, RequestType, HubAssumption DEF CallsHoldSoundRows, SoundCall
  <2>3. Event(c) \in Message
    BY <2>1, <2>2 DEF Event, EventKind, Message
  <2>4. SoundCall(call[c])
    BY <2>1, HubAssumption DEF CallsHoldSoundRows
  <2> QED
    BY <2>1, <2>3, <2>4 DEF Event, EventKind, SoundCall
<1>4. OutboxIn(S)'
  <2> HIDE DEF S
  <2> QED
    BY <1>1, <1>2, <1>3, OutboxSteps
<1>5. \A c \in Conns : \A i \in DOMAIN outbox'[c] : outbox'[c][i] \in S
  BY <1>4, SeqElements DEF OutboxIn
<1>6. RowsKeepGeometry'
  BY StoreSteps DEF RowsKeepGeometry, SolidShapesKeepGeometry
<1> QED
  BY <1>5, <1>6 DEF SolidShapesKeepGeometry, RowsKeepGeometry

-----------------------------------------------------------------------------
(* The inductive invariant and what follows from it.                       *)

(* The invariant holds at the start.                                       *)
LEMMA InitInductive == Init => Inductive
<1> SUFFICES ASSUME Init PROVE Inductive
  OBVIOUS
<1>1. TypeOK
  BY InitType
<1>2. IdsAreFresh
  BY DEF Init, IdsAreFresh, Creating, Busy, Live
<1>3. CallsHoldSoundRows
  BY DEF Init, CallsHoldSoundRows
<1>4. PersistedBeforeBroadcast
  BY DEF Init, PersistedBeforeBroadcast, Busy
<1>5. SolidShapesKeepGeometry
  BY HubAssumption DEF Init, SolidShapesKeepGeometry, ValidForCreate
<1> QED
  BY <1>1, <1>2, <1>3, <1>4, <1>5 DEF Inductive

(* Every step of the hub keeps it, and is a step of BoardStore or leaves   *)
(* the table as it is.                                                     *)
LEMMA NextInductive ==
  Inductive /\ [Next]_hubVars => Inductive' /\ [Store!Next]_Store!vars
<1> SUFFICES ASSUME Inductive, [Next]_hubVars
             PROVE  Inductive' /\ [Store!Next]_Store!vars
  OBVIOUS
<1> USE DEF Inductive
<1>1. TypeOK'
  BY NextType
<1>2. [Store!Next]_Store!vars
  BY NextStore
<1>3. IdsAreFresh'
  BY NextFresh
<1>4. CallsHoldSoundRows'
  BY NextRows
<1>5. PersistedBeforeBroadcast'
  BY <1>1, <1>2, NextPersisted
<1>6. SolidShapesKeepGeometry'
  BY <1>2, NextGeometry
<1> QED
  BY <1>1, <1>2, <1>3, <1>4, <1>5, <1>6

(* The inductive invariant of the hub: types, fresh ids, sound calls,      *)
(* persisted broadcasts and kept geometry, which need each other.          *)
THEOREM InductiveHolds == Spec => []Inductive
BY InitInductive, NextInductive, PTL DEF Spec

(* The tables, calls and messages of the hub are what they should be.  It  *)
(* takes the whole invariant: an update writes a row only because the row  *)
(* that it read was there.                                                 *)
THEOREM TypeCorrect == Spec => []TypeOK
<1>1. Inductive => TypeOK
  BY DEF Inductive
<1> QED
  BY <1>1, InductiveHolds, PTL

(* Nothing is announced to a client that was not committed first.          *)
THEOREM BroadcastsArePersisted == Spec => []PersistedBeforeBroadcast
<1>1. Inductive => PersistedBeforeBroadcast
  BY DEF Inductive
<1> QED
  BY <1>1, InductiveHolds, PTL

(* Paths and meshes have their geometry, stored and sent, although updates *)
(* are not validated and send a null one.                                  *)
THEOREM GeometryIsKept == Spec => []SolidShapesKeepGeometry
<1>1. Inductive => SolidShapesKeepGeometry
  BY DEF Inductive
<1> QED
  BY <1>1, InductiveHolds, PTL

(* The hub's interleaved handlers implement the table of BoardStore: no    *)
(* shape is created twice, and none comes back.                            *)
THEOREM HubImplementsStore == Spec => ImplementsBoardStore
<1>1. Init => Store!Init
  BY DEF Init, Store!Init
<1> QED
  BY <1>1, InductiveHolds, NextInductive, PTL DEF Spec, ImplementsBoardStore, Store!Spec

-----------------------------------------------------------------------------
(* THE TABS *)

(* How many of the first i messages are answers.                           *)
Rank(o, i) == Cardinality(Answers(o) \cap 1 .. i)

-----------------------------------------------------------------------------
(* Counting answers.                                                       *)

LEMMA RankType ==
  ASSUME NEW o \in Seq(Message), NEW i \in Nat
  PROVE  /\ Rank(o, i) \in Nat /\ IsFiniteSet(Answers(o) \cap 1 .. i)
         /\ Answers(o) \subseteq 1 .. Len(o) /\ Len(o) \in Nat
         /\ Cardinality(Answers(o)) = Rank(o, Len(o))
<1>1. IsFiniteSet(1 .. i)
  BY FS_Interval
<1>2. IsFiniteSet(Answers(o) \cap 1 .. i) /\ Rank(o, i) \in Nat
  BY <1>1, FS_Subset, FS_CardinalityType DEF Rank
<1>3. Answers(o) \subseteq 1 .. Len(o) /\ Len(o) \in Nat
  BY LenProperties DEF Answers
<1>4. Answers(o) \cap 1 .. Len(o) = Answers(o)
  BY <1>3
<1> QED
  BY <1>2, <1>3, <1>4 DEF Rank

(* An answer counts itself and those before it.                            *)
LEMMA RankStep ==
  ASSUME NEW o \in Seq(Message), NEW i \in Nat
  PROVE  Rank(o, i + 1) = Rank(o, i) + IF i + 1 \in Answers(o) THEN 1 ELSE 0
<1> DEFINE A == Answers(o) \cap 1 .. i
<1>1. IsFiniteSet(A) /\ i + 1 \notin A /\ Cardinality(A) = Rank(o, i) /\ Rank(o, i) \in Nat
  <2>1. IsFiniteSet(A) /\ Rank(o, i) \in Nat
    BY RankType
  <2>2. i + 1 \notin A
    OBVIOUS
  <2> QED
    BY <2>1, <2>2 DEF Rank
<1>2. CASE i + 1 \in Answers(o)
  <2>1. Answers(o) \cap 1 .. i + 1 = A \cup {i + 1}
    BY <1>2
  <2>2. Cardinality(A \cup {i + 1}) = Rank(o, i) + 1
    <3> HIDE DEF A
    <3> QED
      BY <1>1, FS_AddElement
  <2> QED
    BY <1>2, <2>1, <2>2 DEF Rank
<1>3. CASE i + 1 \notin Answers(o)
  <2>1. Answers(o) \cap 1 .. i + 1 = A
    BY <1>3
  <2>2. Rank(o, i + 1) = Rank(o, i)
    BY <2>1 DEF Rank
  <2> QED
    BY <1>1, <1>3, <2>2
<1> QED
  BY <1>2, <1>3

(* Ranks grow with the place.                                              *)
LEMMA RankGrows ==
  ASSUME NEW o \in Seq(Message), NEW i \in Nat, NEW j \in Nat, i <= j
  PROVE  Rank(o, i) <= Rank(o, j)
<1>1. Answers(o) \cap 1 .. i \subseteq Answers(o) \cap 1 .. j
  OBVIOUS
<1>2. IsFiniteSet(Answers(o) \cap 1 .. j)
  BY RankType
<1>3. Cardinality(Answers(o) \cap 1 .. i) <= Cardinality(Answers(o) \cap 1 .. j)
  BY <1>1, <1>2, FS_Subset
<1> QED
  BY <1>3 DEF Rank

(* The place of an answer among the answers.                               *)
LEMMA RankOfAnswer ==
  ASSUME NEW o \in Seq(Message), NEW i \in Answers(o)
  PROVE  /\ i \in 1 .. Len(o) /\ Rank(o, i) \in 1 .. Cardinality(Answers(o))
<1>1. i \in 1 .. Len(o) /\ Len(o) \in Nat /\ Cardinality(Answers(o)) = Rank(o, Len(o))
  BY RankType
<1>2. i - 1 \in Nat /\ (i - 1) + 1 = i
  BY <1>1
<1>3. Rank(o, i) = Rank(o, i - 1) + 1 /\ Rank(o, i - 1) \in Nat
  BY <1>2, RankStep, RankType
<1>4. Rank(o, i) <= Rank(o, Len(o)) /\ Rank(o, Len(o)) \in Nat
  <2>1. i \in Nat /\ i <= Len(o)
    BY <1>1
  <2> QED
    BY <1>1, <2>1, RankGrows, RankType
<1> QED
  BY <1>1, <1>3, <1>4

(* Writing a message adds it to the answers, if it is one, and leaves the  *)
(* places of the others.                                                   *)
LEMMA RankAppend ==
  ASSUME NEW o \in Seq(Message), NEW m \in Message
  PROVE  /\ Answers(Append(o, m)) = Answers(o) \cup IF m.kind \in Events THEN {} ELSE {Len(o) + 1}
         /\ \A i \in 1 .. Len(o) : Rank(Append(o, m), i) = Rank(o, i)
         /\ Cardinality(Answers(Append(o, m)))
              = Cardinality(Answers(o)) + IF m.kind \in Events THEN 0 ELSE 1
<1> DEFINE p == Append(o, m)
<1>1. /\ p \in Seq(Message) /\ Len(p) = Len(o) + 1 /\ Len(o) \in Nat
      /\ DOMAIN p = 1 .. Len(o) + 1 /\ DOMAIN o = 1 .. Len(o)
      /\ \A i \in 1 .. Len(o) : p[i] = o[i]
      /\ p[Len(o) + 1] = m
  BY AppendProperties, LenProperties
<1> HIDE DEF p
<1>2. Answers(p) = Answers(o) \cup IF m.kind \in Events THEN {} ELSE {Len(o) + 1}
  BY <1>1 DEF Answers
<1>3. ASSUME NEW i \in 0 .. Len(o) PROVE Rank(p, i) = Rank(o, i)
  <2>1. Answers(p) \cap 1 .. i = Answers(o) \cap 1 .. i
    BY <1>1, <1>2
  <2> QED
    BY <2>1 DEF Rank
<1>4. Len(o) + 1 \in Answers(p) <=> m.kind \notin Events
  BY <1>1 DEF Answers
<1>5. Rank(p, Len(o) + 1) = Rank(p, Len(o)) + IF m.kind \in Events THEN 0 ELSE 1
  BY <1>1, <1>4, RankStep
<1>6. Rank(p, Len(o)) = Rank(o, Len(o))
  BY <1>1, <1>3
<1>7. /\ Cardinality(Answers(p)) = Rank(p, Len(o) + 1)
      /\ Cardinality(Answers(o)) = Rank(o, Len(o))
  BY <1>1, RankType
<1> QED
  BY <1>2, <1>3, <1>5, <1>6, <1>7 DEF p

(* A set of numbers has a first.                                           *)
LEMMA FirstOf ==
  ASSUME NEW S \in SUBSET Nat, S # {}
  PROVE  \E i \in S : \A j \in S : i <= j
<1>1. PICK i \in S : \A j \in S : ~(<<j, i>> \in OpToRel(<, Nat))
  BY NatLessThanWellFounded, WFMin
<1>2. \A j \in S : ~(j < i)
  BY <1>1 DEF OpToRel
<1> QED
  BY <1>2

(* Handling a message takes it away, and every other one moves up.         *)
LEMMA RankTail ==
  ASSUME NEW o \in Seq(Message), o # <<>>
  PROVE  LET d == IF Head(o).kind \in Events THEN 0 ELSE 1 IN
         /\ \A i \in Answers(Tail(o)) : /\ i + 1 \in Answers(o) /\ Tail(o)[i] = o[i + 1]
                                        /\ Rank(o, i + 1) = Rank(Tail(o), i) + d
         /\ Cardinality(Answers(o)) = Cardinality(Answers(Tail(o))) + d
         /\ d = 1 => 1 \in Answers(o) /\ Rank(o, 1) = 1
<1> DEFINE p == Tail(o)
           d == IF Head(o).kind \in Events THEN 0 ELSE 1
<1>1. /\ p \in Seq(Message) /\ Len(o) = Len(p) + 1 /\ Len(p) \in Nat
      /\ DOMAIN p = 1 .. Len(p) /\ DOMAIN o = 1 .. Len(p) + 1
      /\ \A i \in 1 .. Len(p) : p[i] = o[i + 1]
      /\ Head(o) = o[1]
  <2>1. p \in Seq(Message) /\ Len(p) = Len(o) - 1 /\ \A i \in 1 .. Len(p) : p[i] = o[i + 1]
    BY HeadTailProperties
  <2>2. Len(o) \in Nat /\ DOMAIN o = 1 .. Len(o) /\ Len(p) \in Nat /\ DOMAIN p = 1 .. Len(p)
    BY <2>1, LenProperties
  <2> HIDE DEF p
  <2> QED
    BY <2>1, <2>2
<1> HIDE DEF p
<1>2. \A i \in Nat : i \in Answers(p) <=> i # 0 /\ i + 1 \in Answers(o)
  BY <1>1 DEF Answers
<1>3. 1 \in Answers(o) <=> Head(o).kind \notin Events
  BY <1>1 DEF Answers
<1>4. Rank(o, 0) = 0 /\ Rank(p, 0) = 0
  <2>1. Answers(o) \cap 1 .. 0 = {} /\ Answers(p) \cap 1 .. 0 = {}
    OBVIOUS
  <2> QED
    BY <2>1, FS_EmptySet DEF Rank
<1>5. Rank(o, 1) = d
  <2>1. Rank(o, 0 + 1) = Rank(o, 0) + IF 0 + 1 \in Answers(o) THEN 1 ELSE 0
    BY RankStep
  <2> QED
    BY <1>3, <1>4, <2>1
<1>9. d \in Nat /\ (d = 1 <=> Head(o).kind \notin Events)
  OBVIOUS
<1> HIDE DEF d
<1>6. \A i \in Nat : Rank(o, i + 1) = Rank(p, i) + d
  <2> DEFINE S == {i \in Nat : Rank(o, i + 1) # Rank(p, i) + d}
  <2> SUFFICES ASSUME S # {} PROVE FALSE
    OBVIOUS
  <2>1. PICK i \in S : \A j \in S : i <= j
    BY FirstOf
  <2>2. i \in Nat /\ Rank(o, i + 1) # Rank(p, i) + d
    OBVIOUS
  <2>3. i # 0
    <3>1. Rank(o, 0 + 1) = Rank(p, 0) + d
      BY <1>4, <1>5, <1>9
    <3> QED
      BY <2>2, <3>1
  <2> DEFINE k == i - 1
  <2>4. k \in Nat /\ k + 1 = i /\ k \notin S
    BY <2>1, <2>2, <2>3
  <2>5. Rank(o, k + 1) = Rank(p, k) + d
    BY <2>4
  <2> HIDE DEF k, S
  <2>6. Rank(o, (k + 1) + 1) = Rank(o, k + 1) + IF (k + 1) + 1 \in Answers(o) THEN 1 ELSE 0
    <3>1. k + 1 \in Nat
      BY <2>4
    <3> QED
      BY <3>1, RankStep
  <2>7. Rank(p, k + 1) = Rank(p, k) + IF k + 1 \in Answers(p) THEN 1 ELSE 0
    BY <1>1, <2>4, RankStep
  <2>8. (k + 1) + 1 \in Answers(o) <=> k + 1 \in Answers(p)
    BY <1>2, <2>4
  <2>9. Rank(p, k) \in Nat
    BY <1>1, <2>4, RankType
  <2> QED
    BY <1>9, <2>2, <2>4, <2>5, <2>6, <2>7, <2>8, <2>9
<1>7. \A i \in Answers(p) : i \in Nat /\ p[i] = o[i + 1]
  BY <1>1 DEF Answers
<1>8. Cardinality(Answers(o)) = Rank(o, Len(p) + 1) /\ Cardinality(Answers(p)) = Rank(p, Len(p))
  <2>1. Cardinality(Answers(o)) = Rank(o, Len(o))
    BY RankType, LenProperties
  <2> QED
    BY <1>1, <2>1, RankType
<1>10. \A i \in Answers(p) : /\ i + 1 \in Answers(o) /\ p[i] = o[i + 1]
                             /\ Rank(o, i + 1) = Rank(p, i) + d
  BY <1>2, <1>6, <1>7
<1>11. Cardinality(Answers(o)) = Cardinality(Answers(p)) + d
  BY <1>1, <1>6, <1>8
<1>12. d = 1 => 1 \in Answers(o) /\ Rank(o, 1) = 1
  BY <1>3, <1>5, <1>9
<1> QED
  BY <1>10, <1>11, <1>12 DEF p, d

-----------------------------------------------------------------------------
(* The bookkeeping of one tab: its commits w, the messages o to its        *)
(* connection, the call k under way there and the requests q on their way. *)
Agree(w, o, k, q) ==
  LET n == Cardinality(Answers(o))
      r == IF k = NoCall THEN 0 ELSE 1
  IN
  /\ Len(w) = n + r + Len(q)
  /\ \A i \in Answers(o) : w[Rank(o, i)].id = o[i].id
  /\ k # NoCall => SentFor(k.req, w[n + 1])
  /\ \A i \in DOMAIN q : SentFor(q[i], w[n + r + i])

LEMMA AgreeStates ==
  AnswersMatchCommits <=>
    \A t \in Tabs : Linked(t) =>
      Agree(wait[t], outbox[link[t]], call[link[t]], sent[link[t]])
BY DEF AnswersMatchCommits, Agree, Rank, Running

(* What every lemma below takes from the types.                            *)
LEMMA Lengths ==
  ASSUME NEW w \in Seq(Commit), NEW o \in Seq(Message), NEW q \in Seq(Requests)
  PROVE  /\ Len(w) \in Nat /\ Len(o) \in Nat /\ Len(q) \in Nat
         /\ DOMAIN q = 1 .. Len(q) /\ Cardinality(Answers(o)) \in Nat
BY LenProperties, RankType

(* The tab commits.                                                        *)
LEMMA AgreeTransmit ==
  ASSUME NEW w \in Seq(Commit), NEW o \in Seq(Message), NEW k, NEW q \in Seq(Requests),
         Agree(w, o, k, q), NEW x \in Commit, NEW req \in Requests, SentFor(req, x)
  PROVE  Agree(Append(w, x), o, k, Append(q, req))
<1> DEFINE n == Cardinality(Answers(o))
           r == IF k = NoCall THEN 0 ELSE 1
           v == Append(w, x)
           p == Append(q, req)
<1>1. /\ Len(w) \in Nat /\ Len(q) \in Nat /\ n \in Nat /\ r \in Nat
      /\ k # NoCall => r = 1
      /\ DOMAIN q = 1 .. Len(q)
  BY Lengths
<1>2. /\ Len(v) = Len(w) + 1 /\ v[Len(w) + 1] = x
      /\ \A i \in 1 .. Len(w) : v[i] = w[i]
  BY AppendProperties
<1>3. /\ Len(p) = Len(q) + 1 /\ p[Len(q) + 1] = req
      /\ DOMAIN p = 1 .. Len(q) + 1
      /\ \A i \in 1 .. Len(q) : p[i] = q[i]
  BY <1>1, AppendProperties, LenProperties
<1>4. Len(w) = n + r + Len(q)
  BY DEF Agree
<1>5. ASSUME NEW i \in Answers(o) PROVE v[Rank(o, i)].id = o[i].id
  <2>1. Rank(o, i) \in 1 .. n
    BY RankOfAnswer
  <2> HIDE DEF n, r, v
  <2>2. Rank(o, i) \in 1 .. Len(w)
    BY <1>1, <1>4, <2>1
  <2> QED
    BY <1>2, <2>2 DEF Agree
<1> HIDE DEF n, r, v, p
<1>6. ASSUME k # NoCall PROVE SentFor(k.req, v[n + 1])
  <2>1. n + 1 \in 1 .. Len(w)
    BY <1>1, <1>4, <1>6
  <2>2. SentFor(k.req, w[n + 1])
    BY <1>6 DEF Agree, n
  <2> QED
    BY <1>2, <2>1, <2>2
<1>7. ASSUME NEW i \in DOMAIN p PROVE SentFor(p[i], v[n + r + i])
  <2>1. CASE i \in 1 .. Len(q)
    <3>1. n + r + i \in 1 .. Len(w)
      BY <1>1, <1>4, <2>1
    <3>2. SentFor(q[i], w[n + r + i])
      BY <1>1, <2>1 DEF Agree, n, r
    <3> QED
      BY <1>2, <1>3, <2>1, <3>1, <3>2
  <2>2. CASE i = Len(q) + 1
    <3>1. n + r + i = Len(w) + 1
      BY <1>1, <1>4, <2>2
    <3> QED
      BY <1>2, <1>3, <2>2, <3>1
  <2> QED
    BY <1>1, <1>3, <2>1, <2>2
<1>8. Len(v) = n + r + Len(p)
  BY <1>1, <1>2, <1>3, <1>4
<1> QED
  BY <1>5, <1>6, <1>7, <1>8 DEF Agree, n, r, v, p

(* The hub takes up the oldest request.                                    *)
LEMMA AgreeDispatch ==
  ASSUME NEW w \in Seq(Commit), NEW o \in Seq(Message), NEW q \in Seq(Requests),
         Agree(w, o, NoCall, q), q # <<>>, NEW k, k # NoCall, k.req = Head(q)
  PROVE  Agree(w, o, k, Tail(q))
<1> DEFINE n == Cardinality(Answers(o))
           p == Tail(q)
<1>1. /\ Len(w) \in Nat /\ Len(q) \in Nat /\ n \in Nat /\ DOMAIN q = 1 .. Len(q)
  BY Lengths
<1>2. /\ p \in Seq(Requests) /\ Len(p) = Len(q) - 1 /\ \A i \in 1 .. Len(p) : p[i] = q[i + 1]
  BY HeadTailProperties
<1>3. Len(p) \in Nat /\ DOMAIN p = 1 .. Len(p) /\ Head(q) = q[1]
  BY <1>2, LenProperties
<1>4. /\ Len(w) = n + 0 + Len(q)
      /\ \A i \in Answers(o) : w[Rank(o, i)].id = o[i].id
      /\ \A i \in DOMAIN q : SentFor(q[i], w[n + 0 + i])
  BY DEF Agree
<1> HIDE DEF n, p
<1>5. SentFor(k.req, w[n + 1])
  <2>1. 1 \in DOMAIN q /\ n + 0 + 1 = n + 1
    BY <1>1, <1>2, <1>3
  <2> QED
    BY <1>3, <1>4, <2>1
<1>6. ASSUME NEW i \in DOMAIN p PROVE SentFor(p[i], w[n + 1 + i])
  <2>1. i + 1 \in DOMAIN q /\ n + 0 + (i + 1) = n + 1 + i
    BY <1>1, <1>2, <1>3
  <2> QED
    BY <1>2, <1>3, <1>4, <2>1
<1>7. Len(w) = n + 1 + Len(p)
  BY <1>1, <1>2, <1>3, <1>4
<1> QED
  BY <1>4, <1>5, <1>6, <1>7 DEF Agree, n, p

(* The call goes on.                                                       *)
LEMMA AgreeRuns ==
  ASSUME NEW w, NEW o, NEW q, NEW k, NEW l, Agree(w, o, k, q),
         k # NoCall, l # NoCall, l.req = k.req
  PROVE  Agree(w, o, l, q)
BY DEF Agree

(* The hub writes an event.                                                *)
LEMMA AgreeEvent ==
  ASSUME NEW w, NEW o \in Seq(Message), NEW q, NEW k, Agree(w, o, k, q),
         NEW m \in Message, m.kind \in Events
  PROVE  Agree(w, Append(o, m), k, q)
<1> DEFINE p == Append(o, m)
<1>1. /\ Answers(p) = Answers(o) /\ Cardinality(Answers(p)) = Cardinality(Answers(o))
      /\ \A i \in 1 .. Len(o) : Rank(p, i) = Rank(o, i) /\ p[i] = o[i]
  <2>1. /\ Answers(p) = Answers(o) \cup {} /\ \A i \in 1 .. Len(o) : Rank(p, i) = Rank(o, i)
    BY RankAppend
  <2>2. \A i \in 1 .. Len(o) : p[i] = o[i]
    BY AppendProperties
  <2>3. Answers(p) = Answers(o)
    BY <2>1
  <2> QED
    BY <2>1, <2>2, <2>3
<1>2. \A i \in Answers(o) : i \in 1 .. Len(o)
  BY RankOfAnswer
<1> HIDE DEF p
<1> QED
  BY <1>1, <1>2 DEF Agree, p

(* The hub answers the call under way.                                     *)
LEMMA AgreeAnswer ==
  ASSUME NEW w \in Seq(Commit), NEW o \in Seq(Message), NEW q \in Seq(Requests), NEW k,
         Agree(w, o, k, q), k # NoCall,
         NEW m \in Message, m.kind \notin Events, m.id = k.req.id
  PROVE  Agree(w, Append(o, m), NoCall, q)
<1> DEFINE n == Cardinality(Answers(o))
           p == Append(o, m)
<1>1. /\ Len(w) \in Nat /\ Len(q) \in Nat /\ n \in Nat /\ DOMAIN q = 1 .. Len(q)
      /\ Len(o) \in Nat
  BY Lengths
<1>2. /\ Answers(p) = Answers(o) \cup {Len(o) + 1}
      /\ Cardinality(Answers(p)) = n + 1
      /\ \A i \in 1 .. Len(o) : Rank(p, i) = Rank(o, i)
  BY RankAppend
<1>3. /\ p \in Seq(Message) /\ Len(p) = Len(o) + 1 /\ p[Len(o) + 1] = m
      /\ \A i \in 1 .. Len(o) : p[i] = o[i]
  BY AppendProperties
<1>4. \A i \in Answers(o) : i \in 1 .. Len(o)
  BY RankOfAnswer
<1>5. /\ Len(w) = n + 1 + Len(q) /\ SentFor(k.req, w[n + 1])
      /\ \A i \in Answers(o) : w[Rank(o, i)].id = o[i].id
      /\ \A i \in DOMAIN q : SentFor(q[i], w[n + 1 + i])
  BY DEF Agree
<1>6. Rank(p, Len(o) + 1) = n + 1
  BY <1>2, <1>3, RankType
<1> HIDE DEF n, p
<1>7. ASSUME NEW i \in Answers(p) PROVE w[Rank(p, i)].id = p[i].id
  <2>1. CASE i \in Answers(o)
    BY <1>2, <1>3, <1>4, <1>5, <2>1
  <2>2. CASE i = Len(o) + 1
    BY <1>3, <1>5, <1>6, <2>2 DEF SentFor
  <2> QED
    BY <1>2, <2>1, <2>2
<1>8. ASSUME NEW i \in DOMAIN q PROVE SentFor(q[i], w[n + 1 + 0 + i])
  <2>1. n + 1 + 0 + i = n + 1 + i
    BY <1>1
  <2> QED
    BY <1>5, <2>1
<1>9. Len(w) = n + 1 + 0 + Len(q)
  BY <1>1, <1>5
<1> QED
  BY <1>2, <1>7, <1>8, <1>9 DEF Agree, p

(* The tab handles an event: its commits keep their places.                *)
LEMMA AgreeHears ==
  ASSUME NEW w, NEW o \in Seq(Message), NEW q, NEW k, Agree(w, o, k, q),
         o # <<>>, Head(o).kind \in Events
  PROVE  Agree(w, Tail(o), k, q)
<1> DEFINE p == Tail(o)
<1>1. /\ \A i \in Answers(p) : /\ i + 1 \in Answers(o) /\ p[i] = o[i + 1]
                               /\ Rank(o, i + 1) = Rank(p, i) + 0
      /\ Cardinality(Answers(o)) = Cardinality(Answers(p)) + 0
  BY RankTail
<1>2. p \in Seq(Message)
  BY HeadTailProperties
<1>3. /\ Cardinality(Answers(p)) \in Nat
      /\ \A i \in Answers(p) : Rank(p, i) \in 1 .. Cardinality(Answers(p))
  <2>1. Len(p) \in Nat
    BY <1>2, LenProperties
  <2> HIDE DEF p
  <2> QED
    BY <1>2, <2>1, RankOfAnswer, RankType
<1>4. \A i \in Answers(p) : Rank(o, i + 1) = Rank(p, i)
  BY <1>1, <1>3
<1>5. Cardinality(Answers(o)) = Cardinality(Answers(p))
  BY <1>1, <1>3
<1> HIDE DEF p
<1>6. \A i \in Answers(p) : w[Rank(p, i)].id = p[i].id
  BY <1>1, <1>4 DEF Agree
<1> QED
  BY <1>5, <1>6 DEF Agree, p

(* Only the ids and the number of the commits matter.                      *)
LEMMA AgreeIds ==
  ASSUME NEW w \in Seq(Commit), NEW v, NEW o \in Seq(Message), NEW q \in Seq(Requests), NEW k,
         Agree(w, o, k, q), Len(v) = Len(w), \A i \in 1 .. Len(w) : v[i].id = w[i].id /\ v[i].op = w[i].op
  PROVE  Agree(v, o, k, q)
<1> DEFINE n == Cardinality(Answers(o))
           r == IF k = NoCall THEN 0 ELSE 1
<1>1. /\ Len(w) \in Nat /\ Len(q) \in Nat /\ n \in Nat /\ DOMAIN q = 1 .. Len(q)
      /\ r \in Nat
      /\ k # NoCall => r = 1
  BY Lengths
<1>2. Len(w) = n + r + Len(q)
  BY DEF Agree
<1>3. \A i \in Answers(o) : Rank(o, i) \in 1 .. n
  BY RankOfAnswer
<1> HIDE DEF n, r
<1>4. \A i \in Answers(o) : Rank(o, i) \in 1 .. Len(w)
  BY <1>1, <1>2, <1>3
<1>5. k # NoCall => n + 1 \in 1 .. Len(w)
  BY <1>1, <1>2
<1>6. \A i \in DOMAIN q : n + r + i \in 1 .. Len(w)
  BY <1>1, <1>2
<1> QED
  BY <1>4, <1>5, <1>6 DEF Agree, SentFor, n, r

(* The tab handles an answer: it is for the oldest commit.                 *)
LEMMA AgreeSettles ==
  ASSUME NEW w \in Seq(Commit), NEW o \in Seq(Message), NEW q \in Seq(Requests), NEW k,
         Agree(w, o, k, q), o # <<>>, Head(o).kind \notin Events
  PROVE  w # <<>> /\ Head(w).id = Head(o).id /\ Agree(Tail(w), Tail(o), k, q)
<1> DEFINE p == Tail(o)
           n == Cardinality(Answers(p))
           r == IF k = NoCall THEN 0 ELSE 1
           v == Tail(w)
<1>1. /\ \A i \in Answers(p) : /\ i + 1 \in Answers(o) /\ p[i] = o[i + 1]
                               /\ Rank(o, i + 1) = Rank(p, i) + 1
      /\ Cardinality(Answers(o)) = n + 1
      /\ 1 \in Answers(o) /\ Rank(o, 1) = 1
  BY RankTail
<1>2. p \in Seq(Message) /\ Head(o) = o[1]
  BY HeadTailProperties
<1>3. /\ Len(w) \in Nat /\ Len(q) \in Nat /\ n \in Nat /\ DOMAIN q = 1 .. Len(q)
      /\ r \in Nat
      /\ k # NoCall => r = 1
  BY <1>2, Lengths
<1>4. \A i \in Answers(p) : Rank(p, i) \in 1 .. n
  BY <1>2, RankOfAnswer
<1>5. /\ Len(w) = (n + 1) + r + Len(q)
      /\ \A i \in Answers(o) : w[Rank(o, i)].id = o[i].id
      /\ k # NoCall => SentFor(k.req, w[(n + 1) + 1])
      /\ \A i \in DOMAIN q : SentFor(q[i], w[(n + 1) + r + i])
  BY <1>1 DEF Agree
<1>6. w # <<>>
  <2> HIDE DEF p, n, r
  <2>1. Len(w) # 0
    BY <1>3, <1>5
  <2> QED
    BY <2>1
<1>7. Len(v) = Len(w) - 1 /\ (\A i \in 1 .. Len(v) : v[i] = w[i + 1]) /\ Head(w) = w[1]
  BY <1>6, HeadTailProperties
<1> HIDE DEF p, n, r, v
<1>8. Len(v) = n + r + Len(q)
  BY <1>3, <1>5, <1>7
<1>9. ASSUME NEW i \in Answers(p) PROVE v[Rank(p, i)].id = p[i].id
  <2>1. Rank(p, i) \in 1 .. Len(v)
    BY <1>3, <1>4, <1>8
  <2>2. v[Rank(p, i)] = w[Rank(o, i + 1)]
    BY <1>1, <1>7, <2>1
  <2>3. w[Rank(o, i + 1)].id = o[i + 1].id
    BY <1>1, <1>5
  <2> QED
    BY <1>1, <2>2, <2>3
<1>10. ASSUME k # NoCall PROVE SentFor(k.req, v[n + 1])
  <2>1. n + 1 \in 1 .. Len(v)
    BY <1>3, <1>8, <1>10
  <2> QED
    BY <1>5, <1>7, <1>10, <2>1
<1>11. ASSUME NEW i \in DOMAIN q PROVE SentFor(q[i], v[n + r + i])
  <2>1. n + r + i \in 1 .. Len(v) /\ (n + r + i) + 1 = (n + 1) + r + i
    BY <1>3, <1>8
  <2> QED
    BY <1>5, <1>7, <2>1
<1>12. Head(w).id = Head(o).id
  BY <1>1, <1>2, <1>5, <1>7
<1> QED
  BY <1>6, <1>8, <1>9, <1>10, <1>11, <1>12 DEF Agree, n, r, v, p

-----------------------------------------------------------------------------
(* Echoes.  Commit x joins the board, is known to have been echoed, or has *)
(* an event on its shape among the messages o before place j.              *)
HeardBefore(x, o, j) ==
  \/ x.op = "join"
  \/ ~x.clean
  \/ \E l \in DOMAIN o : l < j /\ o[l].kind \in Events /\ o[l].id = x.id

(* The echo of a commit is before its answer, and before the end of the    *)
(* messages once the broadcast of the call under way has left connection c *)
(* behind.                                                                 *)
Echoed(w, o, k, c) ==
  /\ \A i \in Answers(o) : o[i].kind = "ok" => HeardBefore(w[Rank(o, i)], o, i)
  /\ k # NoCall /\ k.step = "fan" /\ k.req.op \in ShapeOps
       => c \in k.to \/ HeardBefore(w[Cardinality(Answers(o)) + 1], o, Len(o) + 1)

(* The places that Echoed speaks of are places of w.                       *)
LEMMA PlacesInRange ==
  ASSUME NEW w \in Seq(Commit), NEW o \in Seq(Message), NEW k, NEW q \in Seq(Requests),
         Agree(w, o, k, q)
  PROVE  /\ \A i \in Answers(o) : i \in 1 .. Len(o) /\ Rank(o, i) \in 1 .. Len(w)
         /\ k # NoCall => /\ Cardinality(Answers(o)) + 1 \in 1 .. Len(w)
                          /\ SentFor(k.req, w[Cardinality(Answers(o)) + 1])
<1> DEFINE n == Cardinality(Answers(o))
           r == IF k = NoCall THEN 0 ELSE 1
<1>1. Len(w) \in Nat /\ Len(q) \in Nat /\ n \in Nat
  BY Lengths
<1>2. r \in Nat /\ (k # NoCall => r = 1)
  OBVIOUS
<1>3. Len(w) = n + r + Len(q) /\ (k # NoCall => SentFor(k.req, w[n + 1]))
  BY DEF Agree
<1>4. \A i \in Answers(o) : i \in 1 .. Len(o) /\ Rank(o, i) \in 1 .. n
  BY RankOfAnswer
<1> HIDE DEF n, r
<1>5. \A i \in Answers(o) : Rank(o, i) \in 1 .. Len(w)
  BY <1>1, <1>2, <1>3, <1>4
<1>6. k # NoCall => n + 1 \in 1 .. Len(w)
  BY <1>1, <1>2, <1>3
<1> QED
  BY <1>3, <1>4, <1>5, <1>6 DEF n

(* The tab commits.                                                        *)
LEMMA EchoedTransmit ==
  ASSUME NEW w \in Seq(Commit), NEW o \in Seq(Message), NEW k, NEW q \in Seq(Requests),
         Agree(w, o, k, q), NEW c, Echoed(w, o, k, c), NEW x \in Commit
  PROVE  Echoed(Append(w, x), o, k, c)
<1>1. \A i \in 1 .. Len(w) : Append(w, x)[i] = w[i]
  BY AppendProperties
<1>2. /\ \A i \in Answers(o) : Append(w, x)[Rank(o, i)] = w[Rank(o, i)]
      /\ k # NoCall => Append(w, x)[Cardinality(Answers(o)) + 1] = w[Cardinality(Answers(o)) + 1]
  BY <1>1, PlacesInRange
<1> QED
  BY <1>2 DEF Echoed

(* The call takes a step that leaves connection c in its broadcast, or has *)
(* none under way.                                                         *)
LEMMA EchoedRuns ==
  ASSUME NEW w, NEW o, NEW k, NEW c, Echoed(w, o, k, c), NEW l,
         \/ l = NoCall \/ l.step # "fan" \/ l.req.op \notin ShapeOps \/ c \in l.to
         \/ k # NoCall /\ k.step = "fan" /\ k.req.op \in ShapeOps /\ c \notin k.to
  PROVE  Echoed(w, o, l, c)
BY DEF Echoed

(* A message more after place j changes nothing before it.                 *)
LEMMA HeardLonger ==
  ASSUME NEW x, NEW o \in Seq(Message), NEW m \in Message,
         NEW i \in Nat, NEW j \in Nat, i <= j, HeardBefore(x, o, i)
  PROVE  HeardBefore(x, Append(o, m), j)
<1>1. DOMAIN o = 1 .. Len(o) /\ Len(o) \in Nat
  BY LenProperties
<1>2. /\ DOMAIN Append(o, m) = 1 .. Len(o) + 1
      /\ \A l \in 1 .. Len(o) : Append(o, m)[l] = o[l]
  BY AppendProperties, LenProperties
<1>3. CASE \E l \in DOMAIN o : l < i /\ o[l].kind \in Events /\ o[l].id = x.id
  <2>1. PICK l \in DOMAIN o : l < i /\ o[l].kind \in Events /\ o[l].id = x.id
    BY <1>3
  <2>2. l \in DOMAIN Append(o, m) /\ l < j /\ Append(o, m)[l] = o[l]
    BY <1>1, <1>2, <2>1
  <2> QED
    BY <2>1, <2>2 DEF HeardBefore
<1> QED
  BY <1>3 DEF HeardBefore

(* The hub writes an event.                                                *)
LEMMA EchoedEvent ==
  ASSUME NEW w, NEW o \in Seq(Message), NEW k, NEW c, Echoed(w, o, k, c),
         NEW m \in Message, m.kind \in Events
  PROVE  Echoed(w, Append(o, m), k, c)
<1> DEFINE p == Append(o, m)
<1>1. /\ Answers(p) = Answers(o) \cup {} /\ \A i \in 1 .. Len(o) : Rank(p, i) = Rank(o, i)
      /\ Cardinality(Answers(p)) = Cardinality(Answers(o)) + 0
  BY RankAppend
<1>2. Len(p) = Len(o) + 1 /\ \A i \in 1 .. Len(o) : p[i] = o[i]
  BY AppendProperties
<1>3. /\ Len(o) \in Nat /\ Cardinality(Answers(o)) \in Nat
      /\ \A i \in Answers(o) : i \in 1 .. Len(o)
  BY LenProperties, RankType
<1>4. ASSUME NEW i \in Answers(o), p[i].kind = "ok"
      PROVE  HeardBefore(w[Rank(p, i)], p, i)
  <2>1. HeardBefore(w[Rank(o, i)], o, i)
    BY <1>2, <1>3, <1>4 DEF Echoed
  <2> QED
    BY <1>1, <1>3, <2>1, HeardLonger
<1>5. ASSUME NEW x, HeardBefore(x, o, Len(o) + 1)
      PROVE  HeardBefore(x, p, Len(p) + 1)
  <2>1. Len(o) + 1 \in Nat /\ Len(p) + 1 \in Nat /\ Len(o) + 1 <= Len(p) + 1
    BY <1>2, <1>3
  <2> QED
    BY <1>5, <2>1, HeardLonger
<1> HIDE DEF p
<1>6. Cardinality(Answers(p)) = Cardinality(Answers(o))
  BY <1>1, <1>3
<1>7. Answers(p) = Answers(o)
  BY <1>1
<1> QED
  BY <1>4, <1>5, <1>6, <1>7 DEF Echoed, p

(* The hub writes the echo of the call under way.                          *)
LEMMA EchoedEcho ==
  ASSUME NEW w, NEW o \in Seq(Message), NEW k, NEW c, Echoed(w, o, k, c),
         NEW m \in Message, m.kind \in Events, NEW l,
         m.id = w[Cardinality(Answers(o)) + 1].id
  PROVE  Echoed(w, Append(o, m), l, c)
<1> DEFINE p == Append(o, m)
<1>1. Echoed(w, p, k, c)
  BY EchoedEvent
<1>2. Len(p) = Len(o) + 1 /\ p[Len(o) + 1] = m /\ DOMAIN p = 1 .. Len(o) + 1 /\ Len(o) \in Nat
  BY AppendProperties, LenProperties
<1>3. Cardinality(Answers(p)) = Cardinality(Answers(o)) + 0 /\ Cardinality(Answers(o)) \in Nat
  BY RankAppend, RankType, LenProperties
<1> HIDE DEF p
<1>4. Len(o) + 1 \in DOMAIN p /\ Len(o) + 1 < Len(p) + 1
  BY <1>2
<1>5. HeardBefore(w[Cardinality(Answers(p)) + 1], p, Len(p) + 1)
  BY <1>2, <1>3, <1>4 DEF HeardBefore
<1> QED
  BY <1>1, <1>5 DEF Echoed, p

(* The hub answers the call under way.                                     *)
LEMMA EchoedAnswer ==
  ASSUME NEW w, NEW o \in Seq(Message), NEW k, NEW c, Echoed(w, o, k, c),
         NEW m \in Message, m.kind \notin Events,
         m.kind = "ok" => HeardBefore(w[Cardinality(Answers(o)) + 1], o, Len(o) + 1)
  PROVE  Echoed(w, Append(o, m), NoCall, c)
<1> DEFINE p == Append(o, m)
<1>1. /\ Answers(p) = Answers(o) \cup {Len(o) + 1}
      /\ \A i \in 1 .. Len(o) : Rank(p, i) = Rank(o, i)
      /\ Cardinality(Answers(p)) = Cardinality(Answers(o)) + 1
  BY RankAppend
<1>2. /\ Len(p) = Len(o) + 1 /\ p[Len(o) + 1] = m /\ p \in Seq(Message)
      /\ \A i \in 1 .. Len(o) : p[i] = o[i]
  BY AppendProperties
<1>3. Len(o) \in Nat /\ \A i \in Answers(o) : i \in 1 .. Len(o)
  BY LenProperties, RankType
<1>4. ASSUME NEW i \in Answers(o), p[i].kind = "ok"
      PROVE  HeardBefore(w[Rank(p, i)], p, i)
  <2>1. HeardBefore(w[Rank(o, i)], o, i)
    BY <1>2, <1>3, <1>4 DEF Echoed
  <2> QED
    BY <1>1, <1>3, <2>1, HeardLonger
<1>5. ASSUME m.kind = "ok"
      PROVE  HeardBefore(w[Rank(p, Len(o) + 1)], p, Len(o) + 1)
  <2>1. Rank(p, Len(o) + 1) = Cardinality(Answers(o)) + 1
    BY <1>1, <1>2, RankType
  <2>2. Len(o) + 1 \in Nat /\ Len(o) + 1 <= Len(o) + 1
    BY <1>3
  <2>3. HeardBefore(w[Cardinality(Answers(o)) + 1], p, Len(o) + 1)
    BY <1>5, <2>2, HeardLonger
  <2> QED
    BY <2>1, <2>3
<1> HIDE DEF p
<1> QED
  BY <1>1, <1>2, <1>4, <1>5 DEF Echoed, p

(* What was heard before a place is before the place moved up, unless it   *)
(* is the message that has been handled.                                   *)
LEMMA HeardShorter ==
  ASSUME NEW x, NEW y, NEW o \in Seq(Message), o # <<>>, NEW j \in Nat,
         HeardBefore(x, o, j + 1), y.op = x.op, y.id = x.id, ~x.clean => ~y.clean,
         Head(o).kind \in Events /\ Head(o).id = x.id => ~y.clean
  PROVE  HeardBefore(y, Tail(o), j)
<1> DEFINE p == Tail(o)
<1>1. p \in Seq(Message) /\ Len(p) = Len(o) - 1 /\ \A i \in 1 .. Len(p) : p[i] = o[i + 1]
  BY HeadTailProperties
<1>2. /\ DOMAIN o = 1 .. Len(o) /\ Len(o) \in Nat /\ DOMAIN p = 1 .. Len(p) /\ Len(p) \in Nat
      /\ Head(o) = o[1]
  BY <1>1, LenProperties
<1> HIDE DEF p
<1>3. CASE \E l \in DOMAIN o : l < j + 1 /\ o[l].kind \in Events /\ o[l].id = x.id
  <2>1. PICK l \in DOMAIN o : l < j + 1 /\ o[l].kind \in Events /\ o[l].id = x.id
    BY <1>3
  <2>2. CASE l = 1
    BY <1>2, <2>1, <2>2 DEF HeardBefore
  <2>3. CASE l # 1
    <3>1. l - 1 \in DOMAIN p /\ l - 1 < j /\ p[l - 1] = o[(l - 1) + 1] /\ (l - 1) + 1 = l
      BY <1>1, <1>2, <2>1, <2>3
    <3> QED
      BY <2>1, <3>1 DEF HeardBefore, p
  <2> QED
    BY <2>2, <2>3
<1> QED
  BY <1>3 DEF HeardBefore

(* The tab handles an event.                                               *)
LEMMA EchoedHears ==
  ASSUME NEW w \in Seq(Commit), NEW v, NEW o \in Seq(Message), NEW k, NEW q \in Seq(Requests),
         Agree(w, o, k, q), NEW c, Echoed(w, o, k, c), o # <<>>, Head(o).kind \in Events,
         \A i \in 1 .. Len(w) : /\ v[i].op = w[i].op /\ v[i].id = w[i].id
                                /\ ~w[i].clean \/ w[i].id = Head(o).id => ~v[i].clean
  PROVE  Echoed(v, Tail(o), k, c)
<1> DEFINE p == Tail(o)
<1>1. /\ \A i \in Answers(p) : /\ i + 1 \in Answers(o) /\ p[i] = o[i + 1]
                               /\ Rank(o, i + 1) = Rank(p, i) + 0
      /\ Cardinality(Answers(o)) = Cardinality(Answers(p)) + 0
  BY RankTail
<1>2. p \in Seq(Message) /\ Len(p) = Len(o) - 1
  BY HeadTailProperties
<1>3. /\ Len(o) \in Nat /\ Len(p) \in Nat /\ Cardinality(Answers(p)) \in Nat
      /\ \A i \in Answers(p) : i \in Nat
  <2>1. Len(o) \in Nat /\ Len(p) \in Nat
    BY <1>2, LenProperties
  <2> HIDE DEF p
  <2>2. Answers(p) \subseteq 1 .. Len(p) /\ Cardinality(Answers(p)) \in Nat
    BY <1>2, <2>1, RankType
  <2> QED
    BY <2>1, <2>2
<1>4. \A i \in Answers(p) : Rank(p, i) \in 1 .. Cardinality(Answers(p))
  BY <1>2, RankOfAnswer
<1> HIDE DEF p
<1>5. \A i \in Answers(p) : Rank(o, i + 1) = Rank(p, i)
  BY <1>1, <1>3, <1>4
<1>6. Cardinality(Answers(o)) = Cardinality(Answers(p)) /\ Len(o) + 1 = (Len(p) + 1) + 1
  BY <1>1, <1>2, <1>3
<1>7. ASSUME NEW i \in 1 .. Len(w), NEW j \in Nat, HeardBefore(w[i], o, j + 1)
      PROVE  HeardBefore(v[i], p, j)
  BY <1>7, HeardShorter DEF p
<1>8. ASSUME NEW i \in Answers(p), p[i].kind = "ok"
      PROVE  HeardBefore(v[Rank(p, i)], p, i)
  <2>1. HeardBefore(w[Rank(o, i + 1)], o, i + 1)
    BY <1>1, <1>8 DEF Echoed
  <2>2. Rank(p, i) \in 1 .. Len(w)
    BY <1>1, <1>5, PlacesInRange
  <2> QED
    BY <1>3, <1>5, <1>7, <2>1, <2>2
<1>9. ASSUME k # NoCall, k.step = "fan", k.req.op \in ShapeOps, c \notin k.to
      PROVE  HeardBefore(v[Cardinality(Answers(p)) + 1], p, Len(p) + 1)
  <2>1. HeardBefore(w[Cardinality(Answers(p)) + 1], o, (Len(p) + 1) + 1)
    BY <1>6, <1>9 DEF Echoed
  <2>2. Cardinality(Answers(p)) + 1 \in 1 .. Len(w) /\ Len(p) + 1 \in Nat
    BY <1>3, <1>6, <1>9, PlacesInRange
  <2> QED
    BY <1>7, <2>1, <2>2
<1> QED
  BY <1>8, <1>9 DEF Echoed, p

(* The tab handles an answer.                                              *)
LEMMA EchoedSettles ==
  ASSUME NEW w \in Seq(Commit), NEW o \in Seq(Message), NEW k, NEW q \in Seq(Requests),
         Agree(w, o, k, q), NEW c, Echoed(w, o, k, c), o # <<>>, Head(o).kind \notin Events
  PROVE  Echoed(Tail(w), Tail(o), k, c)
<1> DEFINE p == Tail(o)
           v == Tail(w)
<1>1. /\ \A i \in Answers(p) : /\ i + 1 \in Answers(o) /\ p[i] = o[i + 1]
                               /\ Rank(o, i + 1) = Rank(p, i) + 1
      /\ Cardinality(Answers(o)) = Cardinality(Answers(p)) + 1
  BY RankTail
<1>2. p \in Seq(Message) /\ Len(p) = Len(o) - 1
  BY HeadTailProperties
<1>3. /\ Len(o) \in Nat /\ Len(p) \in Nat /\ Cardinality(Answers(p)) \in Nat
      /\ \A i \in Answers(p) : i \in Nat
  <2>1. Len(o) \in Nat /\ Len(p) \in Nat
    BY <1>2, LenProperties
  <2> HIDE DEF p
  <2>2. Answers(p) \subseteq 1 .. Len(p) /\ Cardinality(Answers(p)) \in Nat
    BY <1>2, <2>1, RankType
  <2> QED
    BY <2>1, <2>2
<1>4. \A i \in Answers(p) : Rank(p, i) \in Nat \ {0}
  <2>1. \A i \in Answers(p) : Rank(p, i) \in 1 .. Cardinality(Answers(p))
    BY <1>2, RankOfAnswer
  <2> QED
    BY <1>3, <2>1
<1>5. w # <<>> /\ Len(w) \in Nat /\ Len(v) = Len(w) - 1 /\ \A i \in 1 .. Len(v) : v[i] = w[i + 1]
  BY AgreeSettles, HeadTailProperties, LenProperties
<1> HIDE DEF p, v
<1>6. ASSUME NEW x, NEW j \in Nat, HeardBefore(x, o, j + 1)
      PROVE  HeardBefore(x, p, j)
  BY <1>6, HeardShorter DEF p
<1>7. \A i \in Nat \ {0} : i + 1 \in 1 .. Len(w) => v[i] = w[i + 1]
  BY <1>5
<1>8. ASSUME NEW i \in Answers(p), p[i].kind = "ok"
      PROVE  HeardBefore(v[Rank(p, i)], p, i)
  <2>1. HeardBefore(w[Rank(o, i + 1)], o, i + 1)
    BY <1>1, <1>8 DEF Echoed
  <2>2. Rank(p, i) + 1 \in 1 .. Len(w)
    BY <1>1, PlacesInRange
  <2>3. v[Rank(p, i)] = w[Rank(o, i + 1)]
    BY <1>1, <1>4, <1>7, <2>2
  <2> QED
    BY <1>3, <1>6, <2>1, <2>3
<1>9. ASSUME k # NoCall, k.step = "fan", k.req.op \in ShapeOps, c \notin k.to
      PROVE  HeardBefore(v[Cardinality(Answers(p)) + 1], p, Len(p) + 1)
  <2> DEFINE a == Cardinality(Answers(p)) + 1
  <2>1. HeardBefore(w[a + 1], o, Len(o) + 1)
    BY <1>1, <1>9 DEF Echoed
  <2>2. a + 1 \in 1 .. Len(w)
    BY <1>1, <1>9, PlacesInRange
  <2>3. a \in Nat \ {0} /\ Len(p) + 1 \in Nat /\ Len(o) + 1 = (Len(p) + 1) + 1
    BY <1>2, <1>3
  <2> HIDE DEF a
  <2>4. v[a] = w[a + 1]
    BY <1>7, <2>2, <2>3
  <2>5. HeardBefore(v[a], p, Len(p) + 1)
    BY <1>6, <2>1, <2>3, <2>4
  <2> QED
    BY <2>5 DEF a
<1> QED
  BY <1>8, <1>9 DEF Echoed, p, v

-----------------------------------------------------------------------------
(* What a step of the hub does to a connection.                            *)

(* Messages that name a shape when they report a failure.                  *)
Told == {m \in Message : m.kind = "error" => m.id \in Shapes}

(* A connection that has not entered the group is about to.                *)
Joining(c) ==
  IF call[c] = NoCall
    THEN sent[c] # <<>> /\ Head(sent[c]).op = "join"
    ELSE call[c].req.op = "join" /\ call[c].step = "check"

(* The five things that may happen to an open connection d in a step of    *)
(* the hub: nothing; its own call goes on; it is sent somebody else's      *)
(* event; it is sent the echo of its own call; or the answer.              *)
Spared(d) ==
  call'[d] = call[d] /\ outbox'[d] = outbox[d] /\ (d \in group => d \in group')

Moves(d) ==
  /\ call[d] # NoCall /\ call'[d] # NoCall /\ call'[d].req = call[d].req
  /\ outbox'[d] = outbox[d] /\ d \in group'
  /\ \/ call'[d].step # "fan" \/ call'[d].req.op \notin ShapeOps \/ d \in call'[d].to
     \/ call[d].step = "fan" /\ call[d].req.op \in ShapeOps /\ d \notin call[d].to

Hears(d) ==
  /\ call'[d] = call[d] /\ group' = group
  /\ \E m \in Message : m.kind \in Events /\ outbox'[d] = Append(outbox[d], m)

Echoes(d) ==
  /\ call[d] # NoCall /\ call'[d] # NoCall /\ call'[d].req = call[d].req /\ group' = group
  /\ d \in group
  /\ \E m \in Message : /\ m.kind \in Events /\ m.id = call[d].req.id
                        /\ outbox'[d] = Append(outbox[d], m)

IsAnswered(d) ==
  /\ call[d] # NoCall /\ call'[d] = NoCall /\ group' = group /\ d \in group
  /\ \E m \in Told : /\ m.kind \in {"ok", "error"} /\ m.id = call[d].req.id
                     /\ m.kind = "ok" => call[d].step = "fan" /\ call[d].to = {}
                     /\ outbox'[d] = Append(outbox[d], m)

(* The event of a call, and its answer, are messages.                      *)
LEMMA EventIsMessage ==
  ASSUME TypeOK, CallsHoldSoundRows, NEW c \in Conns, Busy(c, {"fan"}, ShapeOps)
  PROVE  Event(c) \in Message /\ Event(c).kind \in Events /\ Event(c).id = call[c].req.id
<1> USE DEF ShapeOps, GroupOps
<1>1. call[c] \in Call /\ call[c].step = "fan" /\ call[c].req.op \in ShapeOps
  BY BusyType
<1>2. call[c].req.id \in Shapes /\ call[c].row \in Row
  BY <1>1, CallType, RequestType, HubAssumption DEF CallsHoldSoundRows, SoundCall
<1> QED
  BY <1>1, <1>2 DEF Event, EventKind, Message, Events

LEMMA AnswerIsTold ==
  ASSUME TypeOK, NEW c \in Conns, call[c] # NoCall, NEW kind \in {"ok", "error"},
         kind = "error" => call[c].req.op \in ShapeOps
  PROVE  /\ Answer(c, kind) \in Told /\ Answer(c, kind).kind = kind
         /\ Answer(c, kind).id = call[c].req.id
<1>1. call[c] \in Call
  BY DEF TypeOK
<1>2. /\ call[c].req.id \in Shapes \cup {Absent}
      /\ call[c].req.op \in ShapeOps => call[c].req.id \in Shapes
  BY <1>1, CallType, RequestType
<1> QED
  BY <1>2 DEF Answer, Told, Message

(* Messages to one connection are not seen by the others, nor by one that  *)
(* is gone.                                                                *)
LEMMA PostReaches ==
  ASSUME TypeOK, NEW r \in Conns, NEW m, Post(r, m), NEW d \in Conns
  PROVE  outbox'[d] = IF d = r /\ status[r] = "open" THEN Append(outbox[d], m) ELSE outbox[d]
BY DEF Post, TypeOK

(* The calls of the others stay.                                           *)
LEMMA OneCall ==
  ASSUME TypeOK, NEW c \in Conns, NEW k, call' = [call EXCEPT ![c] = k], NEW d \in Conns
  PROVE  call'[d] = IF d = c THEN k ELSE call[d]
BY DEF TypeOK

LEMMA ServerTells ==
  ASSUME TypeOK, CallsHoldSoundRows, NEW c \in Conns, ServerStep(c),
         NEW d \in Conns, status[d] = "open",
         call[d] # NoCall => call[d].req.op # "leave",
         d \notin group /\ call[d] # NoCall => call[d].req.op = "join" /\ call[d].step = "check"
  PROVE  Spared(d) \/ Moves(d) \/ Hears(d) \/ Echoes(d) \/ IsAnswered(d)
<1> USE DEF GroupOps, ShapeOps
<1>1. CASE EnterGroup(c)
  <2>1. /\ call[c] \in Call /\ call[c].req.op = "join"
        /\ call' = [call EXCEPT ![c] = [call[c] EXCEPT !.step = "fan"]]
        /\ outbox' = outbox /\ group \subseteq group' /\ (c = d => d \in group')
    BY <1>1, BusyType DEF EnterGroup
  <2>2. [call[c] EXCEPT !.step = "fan"].req = call[c].req
    BY <2>1 DEF Call
  <2>3. [call[c] EXCEPT !.step = "fan"] # NoCall
    BY <2>1, CallType, HubAssumption
  <2>4. c = d => Moves(d)
    BY <2>1, <2>2, <2>3, OneCall, HubAssumption DEF Moves
  <2>5. c # d => Spared(d)
    BY <2>1, OneCall DEF Spared
  <2> QED
    BY <2>4, <2>5
<1>2. CASE ExitGroup(c)
  <2>1. /\ call[c] # NoCall /\ call[c].req.op = "leave"
        /\ call' = [call EXCEPT ![c] = [call[c] EXCEPT !.step = "fan"]]
        /\ outbox' = outbox /\ group' = group \ {c}
    BY <1>2 DEF ExitGroup, Busy
  <2> QED
    BY <2>1, OneCall DEF Spared
<1>3. CASE FindBoard(c) \/ FindShape(c)
  <2>1. PICK row \in Row : call' = [call EXCEPT ![c] = [call[c] EXCEPT !.step = "save", !.row = row]]
    <3>1. CASE FindBoard(c)
      <4>1. call[c] \in Call /\ call[c].req.op = "create"
        BY <3>1, BusyType DEF FindBoard
      <4>2. call[c].req.dto \in Row
        BY <4>1, CallType, RequestType
      <4> QED
        BY <3>1, <4>2 DEF FindBoard
    <3>2. CASE FindShape(c)
      <4>1. db[call[c].req.id] \in Row
        BY <3>2 DEF FindShape, Live, TypeOK
      <4> QED
        BY <3>2, <4>1 DEF FindShape
    <3> QED
      BY <1>3, <3>1, <3>2
  <2> DEFINE k == [call[c] EXCEPT !.step = "save", !.row = row]
  <2>2. call[c] \in Call /\ call[c] # NoCall /\ call[c].req.op \in ShapeOps
    BY <1>3, BusyType DEF FindBoard, FindShape, Busy
  <2>3. k # NoCall /\ k.req = call[c].req /\ k.step = "save"
    <3>1. k \in Call
      BY <2>2, CallType
    <3>2. k.req = call[c].req /\ k.step = "save"
      BY <2>2 DEF Call
    <3> HIDE DEF k
    <3> QED
      BY <3>1, <3>2, HubAssumption
  <2>4. outbox' = outbox /\ group' = group
    BY <1>3 DEF FindBoard, FindShape
  <2> HIDE DEF k
  <2>5. c = d => Moves(d)
    <3>1. call'[c] = k
      BY <2>1 DEF k, TypeOK
    <3> QED
      BY <2>2, <2>3, <2>4, <3>1 DEF Moves
  <2>6. c # d => Spared(d)
    BY <2>1, <2>4, OneCall DEF Spared
  <2> QED
    BY <2>5, <2>6
<1>4. CASE SaveCreate(c) \/ SaveUpdate(c) \/ SaveDelete(c)
  <2>1. call[c] \in Call /\ call[c] # NoCall /\ call[c].req.op \in ShapeOps
    BY <1>4, BusyType DEF SaveCreate, SaveUpdate, SaveDelete, Busy
  <2>2. PICK k : /\ call' = [call EXCEPT ![c] = k] /\ k # NoCall
                 /\ k.req = call[c].req /\ k.step = "cast"
    <3>1. CASE SaveCreate(c) \/ SaveDelete(c)
      <4> DEFINE k == [call[c] EXCEPT !.step = "cast"]
      <4>1. k \in Call /\ k.req = call[c].req /\ k.step = "cast"
        <5>1. k \in Call
          BY <2>1, CallType
        <5>2. k.req = call[c].req /\ k.step = "cast"
          BY <2>1 DEF Call
        <5> QED
          BY <5>1, <5>2
      <4>2. call' = [call EXCEPT ![c] = k]
        BY <3>1 DEF SaveCreate, SaveDelete
      <4> HIDE DEF k
      <4> QED
        BY <4>1, <4>2, HubAssumption
    <3>2. CASE SaveUpdate(c)
      <4> DEFINE new == CopyShape(call[c].req.dto, call[c].row)
                 k == [call[c] EXCEPT !.step = "cast", !.row = new]
      <4>1. call[c].req.op = "update" /\ call[c].step = "save"
        BY <3>2 DEF SaveUpdate, Busy
      <4>2. call[c].req.dto \in Row /\ call[c].row \in Row
        BY <2>1, <4>1, CallType, RequestType, HubAssumption DEF CallsHoldSoundRows, SoundCall
      <4>3. new \in Row
        BY <4>2, RowsAreBuilt
      <4>4. call' = [call EXCEPT ![c] = k]
        BY <3>2 DEF SaveUpdate
      <4> HIDE DEF new
      <4>5. k \in Call
        BY <2>1, <4>3, CallType
      <4>6. k.req = call[c].req /\ k.step = "cast"
        BY <2>1 DEF Call
      <4> HIDE DEF k
      <4> QED
        BY <4>4, <4>5, <4>6, HubAssumption
    <3> QED
      BY <1>4, <3>1, <3>2
  <2>3. outbox' = outbox /\ group' = group
    BY <1>4 DEF SaveCreate, SaveUpdate, SaveDelete
  <2>4. c = d => Moves(d)
    BY <2>1, <2>2, <2>3, OneCall DEF Moves
  <2>5. c # d => Spared(d)
    BY <2>2, <2>3, OneCall DEF Spared
  <2> QED
    BY <2>4, <2>5
<1>5. CASE Refuse(c)
  <2>1. call[c] # NoCall /\ call[c].req.op \in ShapeOps
    BY <1>5 DEF Refuse, Busy
  <2>2. /\ Post(c, Answer(c, "error")) /\ group' = group
        /\ call' = [call EXCEPT ![c] = NoCall]
    BY <1>5 DEF Refuse
  <2>3. /\ Answer(c, "error") \in Told /\ Answer(c, "error").kind = "error"
        /\ Answer(c, "error").id = call[c].req.id
    BY <2>1, AnswerIsTold
  <2>4. c = d => IsAnswered(d)
    <3> SUFFICES ASSUME c = d PROVE IsAnswered(d)
      OBVIOUS
    <3>1. call'[d] = NoCall /\ outbox'[d] = Append(outbox[d], Answer(d, "error"))
      BY <2>2 DEF TypeOK, Post
    <3> QED
      BY <2>1, <2>2, <2>3, <3>1 DEF IsAnswered
  <2>5. c # d => Spared(d)
    BY <2>2, OneCall, PostReaches DEF Spared
  <2> QED
    BY <2>4, <2>5
<1>6. CASE Cast(c)
  <2> DEFINE k == [call[c] EXCEPT !.step = "fan", !.to = group]
  <2>1. call[c] \in Call /\ call[c] # NoCall /\ call[c].req.op \in ShapeOps
    BY <1>6, BusyType DEF Cast, Busy
  <2>2. k # NoCall /\ k.req = call[c].req /\ k.to = group
    <3>1. k \in Call
      BY <2>1, CallType DEF TypeOK
    <3>2. k.req = call[c].req /\ k.to = group
      BY <2>1 DEF Call
    <3> HIDE DEF k
    <3> QED
      BY <3>1, <3>2, HubAssumption
  <2>3. call' = [call EXCEPT ![c] = k] /\ outbox' = outbox /\ group' = group
    BY <1>6 DEF Cast
  <2> HIDE DEF k
  <2>4. c = d => Moves(d)
    <3>1. call'[c] = k
      BY <2>3 DEF TypeOK
    <3> QED
      BY <2>1, <2>2, <2>3, <3>1 DEF Moves
  <2>5. c # d => Spared(d)
    BY <2>3, OneCall DEF Spared
  <2> QED
    BY <2>4, <2>5
<1>7. ASSUME NEW r \in Conns, Send(c, r)
      PROVE  Spared(d) \/ Moves(d) \/ Hears(d) \/ Echoes(d) \/ IsAnswered(d)
  <2> DEFINE k == [call[c] EXCEPT !.to = @ \ {r}]
  <2>1. /\ call[c] \in Call /\ call[c] # NoCall /\ call[c].req.op \in ShapeOps
        /\ call[c].step = "fan"
    BY <1>7, BusyType DEF Send, Busy
  <2>2. k \in Call /\ k.req = call[c].req /\ k.to = call[c].to \ {r}
    <3>1. call[c].to \ {r} \in SUBSET Conns
      BY <2>1 DEF Call
    <3>2. k \in Call
      BY <2>1, <3>1, CallType
    <3>3. k.req = call[c].req /\ k.to = call[c].to \ {r}
      BY <2>1 DEF Call
    <3> QED
      BY <3>2, <3>3
  <2>3. call' = [call EXCEPT ![c] = k] /\ group' = group /\ Post(r, Event(c))
    BY <1>7 DEF Send
  <2>4. Event(c) \in Message /\ Event(c).kind \in Events /\ Event(c).id = call[c].req.id
    BY <1>7, EventIsMessage DEF Send
  <2> HIDE DEF k
  <2>5. CASE d = r /\ d = c
    <3>1. call'[d] = k /\ outbox'[d] = Append(outbox[d], Event(c))
      BY <2>3, <2>5 DEF TypeOK, Post
    <3> QED
      BY <2>1, <2>2, <2>3, <2>4, <2>5, <3>1, HubAssumption DEF Echoes
  <2>6. CASE d = r /\ d # c
    <3>1. call'[d] = call[d] /\ outbox'[d] = Append(outbox[d], Event(c))
      BY <2>3, <2>6 DEF TypeOK, Post
    <3> QED
      BY <2>3, <2>4, <3>1 DEF Hears
  <2>7. CASE d # r /\ d = c
    <3>1. call'[d] = k /\ outbox'[d] = outbox[d]
      BY <2>3, <2>7 DEF TypeOK, Post
    <3> QED
      BY <2>1, <2>2, <2>3, <2>7, <3>1, HubAssumption DEF Moves
  <2>8. CASE d # r /\ d # c
    BY <2>3, <2>8, OneCall, PostReaches DEF Spared
  <2> QED
    BY <2>5, <2>6, <2>7, <2>8
<1>8. CASE Finish(c)
  <2>1. call[c] # NoCall /\ call[c].step = "fan" /\ call[c].to = {}
    BY <1>8 DEF Finish, Busy
  <2>2. /\ Post(c, Answer(c, "ok")) /\ group' = group
        /\ call' = [call EXCEPT ![c] = NoCall]
    BY <1>8 DEF Finish
  <2>3. /\ Answer(c, "ok") \in Told /\ Answer(c, "ok").kind = "ok"
        /\ Answer(c, "ok").id = call[c].req.id
    BY <2>1, AnswerIsTold
  <2>4. c = d => IsAnswered(d)
    <3> SUFFICES ASSUME c = d PROVE IsAnswered(d)
      OBVIOUS
    <3>1. call'[d] = NoCall /\ outbox'[d] = Append(outbox[d], Answer(d, "ok"))
      BY <2>2 DEF TypeOK, Post
    <3> QED
      BY <2>1, <2>2, <2>3, <3>1 DEF IsAnswered
  <2>5. c # d => Spared(d)
    BY <2>2, OneCall, PostReaches DEF Spared
  <2> QED
    BY <2>4, <2>5
<1> QED
  BY <1>1, <1>2, <1>3, <1>4, <1>5, <1>6, <1>7, <1>8 DEF ServerStep

(* A step of the hub opens and closes no connection, starts no call, and   *)
(* tells connections that are not open nothing.                            *)
LEMMA ServerStays ==
  ASSUME TypeOK, NEW c \in Conns, ServerStep(c), NEW d \in Conns, status[d] # "open"
  PROVE  outbox'[d] = outbox[d] /\ (call[d] = NoCall => call'[d] = NoCall)
<1> USE DEF GroupOps, ShapeOps
<1>1. call[d] = NoCall => call'[d] = NoCall
  <2>1. call[c] # NoCall /\ \E k : call' = [call EXCEPT ![c] = k]
    BY DEF ServerStep, EnterGroup, ExitGroup, FindBoard, FindShape, SaveCreate, SaveUpdate,
           SaveDelete, Refuse, Cast, Send, Finish, Busy
  <2> QED
    BY <2>1, OneCall
<1>2. outbox' = outbox \/ \E r \in Conns : \E m : Post(r, m)
  BY DEF ServerStep, EnterGroup, ExitGroup, FindBoard, FindShape, SaveCreate, SaveUpdate,
         SaveDelete, Refuse, Cast, Send, Finish
<1>3. outbox'[d] = outbox[d]
  BY <1>2, PostReaches
<1> QED
  BY <1>1, <1>3

(* What a step of the hub writes is in Told.                               *)
LEMMA ServerKeepsTold ==
  ASSUME TypeOK, CallsHoldSoundRows, OutboxIn(Told), NEW c \in Conns, ServerStep(c)
  PROVE  OutboxIn(Told)'
<1> USE DEF GroupOps, ShapeOps
<1>1. outbox = [d \in Conns |-> outbox[d]]
  BY OutboxType
<1>2. CASE Refuse(c)
  <2>1. call[c] # NoCall /\ call[c].req.op \in ShapeOps /\ Post(c, Answer(c, "error"))
    BY <1>2 DEF Refuse, Busy
  <2> QED
    BY <1>1, <2>1, AnswerIsTold, PostKeeps
<1>3. CASE Finish(c)
  <2>1. call[c] # NoCall /\ Post(c, Answer(c, "ok"))
    BY <1>3 DEF Finish, Busy
  <2> QED
    BY <1>1, <2>1, AnswerIsTold, PostKeeps
<1>4. ASSUME NEW r \in Conns, Send(c, r) PROVE OutboxIn(Told)'
  <2>1. Event(c) \in Message /\ Event(c).kind \in Events /\ Post(r, Event(c))
    BY <1>4, EventIsMessage DEF Send
  <2>2. Event(c) \in Told
    BY <2>1 DEF Told, Events
  <2> QED
    BY <1>1, <2>1, <2>2, PostKeeps
<1>5. ASSUME UNCHANGED outbox PROVE OutboxIn(Told)'
  BY <1>5 DEF OutboxIn
<1> QED
  BY <1>2, <1>3, <1>4, <1>5
     DEF ServerStep, EnterGroup, ExitGroup, FindBoard, FindShape, SaveCreate, SaveUpdate,
         SaveDelete, Cast

-----------------------------------------------------------------------------
(* The invariant of the tabs.                                              *)

TabTypes ==
  /\ shown \subseteq Tabs
  /\ link \in [Tabs -> Conns \cup {NoConn}]
  /\ view \in [Tabs -> [Shapes -> Row \cup {Absent}]]
  /\ sent \in [Conns -> Seq(Requests)]
  /\ wait \in [Tabs -> Seq(Commit)]
  /\ drag \in [Tabs -> Drag \cup {NoDrag}]
  /\ excused \subseteq Tabs \X Shapes

(* Nothing has happened on a connection before it is open.                 *)
NewSound ==
  \A c \in Conns : status[c] = "new" =>
    call[c] = NoCall /\ outbox[c] = <<>> /\ sent[c] = <<>>

(* Every connection is one tab's, and a tab without one waits for nothing. *)
LinksSound ==
  /\ \A t \in Tabs : \A u \in Tabs : Linked(t) /\ link[t] = link[u] => t = u
  /\ \A t \in Tabs : ~Linked(t) => wait[t] = <<>>

(* What holds of a tab and its connection.                                 *)
TabKept(t) ==
  Linked(t) =>
    LET c == link[t] IN
    /\ status[c] = "open"
    /\ Agree(wait[t], outbox[c], call[c], sent[c])
    /\ Echoed(wait[t], outbox[c], call[c], c)
    /\ c \notin group => Joining(c)

TabsKept == \A t \in Tabs : TabKept(t)

(* Only a drag takes its undo late.                                        *)
UndosSound ==
  \A t \in Tabs \ Draggers :
    drag[t] = NoDrag /\ \A i \in DOMAIN wait[t] : wait[t][i].undo = wait[t][i].before

TabsInductive ==
  TabTypes /\ NewSound /\ LinksSound /\ OutboxIn(Told) /\ TabsKept /\ UndosSound

SyncInductive == Inductive /\ TabsInductive

(* What a linked tab is linked to.                                         *)
LEMMA LinkType ==
  ASSUME TabTypes, NEW t \in Tabs, Linked(t)
  PROVE  link[t] \in Conns
BY SyncAssumption DEF TabTypes, Linked

(* What a tab depends on besides its own connection.                       *)
LEMMA TabStays ==
  ASSUME NEW t, TabKept(t), UNCHANGED <<link[t], wait[t]>>,
         Linked(t) => /\ UNCHANGED <<status[link[t]], outbox[link[t]], call[link[t]],
                                     sent[link[t]]>>
                      /\ link[t] \in group => link[t] \in group'
  PROVE  TabKept(t)'
BY DEF TabKept, Linked, Joining

(* A commit carries what its shape is to be again.                         *)
LEMMA CommitType ==
  ASSUME NEW x \in Commit
  PROVE  /\ x.undo \in Row \cup {Absent} /\ x.clean \in BOOLEAN
         /\ x.op \in {"join"} \cup ShapeOps
         /\ [x EXCEPT !.clean = FALSE] \in Commit
BY DEF Commit, ShapeOps

-----------------------------------------------------------------------------
(* The steps of a tab.                                                     *)

(* Loading, pressing and moving the pointer, and a drag that sends         *)
(* nothing, leave the bookkeeping alone.                                   *)
LEMMA QuietStepKeeps ==
  ASSUME TabsInductive, TabTypes',
         UNCHANGED <<status, call, outbox, group, link, sent, wait>>,
         \A t \in Tabs \ Draggers : drag'[t] = NoDrag
  PROVE  TabsInductive'
<1> USE DEF TabsInductive
<1>1. NewSound' /\ LinksSound' /\ OutboxIn(Told)' /\ UndosSound'
  BY DEF NewSound, LinksSound, OutboxIn, UndosSound, Linked
<1>2. TabsKept'
  BY TabStays DEF TabsKept
<1> QED
  BY <1>1, <1>2

LEMMA LoadKeeps ==
  ASSUME Inductive, TabsInductive, NEW t \in Tabs, Load(t)
  PROVE  TabsInductive'
<1>1. TabTypes' /\ UNCHANGED <<hubVars, link, sent, wait, drag>>
  BY DEF Load, TabsInductive, TabTypes, Inductive, TypeOK
<1> QED
  BY <1>1, QuietStepKeeps DEF TabsInductive, UndosSound, hubVars

LEMMA PointerDownKeeps ==
  ASSUME TabsInductive, NEW t \in Tabs, NEW s \in Shapes, NEW mode \in {"move", "resize"},
         PointerDown(t, s, mode)
  PROVE  TabsInductive'
<1> DEFINE d == [id |-> s, mode |-> mode, orig |-> view[t][s], selected |-> TRUE,
                 clean |-> ~Pending(t, s)]
<1>1. view[t][s] \in Row
  BY DEF PointerDown, TabsInductive, TabTypes
<1>2. d \in Drag
  BY <1>1 DEF Drag
<1>3. drag' = [drag EXCEPT ![t] = d] /\ t \in Draggers
  BY DEF PointerDown
<1> HIDE DEF d
<1>4. TabTypes' /\ UNCHANGED <<hubVars, link, sent, wait>>
  <2>1. UNCHANGED <<hubVars, shown, link, view, sent, wait, excused>>
    BY DEF PointerDown
  <2> QED
    BY <1>2, <1>3, <2>1 DEF TabsInductive, TabTypes
<1>5. \A u \in Tabs \ Draggers : drag'[u] = NoDrag
  BY <1>3 DEF TabsInductive, TabTypes, UndosSound
<1> QED
  BY <1>4, <1>5, QuietStepKeeps DEF hubVars

LEMMA PointerMoveKeeps ==
  ASSUME TabsInductive, NEW t \in Tabs, NEW pos \in Positions, PointerMove(t, pos)
  PROVE  TabsInductive'
<1> DEFINE row == [drag[t].orig EXCEPT !.pos = pos]
<1>1. drag[t] \in Drag
  BY DEF PointerMove, TabsInductive, TabTypes
<1>2. drag[t].orig \in Row /\ drag[t].id \in Shapes
  BY <1>1 DEF Drag
<1>3. row \in Row
  BY <1>2 DEF Row
<1>4. view' = [view EXCEPT ![t][drag[t].id] = row]
  BY DEF PointerMove
<1> HIDE DEF row
<1>5. view' \in [Tabs -> [Shapes -> Row \cup {Absent}]]
  BY <1>2, <1>3, <1>4 DEF TabsInductive, TabTypes
<1>6. TabTypes' /\ UNCHANGED <<hubVars, link, sent, wait, drag>>
  BY <1>5 DEF PointerMove, TabsInductive, TabTypes
<1> QED
  BY <1>6, QuietStepKeeps DEF TabsInductive, UndosSound, hubVars

LEMMA VainDragKeeps ==
  ASSUME TabsInductive, NEW t \in Tabs, PointerUpInVain(t) \/ PointerCancel(t)
  PROVE  TabsInductive'
<1>1. drag[t].id \in Shapes
  BY DEF PointerUpInVain, PointerCancel, TabsInductive, TabTypes, Drag
<1>2. /\ drag' = [drag EXCEPT ![t] = NoDrag]
      /\ excused' = excused \cup {<<t, drag[t].id>>}
      /\ UNCHANGED <<hubVars, shown, link, view, sent, wait>>
  BY DEF PointerUpInVain, PointerCancel
<1>3. TabTypes'
  BY <1>1, <1>2 DEF TabsInductive, TabTypes
<1>4. \A u \in Tabs \ Draggers : drag'[u] = NoDrag
  BY <1>2 DEF TabsInductive, TabTypes, UndosSound
<1> QED
  BY <1>2, <1>3, <1>4, QuietStepKeeps DEF hubVars

(* A tab commits: the request and the commit go to the ends of their       *)
(* queues.                                                                 *)
LEMMA CommitKeeps ==
  ASSUME Inductive, TabsInductive, NEW t \in Tabs, Linked(t), NEW s \in Shapes,
         NEW req \in Requests, NEW x \in Commit, SentFor(req, x),
         t \notin Draggers => x.undo = x.before,
         sent' = [sent EXCEPT ![link[t]] = Append(@, req)],
         wait' = [wait EXCEPT ![t] = Append(@, x)],
         NEW local \in Row \cup {Absent}, view' = [view EXCEPT ![t][s] = local],
         drag' \in [Tabs -> Drag \cup {NoDrag}],
         \A u \in Tabs : drag[u] = NoDrag => drag'[u] = NoDrag,
         UNCHANGED <<hubVars, shown, link, excused>>
  PROVE  TabsInductive'
<1> USE DEF TabsInductive
<1> DEFINE c == link[t]
<1>1. c \in Conns /\ status[c] = "open"
  BY LinkType DEF TabsKept, TabKept
<1>2. /\ wait[t] \in Seq(Commit) /\ sent[c] \in Seq(Requests) /\ outbox[c] \in Seq(Message)
      /\ UNCHANGED <<status, call, outbox, group>>
  BY <1>1 DEF TabTypes, Inductive, TypeOK, hubVars
<1>3. /\ wait'[t] = Append(wait[t], x) /\ sent'[c] = Append(sent[c], req)
      /\ \A u \in Tabs : u # t => wait'[u] = wait[u]
      /\ \A d \in Conns : d # c => sent'[d] = sent[d]
  BY <1>1 DEF TabTypes
<1>4. Append(wait[t], x) \in Seq(Commit) /\ Append(sent[c], req) \in Seq(Requests)
  BY <1>2, AppendProperties
<1>5. TabTypes'
  <2>1. view' \in [Tabs -> [Shapes -> Row \cup {Absent}]]
    BY DEF TabTypes
  <2>2. wait' \in [Tabs -> Seq(Commit)] /\ sent' \in [Conns -> Seq(Requests)]
    BY <1>4 DEF TabTypes
  <2> QED
    BY <2>1, <2>2 DEF TabTypes
<1>6. NewSound'
  BY <1>1, <1>2, <1>3 DEF NewSound
<1>7. LinksSound'
  BY <1>3 DEF LinksSound, Linked
<1>8. OutboxIn(Told)'
  BY <1>2 DEF OutboxIn
<1>9. TabsKept'
  <2> SUFFICES ASSUME NEW u \in Tabs PROVE TabKept(u)'
    BY DEF TabsKept
  <2>1. CASE u = t
    <3>1. /\ Agree(wait[t], outbox[c], call[c], sent[c])
          /\ Echoed(wait[t], outbox[c], call[c], c)
          /\ c \notin group => Joining(c)
      BY DEF TabsKept, TabKept
    <3>2. Agree(wait'[t], outbox[c], call[c], sent'[c])
      <4>1. Agree(Append(wait[t], x), outbox[c], call[c], Append(sent[c], req))
        BY <1>2, <3>1, AgreeTransmit
      <4> QED
        BY <1>3, <4>1
    <3>3. Echoed(wait'[t], outbox[c], call[c], c)
      <4>1. Echoed(Append(wait[t], x), outbox[c], call[c], c)
        BY <1>2, <3>1, EchoedTransmit
      <4> QED
        BY <1>3, <4>1
    <3>4. sent[c] # <<>> => sent'[c] # <<>> /\ Head(sent'[c]) = Head(sent[c])
      <4>1. ASSUME sent[c] # <<>>
            PROVE  Append(sent[c], req)[1] = sent[c][1] /\ Append(sent[c], req) # <<>>
        <5>1. Len(sent[c]) \in Nat \ {0}
          BY <1>2, <4>1, EmptySeq
        <5>2. Append(sent[c], req) # <<>>
          <6>1. Len(Append(sent[c], req)) = Len(sent[c]) + 1
            BY <1>2, AppendProperties
          <6>2. Len(Append(sent[c], req)) # Len(<<>>)
            BY <5>1, <6>1, EmptySeq
          <6> QED
            BY <6>2, Zenon
        <5>3. \A i \in 1 .. Len(sent[c]) : Append(sent[c], req)[i] = sent[c][i]
          BY <1>2, AppendProperties
        <5> QED
          BY <5>1, <5>2, <5>3
      <4> QED
        BY <1>2, <1>3, <1>4, <4>1, HeadTailProperties
    <3>5. (c \notin group => Joining(c))'
      BY <1>2, <3>1, <3>4 DEF Joining
    <3> QED
      BY <1>1, <1>2, <2>1, <3>2, <3>3, <3>5 DEF TabKept
  <2>2. CASE u # t
    <3>1. Linked(u) => link[u] \in Conns /\ link[u] # c
      BY <2>2, LinkType DEF LinksSound
    <3>2. TabKept(u)
      BY DEF TabsKept
    <3> HIDE DEF c
    <3> QED
      BY <1>2, <1>3, <2>2, <3>1, <3>2, TabStays
  <2> QED
    BY <2>1, <2>2
<1>10. UndosSound'
  <2> SUFFICES ASSUME NEW u \in Tabs \ Draggers, NEW i \in DOMAIN wait'[u]
               PROVE  wait'[u][i].undo = wait'[u][i].before
    BY DEF UndosSound
  <2>1. CASE u = t
    <3>1. /\ DOMAIN wait'[t] = 1 .. Len(wait[t]) + 1 /\ DOMAIN wait[t] = 1 .. Len(wait[t])
          /\ Len(wait[t]) \in Nat /\ wait'[t][Len(wait[t]) + 1] = x
          /\ \A j \in 1 .. Len(wait[t]) : wait'[t][j] = wait[t][j]
      BY <1>2, <1>3, <1>4, AppendProperties, LenProperties
    <3>2. CASE i \in 1 .. Len(wait[t])
      BY <2>1, <3>1, <3>2 DEF UndosSound
    <3>3. CASE i = Len(wait[t]) + 1
      BY <2>1, <3>1, <3>3
    <3> QED
      BY <2>1, <3>1, <3>2, <3>3
  <2>2. CASE u # t
    BY <1>3, <2>2 DEF UndosSound
  <2> QED
    BY <2>1, <2>2
<1> QED
  BY <1>5, <1>6, <1>7, <1>8, <1>9, <1>10

LEMMA DrawKeeps ==
  ASSUME Inductive, TabsInductive, NEW t \in Tabs, NEW s \in Shapes, NEW dto \in Drafts,
         Draw(t, s, dto)
  PROVE  TabsInductive'
<1> DEFINE req == [op |-> "create", id |-> s, dto |-> dto]
           x == [op |-> "create", id |-> s, undo |-> Absent, before |-> Absent, clean |-> TRUE]
<1>1. req \in Requests /\ x \in Commit /\ SentFor(req, x) /\ x.undo = x.before
  BY DEF Requests, Commit, SentFor
<1>2. dto \in Row
  BY HubAssumption
<1>3. /\ Linked(t) /\ view' = [view EXCEPT ![t][s] = dto]
      /\ sent' = [sent EXCEPT ![link[t]] = Append(@, req)]
      /\ wait' = [wait EXCEPT ![t] = Append(@, x)]
      /\ UNCHANGED <<hubVars, shown, link, drag, excused>>
  BY DEF Draw, CommitShape, Transmit
<1> HIDE DEF req, x
<1> QED
  BY <1>1, <1>2, <1>3, CommitKeeps DEF TabsInductive, TabTypes

LEMMA EditFillKeeps ==
  ASSUME Inductive, TabsInductive, NEW t \in Tabs, NEW s \in Shapes, NEW fill \in Fills,
         EditFill(t, s, fill)
  PROVE  TabsInductive'
<1> DEFINE updated == [view[t][s] EXCEPT !.fill = fill]
           req == [op |-> "update", id |-> s, dto |-> ShapeUpdate(updated)]
           x == [op |-> "update", id |-> s, undo |-> view[t][s], before |-> view[t][s],
                 clean |-> Untouched(t, s)]
<1>1. view[t][s] \in Row
  BY DEF EditFill, TabsInductive, TabTypes
<1>2. updated \in Row
  BY <1>1 DEF Row
<1>3. ShapeUpdate(updated) \in Changes
  <2> HIDE DEF updated
  <2> QED
    BY <1>2, SyncAssumption DEF ShapeUpdate
<1>4. Untouched(t, s) \in BOOLEAN
  BY DEF Untouched, Pending, Dragging
<1>5. /\ Linked(t) /\ view' = [view EXCEPT ![t][s] = updated]
      /\ sent' = [sent EXCEPT ![link[t]] = Append(@, req)]
      /\ wait' = [wait EXCEPT ![t] = Append(@, x)]
      /\ UNCHANGED <<hubVars, shown, link, drag, excused>>
  BY DEF EditFill, CommitShape, Transmit
<1> HIDE DEF updated
<1>6. req \in Requests /\ x \in Commit /\ SentFor(req, x) /\ x.undo = x.before
  BY <1>1, <1>3, <1>4 DEF Requests, Commit, SentFor
<1> HIDE DEF req, x
<1> QED
  BY <1>2, <1>5, <1>6, CommitKeeps DEF TabsInductive, TabTypes

LEMMA RemoveShapeKeeps ==
  ASSUME Inductive, TabsInductive, NEW t \in Tabs, NEW s \in Shapes, RemoveShape(t, s)
  PROVE  TabsInductive'
<1> DEFINE req == [op |-> "delete", id |-> s, dto |-> Absent]
           x == [op |-> "delete", id |-> s, undo |-> view[t][s], before |-> view[t][s],
                 clean |-> Untouched(t, s)]
<1>1. view[t][s] \in Row
  BY DEF RemoveShape, TabsInductive, TabTypes
<1>2. Untouched(t, s) \in BOOLEAN
  BY DEF Untouched, Pending, Dragging
<1>3. req \in Requests /\ x \in Commit /\ SentFor(req, x) /\ x.undo = x.before
  BY <1>1, <1>2 DEF Requests, Commit, SentFor
<1>4. /\ Linked(t) /\ view' = [view EXCEPT ![t][s] = Absent]
      /\ sent' = [sent EXCEPT ![link[t]] = Append(@, req)]
      /\ wait' = [wait EXCEPT ![t] = Append(@, x)]
      /\ UNCHANGED <<hubVars, shown, link, excused>>
  BY DEF RemoveShape, CommitShape, Transmit
<1>5. /\ drag' \in [Tabs -> Drag \cup {NoDrag}]
      /\ \A u \in Tabs : drag[u] = NoDrag => drag'[u] = NoDrag
  <2>1. CASE Dragging(t, s)
    <3>1. drag[t] \in Drag /\ drag' = [drag EXCEPT ![t].selected = FALSE]
      BY <2>1 DEF RemoveShape, Dragging, TabsInductive, TabTypes
    <3>2. [drag[t] EXCEPT !.selected = FALSE] \in Drag
      BY <3>1 DEF Drag
    <3> QED
      BY <2>1, <3>1, <3>2 DEF TabsInductive, TabTypes, Dragging
  <2>2. CASE ~Dragging(t, s)
    BY <2>2 DEF RemoveShape, TabsInductive, TabTypes
  <2> QED
    BY <2>1, <2>2
<1> HIDE DEF req, x
<1> QED
  BY <1>3, <1>4, <1>5, CommitKeeps

(* The end of a drag is a commit of a tab that drags.                      *)
LEMMA PointerUpKeeps ==
  ASSUME Inductive, TabsInductive, NEW t \in Tabs, PointerUp(t)
  PROVE  TabsInductive'
<1> DEFINE s == drag[t].id
           row == view[t][s]
           req == [op |-> "update", id |-> s, dto |-> ShapeUpdate(row)]
           x == [op |-> "update", id |-> s, undo |-> row, before |-> drag[t].orig,
                 clean |-> drag[t].clean]
<1>1. drag[t] \in Drag /\ t \in Draggers
  BY DEF PointerUp, TabsInductive, TabTypes, UndosSound
<1>2. s \in Shapes /\ drag[t].orig \in Row /\ drag[t].clean \in BOOLEAN
  BY <1>1 DEF Drag
<1>3. row \in Row
  BY <1>2 DEF PointerUp, DragSends, TabsInductive, TabTypes
<1>4. ShapeUpdate(row) \in Changes
  <2> HIDE DEF row
  <2> QED
    BY <1>3, SyncAssumption DEF ShapeUpdate
<1>5. /\ Linked(t) /\ view' = [view EXCEPT ![t][s] = row]
      /\ sent' = [sent EXCEPT ![link[t]] = Append(@, req)]
      /\ wait' = [wait EXCEPT ![t] = Append(@, x)]
      /\ drag' = [drag EXCEPT ![t] = NoDrag]
      /\ UNCHANGED <<hubVars, shown, link, excused>>
  BY DEF PointerUp, CommitShape, Transmit
<1> HIDE DEF row, s
<1>6. req \in Requests /\ x \in Commit /\ SentFor(req, x)
  BY <1>2, <1>3, <1>4 DEF Requests, Commit, SentFor
<1>7. /\ drag' \in [Tabs -> Drag \cup {NoDrag}]
      /\ \A u \in Tabs : drag[u] = NoDrag => drag'[u] = NoDrag
  BY <1>5 DEF TabsInductive, TabTypes
<1> HIDE DEF req, x
<1> QED
  BY <1>1, <1>2, <1>3, <1>5, <1>6, <1>7, CommitKeeps

-----------------------------------------------------------------------------
(* Connections.                                                            *)

(* Before anything was sent there is nothing to agree on.                  *)
LEMMA NothingAgrees ==
  ASSUME NEW c
  PROVE  Agree(<<>>, <<>>, NoCall, <<>>) /\ Echoed(<<>>, <<>>, NoCall, c)
<1>1. Answers(<<>>) = {}
  BY DEF Answers
<1>2. Cardinality(Answers(<<>>)) = 0
  BY <1>1, FS_EmptySet
<1> QED
  BY <1>1, <1>2 DEF Agree, Echoed

LEMMA OpenKeeps ==
  ASSUME Inductive, TabsInductive, NEW t \in Tabs, NEW c \in Conns, Open(t, c)
  PROVE  TabsInductive'
<1> USE DEF TabsInductive
<1> DEFINE req == [op |-> "join", id |-> Absent, dto |-> Absent]
           x == [op |-> "join", id |-> Absent, undo |-> Absent, before |-> Absent,
                 clean |-> TRUE]
<1>1. req \in Requests /\ x \in Commit /\ SentFor(req, x) /\ x.undo = x.before
  BY DEF Requests, GroupOps, Commit, SentFor
<1>2. /\ ~Linked(t) /\ status[c] = "new" /\ status' = [status EXCEPT ![c] = "open"]
      /\ link' = [link EXCEPT ![t] = c]
      /\ sent' = [sent EXCEPT ![c] = Append(@, req)]
      /\ wait' = [wait EXCEPT ![t] = Append(@, x)]
      /\ UNCHANGED <<call, outbox, group, shown, view, drag, excused>>
  BY DEF Open, Connect, Transmit
<1> HIDE DEF req
<1> HIDE DEF x
<1>3. wait[t] = <<>> /\ call[c] = NoCall /\ outbox[c] = <<>> /\ sent[c] = <<>>
  BY <1>2 DEF LinksSound, NewSound
<1>4. \A u \in Tabs : Linked(u) => link[u] \in Conns /\ link[u] # c
  BY <1>2, LinkType DEF TabsKept, TabKept
<1>5. /\ status'[c] = "open" /\ link'[t] = c
      /\ wait'[t] = Append(<<>>, x) /\ sent'[c] = Append(<<>>, req)
      /\ \A u \in Tabs : u # t => wait'[u] = wait[u] /\ link'[u] = link[u]
      /\ \A d \in Conns : d # c => sent'[d] = sent[d] /\ status'[d] = status[d]
  BY <1>2, <1>3 DEF TabTypes, Inductive, TypeOK
<1>6. /\ Append(<<>>, x) \in Seq(Commit) /\ Append(<<>>, req) \in Seq(Requests)
      /\ Append(<<>>, req) # <<>> /\ Append(<<>>, req)[1] = req
      /\ Len(Append(<<>>, x)) = 1 /\ Append(<<>>, x)[1] = x
  BY <1>1, AppendProperties, EmptySeq
<1>7. TabTypes'
  BY <1>2, <1>3, <1>6 DEF TabTypes
<1>8. NewSound'
  BY <1>2, <1>5 DEF NewSound
<1>9. LinksSound'
  BY <1>4, <1>5, SyncAssumption DEF LinksSound, Linked
<1>10. OutboxIn(Told)'
  BY <1>2 DEF OutboxIn
<1>11. TabsKept'
  <2> SUFFICES ASSUME NEW u \in Tabs PROVE TabKept(u)'
    BY DEF TabsKept
  <2>1. CASE u = t
    <3>0. <<>> \in Seq(Commit) /\ <<>> \in Seq(Message) /\ <<>> \in Seq(Requests)
      BY EmptySeq
    <3>1. Agree(wait'[t], outbox'[c], call'[c], sent'[c])
      <4>1. Agree(Append(<<>>, x), <<>>, NoCall, Append(<<>>, req))
        BY <1>1, <3>0, NothingAgrees, AgreeTransmit
      <4> QED
        BY <1>2, <1>3, <1>5, <4>1
    <3>2. Echoed(wait'[t], outbox'[c], call'[c], c)
      <4>1. Echoed(Append(<<>>, x), <<>>, NoCall, c)
        BY <1>1, <3>0, NothingAgrees, EchoedTransmit
      <4> QED
        BY <1>2, <1>3, <1>5, <4>1
    <3>3. Joining(c)'
      <4>1. Head(Append(<<>>, req)) = req
        BY <1>6, HeadTailProperties
      <4> QED
        BY <1>2, <1>3, <1>5, <1>6, <4>1 DEF Joining, req
    <3> QED
      BY <1>5, <2>1, <3>1, <3>2, <3>3 DEF TabKept
  <2>2. CASE u # t
    <3>1. TabKept(u) /\ (Linked(u) => link[u] \in Conns /\ link[u] # c)
      BY <1>4 DEF TabsKept
    <3> QED
      BY <1>2, <1>5, <2>2, <3>1, TabStays
  <2> QED
    BY <2>1, <2>2
<1>12. UndosSound'
  <2> SUFFICES ASSUME NEW u \in Tabs \ Draggers, NEW i \in DOMAIN wait'[u]
               PROVE  wait'[u][i].undo = wait'[u][i].before
    BY <1>2 DEF UndosSound
  <2>1. CASE u = t
    <3>1. DOMAIN Append(<<>>, x) = 1 .. 1
      BY <1>6, LenProperties
    <3> QED
      BY <1>1, <1>5, <1>6, <2>1, <3>1
  <2>2. CASE u # t
    BY <1>5, <2>2 DEF UndosSound
  <2> QED
    BY <2>1, <2>2
<1> QED
  BY <1>7, <1>8, <1>9, <1>10, <1>11, <1>12

(* A set of places has a last.                                             *)
LEMMA LastOf ==
  ASSUME NEW n \in Nat, NEW S \in SUBSET (1 .. n), S # {}
  PROVE  Max(S) \in S
<1> DEFINE T == {n - i : i \in S}
<1>1. \A i \in S : i \in Nat /\ n - i \in Nat
  OBVIOUS
<1>2. T \in SUBSET Nat /\ T # {}
  BY <1>1
<1>3. PICK x \in T : \A y \in T : x <= y
  <2> HIDE DEF T
  <2> QED
    BY <1>2, FirstOf
<1>4. PICK i \in S : x = n - i
  OBVIOUS
<1>5. \A j \in S : n - i <= n - j
  BY <1>3, <1>4
<1>6. \A j \in S : i >= j
  BY <1>1, <1>5
<1> QED
  BY <1>6 DEF Max

(* The connection of a tab is lost: whatever it waited for is undone.      *)
LEMMA LinkLostKeeps ==
  ASSUME Inductive, TabsInductive, NEW t \in Tabs, LinkLost(t)
  PROVE  TabsInductive'
<1> USE DEF TabsInductive
<1> DEFINE c == link[t]
           restored == [s \in Shapes |-> IF CommitsOn(t, s) = {} THEN view[t][s]
                                         ELSE wait[t][Max(CommitsOn(t, s))].undo]
<1>1. c \in Conns /\ Linked(t)
  BY LinkType DEF LinkLost
<1>2. /\ status[c] = "open" /\ status' = [status EXCEPT ![c] = "closed"]
      /\ group' = group \ {c} /\ outbox' = [outbox EXCEPT ![c] = <<>>] /\ call' = call
  BY DEF LinkLost, Drop
<1>3. /\ link' = [link EXCEPT ![t] = NoConn]
      /\ sent' = [sent EXCEPT ![c] = <<>>]
      /\ wait' = [wait EXCEPT ![t] = <<>>]
      /\ view' = [view EXCEPT ![t] = restored]
      /\ excused' = excused \cup ({t} \X Stranded(t))
      /\ shown' = shown
  BY DEF LinkLost
<1>4. \/ drag' = drag
      \/ drag[t] # NoDrag /\ drag' = [drag EXCEPT ![t].selected = FALSE]
  BY DEF LinkLost
<1>5. restored \in [Shapes -> Row \cup {Absent}]
  <2> SUFFICES ASSUME NEW s \in Shapes, CommitsOn(t, s) # {}
               PROVE  wait[t][Max(CommitsOn(t, s))].undo \in Row \cup {Absent}
    BY DEF TabTypes
  <2>1. wait[t] \in Seq(Commit) /\ DOMAIN wait[t] = 1 .. Len(wait[t]) /\ Len(wait[t]) \in Nat
    BY LenProperties DEF TabTypes
  <2>2. CommitsOn(t, s) \in SUBSET (1 .. Len(wait[t]))
    BY <2>1 DEF CommitsOn
  <2>3. Max(CommitsOn(t, s)) \in 1 .. Len(wait[t])
    BY <2>1, <2>2, LastOf
  <2> QED
    BY <2>1, <2>3, ElementOfSeq, CommitType
<1> HIDE DEF restored
<1>6. /\ drag' \in [Tabs -> Drag \cup {NoDrag}]
      /\ \A u \in Tabs : drag[u] = NoDrag => drag'[u] = NoDrag
  <2>1. CASE drag[t] # NoDrag /\ drag' = [drag EXCEPT ![t].selected = FALSE]
    <3>1. [drag[t] EXCEPT !.selected = FALSE] \in Drag
      BY <2>1 DEF TabTypes, Drag
    <3> QED
      BY <2>1, <3>1 DEF TabTypes
  <2>2. CASE drag' = drag
    BY <2>2 DEF TabTypes
  <2> QED
    BY <1>4, <2>1, <2>2
<1>7. /\ link'[t] = NoConn /\ wait'[t] = <<>> /\ status'[c] = "closed"
      /\ \A u \in Tabs : u # t => wait'[u] = wait[u] /\ link'[u] = link[u]
      /\ \A d \in Conns : d # c => /\ sent'[d] = sent[d] /\ status'[d] = status[d]
                                   /\ outbox'[d] = outbox[d] /\ call'[d] = call[d]
  BY <1>1, <1>2, <1>3 DEF TabTypes, Inductive, TypeOK
<1>8. TabTypes'
  <2>1. <<>> \in Seq(Commit) /\ <<>> \in Seq(Requests) /\ Stranded(t) \subseteq Shapes
    BY EmptySeq DEF Stranded
  <2> QED
    BY <1>1, <1>3, <1>5, <1>6, <2>1 DEF TabTypes
<1>9. NewSound'
  BY <1>7 DEF NewSound
<1>10. LinksSound'
  BY <1>7 DEF LinksSound, Linked
<1>11. OutboxIn(Told)'
  BY <1>2, EmptySeq DEF OutboxIn, Inductive, TypeOK
<1>12. TabsKept'
  <2> SUFFICES ASSUME NEW u \in Tabs PROVE TabKept(u)'
    BY DEF TabsKept
  <2>1. CASE u = t
    BY <1>7, <2>1 DEF TabKept, Linked
  <2>2. CASE u # t
    <3>1. TabKept(u) /\ (Linked(u) => link[u] \in Conns /\ link[u] # c)
      BY <1>1, <2>2, LinkType DEF TabsKept, LinksSound
    <3> HIDE DEF c
    <3> QED
      BY <1>2, <1>7, <2>2, <3>1, TabStays
  <2> QED
    BY <2>1, <2>2
<1>13. UndosSound'
  BY <1>6, <1>7 DEF UndosSound
<1> QED
  BY <1>8, <1>9, <1>10, <1>11, <1>12, <1>13

-----------------------------------------------------------------------------
(* Messages.                                                               *)

(* A tab handles a message; its commits are v afterwards.                  *)
LEMMA MessageKeeps ==
  ASSUME Inductive, TabsInductive, TabTypes', NEW t \in Tabs, Linked(t),
         outbox[link[t]] # <<>>,
         outbox' = [outbox EXCEPT ![link[t]] = Tail(@)],
         UNCHANGED <<status, group, call, link, sent>>,
         NEW v \in Seq(Commit), wait' = [wait EXCEPT ![t] = v],
         Agree(v, Tail(outbox[link[t]]), call[link[t]], sent[link[t]]),
         Echoed(v, Tail(outbox[link[t]]), call[link[t]], link[t]),
         t \notin Draggers => \A i \in DOMAIN v : v[i].undo = v[i].before,
         \A u \in Tabs : drag[u] = NoDrag => drag'[u] = NoDrag
  PROVE  TabsInductive'
<1> USE DEF TabsInductive
<1> DEFINE c == link[t]
<1>1. c \in Conns /\ status[c] = "open" /\ (c \notin group => Joining(c))
  BY LinkType DEF TabsKept, TabKept
<1>2. /\ wait'[t] = v /\ outbox'[c] = Tail(outbox[c])
      /\ \A u \in Tabs : u # t => wait'[u] = wait[u]
      /\ \A d \in Conns : d # c => outbox'[d] = outbox[d]
  BY <1>1 DEF TabTypes, Inductive, TypeOK
<1>3. NewSound'
  BY <1>1, <1>2 DEF NewSound
<1>4. LinksSound'
  BY <1>2 DEF LinksSound, Linked
<1>5. OutboxIn(Told)'
  BY <1>1, OutboxType, TailKeeps DEF Inductive
<1>6. TabsKept'
  <2> SUFFICES ASSUME NEW u \in Tabs PROVE TabKept(u)'
    BY DEF TabsKept
  <2>1. CASE u = t
    BY <1>1, <1>2, <2>1 DEF TabKept, Joining
  <2>2. CASE u # t
    <3>1. TabKept(u) /\ (Linked(u) => link[u] \in Conns /\ link[u] # c)
      BY <2>2, LinkType DEF TabsKept, LinksSound
    <3> HIDE DEF c
    <3> QED
      BY <1>2, <2>2, <3>1, TabStays
  <2> QED
    BY <2>1, <2>2
<1>7. UndosSound'
  <2> SUFFICES ASSUME NEW u \in Tabs \ Draggers, NEW i \in DOMAIN wait'[u]
               PROVE  wait'[u][i].undo = wait'[u][i].before
    BY DEF UndosSound
  <2>1. CASE u = t
    BY <1>2, <2>1
  <2>2. CASE u # t
    BY <1>2, <2>2 DEF UndosSound
  <2> QED
    BY <2>1, <2>2
<1> QED
  BY <1>3, <1>4, <1>5, <1>6, <1>7

(* What a tab knows of its connection when a message is there.             *)
LEMMA MessageType ==
  ASSUME Inductive, TabsInductive, NEW t \in Tabs, Linked(t), outbox[link[t]] # <<>>
  PROVE  /\ link[t] \in Conns /\ wait[t] \in Seq(Commit)
         /\ outbox[link[t]] \in Seq(Message) /\ sent[link[t]] \in Seq(Requests)
         /\ Head(outbox[link[t]]) \in Told
         /\ Agree(wait[t], outbox[link[t]], call[link[t]], sent[link[t]])
         /\ Echoed(wait[t], outbox[link[t]], call[link[t]], link[t])
<1>1. link[t] \in Conns
  BY LinkType DEF TabsInductive
<1>2. outbox[link[t]] \in Seq(Told)
  BY <1>1 DEF TabsInductive, OutboxIn
<1>3. Head(outbox[link[t]]) \in Told
  BY <1>2, HeadTailProperties
<1> QED
  BY <1>1, <1>3 DEF TabsInductive, TabTypes, TabsKept, TabKept, Inductive, TypeOK

(* A commit that something else has touched is not clean any more.         *)
LEMMA TouchedType ==
  ASSUME NEW x \in Commit
  PROVE  LET y == [x EXCEPT !.clean = FALSE] IN
         /\ y \in Commit /\ y.op = x.op /\ y.id = x.id /\ ~y.clean
         /\ y.undo = x.undo /\ y.before = x.before
BY DEF Commit

LEMMA EventKeeps ==
  ASSUME Inductive, TabsInductive, NEW t \in Tabs, Linked(t), Receive(link[t]),
         ApplyEvent(t, Head(outbox[link[t]])), UNCHANGED <<shown, link, sent>>
  PROVE  TabsInductive'
<1> USE DEF TabsInductive
<1> DEFINE c == link[t]
           m == Head(outbox[c])
           w == wait[t]
           v == [i \in DOMAIN w |-> IF w[i].id = m.id THEN [w[i] EXCEPT !.clean = FALSE]
                                    ELSE w[i]]
<1>1. /\ outbox[c] # <<>> /\ outbox' = [outbox EXCEPT ![c] = Tail(@)]
      /\ UNCHANGED <<status, group, call, link, sent>>
  BY DEF Receive
<1>2. /\ c \in Conns /\ w \in Seq(Commit) /\ outbox[c] \in Seq(Message)
      /\ sent[c] \in Seq(Requests) /\ m \in Told
      /\ Agree(w, outbox[c], call[c], sent[c]) /\ Echoed(w, outbox[c], call[c], c)
  BY <1>1, MessageType
<1>3. /\ m.kind \in Events /\ view' = [view EXCEPT ![t][m.id] = m.row]
      /\ wait' = [wait EXCEPT ![t] = v] /\ excused' = excused
      /\ drag' = IF Dragging(t, m.id)
                   THEN [drag EXCEPT ![t].clean = FALSE,
                                     ![t].selected = @ /\ m.kind # "deleted"]
                   ELSE drag
  BY DEF ApplyEvent
<1>4. m.id \in Shapes /\ m.row \in Row \cup {Absent}
  BY <1>2, <1>3 DEF Told, Message, Events
<1> HIDE DEF m
<1>5. \A i \in DOMAIN w :
        /\ v[i] \in Commit /\ v[i].op = w[i].op /\ v[i].id = w[i].id
        /\ ~w[i].clean \/ w[i].id = m.id => ~v[i].clean
        /\ v[i].undo = w[i].undo /\ v[i].before = w[i].before
  <2> SUFFICES ASSUME NEW i \in DOMAIN w
               PROVE  /\ v[i] \in Commit /\ v[i].op = w[i].op /\ v[i].id = w[i].id
                      /\ ~w[i].clean \/ w[i].id = m.id => ~v[i].clean
                      /\ v[i].undo = w[i].undo /\ v[i].before = w[i].before
    OBVIOUS
  <2>1. w[i] \in Commit
    BY <1>2, SeqElements
  <2>2. CASE w[i].id = m.id
    BY <2>1, <2>2, TouchedType
  <2>3. CASE w[i].id # m.id
    BY <2>1, <2>3
  <2> QED
    BY <2>2, <2>3
<1>6. /\ v \in Seq(Commit) /\ DOMAIN v = DOMAIN w /\ DOMAIN w = 1 .. Len(w)
      /\ Len(w) \in Nat
  <2>1. DOMAIN w = 1 .. Len(w) /\ Len(w) \in Nat
    BY <1>2, LenProperties
  <2>2. DOMAIN v = DOMAIN w /\ v = [i \in DOMAIN v |-> v[i]]
    OBVIOUS
  <2> HIDE DEF v
  <2>3. v \in [1 .. Len(w) -> Commit]
    BY <1>5, <2>1, <2>2
  <2> QED
    BY <2>1, <2>2, <2>3, SeqDef
<1> HIDE DEF v
<1>7. Len(v) = Len(w)
  <2>1. DOMAIN v = 1 .. Len(v) /\ Len(v) \in Nat
    BY <1>6, LenProperties
  <2> QED
    BY <1>6, <2>1
<1>8. Agree(v, Tail(outbox[c]), call[c], sent[c])
  <2>1. Agree(v, outbox[c], call[c], sent[c])
    BY <1>2, <1>5, <1>6, <1>7, AgreeIds
  <2> QED
    BY <1>1, <1>2, <1>3, <2>1, AgreeHears DEF m
<1>9. Echoed(v, Tail(outbox[c]), call[c], c)
  <2>1. \A i \in 1 .. Len(w) : /\ v[i].op = w[i].op /\ v[i].id = w[i].id
                               /\ ~w[i].clean \/ w[i].id = m.id => ~v[i].clean
    BY <1>5, <1>6
  <2> QED
    BY <1>1, <1>2, <1>3, <2>1, EchoedHears DEF m
<1>10. t \notin Draggers => \A i \in DOMAIN v : v[i].undo = v[i].before
  BY <1>5, <1>6 DEF UndosSound
<1>11. /\ drag' \in [Tabs -> Drag \cup {NoDrag}]
       /\ \A u \in Tabs : drag[u] = NoDrag => drag'[u] = NoDrag
  <2>1. CASE Dragging(t, m.id)
    <3>1. drag[t] \in Drag /\ drag[t] # NoDrag
      BY <2>1 DEF Dragging, TabTypes
    <3>2. PICK sel \in BOOLEAN :
            drag' = [drag EXCEPT ![t] = [drag[t] EXCEPT !.clean = FALSE, !.selected = sel]]
      <4>1. drag' = [drag EXCEPT ![t].clean = FALSE,
                                 ![t].selected = @ /\ m.kind # "deleted"]
        BY <1>3, <2>1
      <4> DEFINE sel == drag[t].selected /\ m.kind # "deleted"
      <4>2. drag' = [drag EXCEPT ![t] = [drag[t] EXCEPT !.clean = FALSE, !.selected = sel]]
        BY <3>1, <4>1 DEF TabTypes, Drag
      <4>3. sel \in BOOLEAN
        OBVIOUS
      <4> QED
        BY <4>2, <4>3
    <3>3. [drag[t] EXCEPT !.clean = FALSE, !.selected = sel] \in Drag
      BY <3>1 DEF Drag
    <3> QED
      BY <3>1, <3>2, <3>3 DEF TabTypes
  <2>2. CASE ~Dragging(t, m.id)
    BY <1>3, <2>2 DEF TabTypes
  <2> QED
    BY <2>1, <2>2
<1>12. TabTypes'
  BY <1>1, <1>3, <1>4, <1>6, <1>11 DEF TabTypes
<1> QED
  BY <1>1, <1>3, <1>6, <1>8, <1>9, <1>10, <1>11, <1>12, MessageKeeps

(* The oldest commit of a tab is settled: an answer has come for it.       *)
LEMMA AnswerKeeps ==
  ASSUME Inductive, TabsInductive, NEW t \in Tabs, Linked(t), Receive(link[t]),
         LET m == Head(outbox[link[t]]) IN CallSucceeds(t, m) \/ CallFails(t, m),
         UNCHANGED <<shown, link, sent>>
  PROVE  /\ TabsInductive'
         /\ Head(wait[t]).id = Head(outbox[link[t]]).id
         /\ wait[t] # <<>>
<1> USE DEF TabsInductive
<1> DEFINE c == link[t]
           m == Head(outbox[c])
           w == wait[t]
           x == Head(w)
<1>1. /\ outbox[c] # <<>> /\ outbox' = [outbox EXCEPT ![c] = Tail(@)]
      /\ UNCHANGED <<status, group, call, link, sent>>
  BY DEF Receive
<1>2. /\ c \in Conns /\ w \in Seq(Commit) /\ outbox[c] \in Seq(Message)
      /\ sent[c] \in Seq(Requests) /\ m \in Told
      /\ Agree(w, outbox[c], call[c], sent[c]) /\ Echoed(w, outbox[c], call[c], c)
  BY <1>1, MessageType
<1>3. CallSucceeds(t, m) \/ CallFails(t, m)
  OBVIOUS
<1>4. m.kind \notin Events /\ wait' = [wait EXCEPT ![t] = Tail(w)]
  BY <1>3 DEF CallSucceeds, CallFails, Events
<1>5. w # <<>> /\ x.id = m.id /\ Agree(Tail(w), Tail(outbox[c]), call[c], sent[c])
  BY <1>1, <1>2, <1>4, AgreeSettles
<1>6. Echoed(Tail(w), Tail(outbox[c]), call[c], c)
  BY <1>1, <1>2, <1>4, EchoedSettles
<1>7. /\ x \in Commit /\ Tail(w) \in Seq(Commit)
      /\ Len(Tail(w)) = Len(w) - 1 /\ \A i \in 1 .. Len(Tail(w)) : Tail(w)[i] = w[i + 1]
      /\ DOMAIN w = 1 .. Len(w) /\ DOMAIN Tail(w) = 1 .. Len(Tail(w))
      /\ Len(w) \in Nat
  <2>1. /\ x \in Commit /\ Tail(w) \in Seq(Commit)
        /\ Len(Tail(w)) = Len(w) - 1 /\ \A i \in 1 .. Len(Tail(w)) : Tail(w)[i] = w[i + 1]
    BY <1>2, <1>5, HeadTailProperties
  <2> QED
    BY <1>2, <2>1, LenProperties
<1>8. x.undo \in Row \cup {Absent}
  BY <1>7, CommitType
<1>9. m.kind = "error" => m.id \in Shapes
  BY <1>2 DEF Told
<1> HIDE DEF m, w, x
<1>10. t \notin Draggers => \A i \in DOMAIN Tail(w) : Tail(w)[i].undo = Tail(w)[i].before
  <2> SUFFICES ASSUME t \notin Draggers, NEW i \in DOMAIN Tail(w)
               PROVE  Tail(w)[i].undo = Tail(w)[i].before
    OBVIOUS
  <2>1. i + 1 \in DOMAIN w /\ Tail(w)[i] = w[i + 1]
    BY <1>7
  <2> QED
    BY <2>1 DEF UndosSound, w
<1>11. TabTypes' /\ \A u \in Tabs : drag[u] = NoDrag => drag'[u] = NoDrag
  <2>1. wait' \in [Tabs -> Seq(Commit)]
    BY <1>4, <1>7 DEF TabTypes
  <2>2. CASE CallSucceeds(t, m)
    BY <1>1, <2>1, <2>2 DEF CallSucceeds, TabTypes
  <2>3. CASE CallFails(t, m)
    <3>1. /\ m.kind = "error" /\ view' = [view EXCEPT ![t][x.id] = x.undo]
          /\ drag' = drag \/ (drag[t] # NoDrag /\ drag' = [drag EXCEPT ![t].selected = FALSE])
          /\ excused' = excused \/ excused' = excused \cup {<<t, x.id>>}
      BY <2>3 DEF CallFails, Dragging, x, w
    <3>2. x.id \in Shapes
      BY <1>5, <1>9, <3>1
    <3>3. view' \in [Tabs -> [Shapes -> Row \cup {Absent}]] /\ excused' \subseteq Tabs \X Shapes
      BY <1>8, <3>1, <3>2 DEF TabTypes
    <3>4. /\ drag' \in [Tabs -> Drag \cup {NoDrag}]
          /\ \A u \in Tabs : drag[u] = NoDrag => drag'[u] = NoDrag
      <4>1. CASE drag[t] # NoDrag /\ drag' = [drag EXCEPT ![t].selected = FALSE]
        <5>1. [drag[t] EXCEPT !.selected = FALSE] \in Drag
          BY <4>1 DEF TabTypes, Drag
        <5> QED
          BY <4>1, <5>1 DEF TabTypes
      <4>2. CASE drag' = drag
        BY <4>2 DEF TabTypes
      <4> QED
        BY <3>1, <4>1, <4>2
    <3> QED
      BY <1>1, <2>1, <3>3, <3>4 DEF TabTypes
  <2> QED
    BY <1>3, <2>2, <2>3
<1>12. TabsInductive'
  BY <1>1, <1>4, <1>5, <1>6, <1>7, <1>10, <1>11, MessageKeeps DEF w
<1> QED
  BY <1>5, <1>12 DEF w, x, m

LEMMA HandleKeeps ==
  ASSUME Inductive, TabsInductive, NEW t \in Tabs, Handle(t)
  PROVE  TabsInductive'
BY EventKeeps, AnswerKeeps DEF Handle

-----------------------------------------------------------------------------
(* The hub.                                                                *)

LEMMA DispatchKeeps ==
  ASSUME Inductive, TabsInductive, NEW c \in Conns, Dispatch(c)
  PROVE  TabsInductive'
<1> USE DEF TabsInductive
<1> DEFINE req == Head(sent[c])
           k == [step |-> "check", req |-> req, row |-> Absent, to |-> {}]
<1>1. /\ sent[c] # <<>> /\ sent' = [sent EXCEPT ![c] = Tail(@)]
      /\ status[c] = "open" /\ call[c] = NoCall /\ call' = [call EXCEPT ![c] = k]
      /\ UNCHANGED <<status, group, outbox, shown, link, view, wait, drag, excused>>
  BY DEF Dispatch, Begin
<1>2. sent[c] \in Seq(Requests) /\ Tail(sent[c]) \in Seq(Requests) /\ req \in Requests
  <2>1. sent[c] \in Seq(Requests)
    BY DEF TabTypes
  <2> QED
    BY <1>1, <2>1, HeadTailProperties
<1>3. k.req = req /\ k.step = "check" /\ k # NoCall
  <2>1. k \in Call
    BY <1>2 DEF Call
  <2> QED
    BY <2>1, HubAssumption
<1> HIDE DEF req, k
<1>4. /\ call'[c] = k /\ sent'[c] = Tail(sent[c])
      /\ \A d \in Conns : d # c => call'[d] = call[d] /\ sent'[d] = sent[d]
  BY <1>1 DEF TabTypes, Inductive, TypeOK
<1>5. TabTypes'
  BY <1>1, <1>2 DEF TabTypes
<1>6. NewSound'
  BY <1>1, <1>4 DEF NewSound
<1>7. LinksSound' /\ OutboxIn(Told)' /\ UndosSound'
  BY <1>1 DEF LinksSound, Linked, OutboxIn, UndosSound
<1>8. TabsKept'
  <2> SUFFICES ASSUME NEW u \in Tabs PROVE TabKept(u)'
    BY DEF TabsKept
  <2>1. TabKept(u)
    BY DEF TabsKept
  <2>2. CASE Linked(u) /\ link[u] = c
    <3>1. /\ Agree(wait[u], outbox[c], NoCall, sent[c]) /\ Echoed(wait[u], outbox[c], NoCall, c)
          /\ c \notin group => Joining(c)
      BY <1>1, <2>1, <2>2 DEF TabKept
    <3>2. wait[u] \in Seq(Commit) /\ outbox[c] \in Seq(Message)
      BY DEF TabTypes, Inductive, TypeOK
    <3>3. Agree(wait[u], outbox[c], k, Tail(sent[c]))
      BY <1>1, <1>2, <1>3, <3>1, <3>2, AgreeDispatch DEF req
    <3>4. Echoed(wait[u], outbox[c], k, c)
      BY <1>3, <3>1, EchoedRuns
    <3>5. c \notin group => req.op = "join"
      BY <1>1, <3>1 DEF Joining, req
    <3>6. (c \notin group => Joining(c))'
      BY <1>1, <1>3, <1>4, <3>5 DEF Joining
    <3> QED
      BY <1>1, <1>4, <2>2, <3>3, <3>4, <3>6 DEF TabKept
  <2>3. CASE ~(Linked(u) /\ link[u] = c)
    <3>1. Linked(u) => link[u] \in Conns /\ link[u] # c
      BY <2>3, LinkType
    <3> QED
      BY <1>1, <1>4, <2>1, <3>1, TabStays
  <2> QED
    BY <2>2, <2>3
<1> QED
  BY <1>5, <1>6, <1>7, <1>8

(* What becomes of the bookkeeping of a tab in a step of the hub.          *)
LEMMA ServerKeepsTab ==
  ASSUME Inductive, TabsInductive, NEW c \in Conns, ServerStep(c), NEW t \in Tabs, Linked(t),
         UNCHANGED <<link, sent, wait>>
  PROVE  TabKept(t)'
<1> USE DEF TabsInductive
<1> DEFINE d == link[t]
           w == wait[t]
           o == outbox[d]
           q == sent[d]
           n == Cardinality(Answers(o))
<1>1. d \in Conns /\ w \in Seq(Commit) /\ o \in Seq(Message) /\ q \in Seq(Requests)
  BY LinkType DEF TabTypes, Inductive, TypeOK
<1>2. /\ status[d] = "open" /\ Agree(w, o, call[d], q) /\ Echoed(w, o, call[d], d)
      /\ d \notin group => Joining(d)
  BY DEF TabsKept, TabKept
<1>3. status' = status
  BY DEF ServerStep, EnterGroup, ExitGroup, FindBoard, FindShape, SaveCreate, SaveUpdate,
         SaveDelete, Refuse, Cast, Send, Finish
<1>4. call[d] # NoCall => /\ n + 1 \in 1 .. Len(w) /\ SentFor(call[d].req, w[n + 1])
                          /\ w[n + 1] \in Commit /\ call[d].req.op # "leave"
  <2> SUFFICES ASSUME call[d] # NoCall
               PROVE  /\ n + 1 \in 1 .. Len(w) /\ SentFor(call[d].req, w[n + 1])
                      /\ w[n + 1] \in Commit /\ call[d].req.op # "leave"
    OBVIOUS
  <2>1. n + 1 \in 1 .. Len(w) /\ SentFor(call[d].req, w[n + 1])
    BY <1>1, <1>2, PlacesInRange
  <2>2. w[n + 1] \in Commit
    BY <1>1, <2>1, ElementOfSeq
  <2>3. w[n + 1].op \in {"join", "create", "update", "delete"}
    BY <2>2, CommitType DEF ShapeOps
  <2> QED
    BY <2>1, <2>2, <2>3 DEF SentFor
<1>5. d \notin group /\ call[d] # NoCall => call[d].req.op = "join" /\ call[d].step = "check"
  BY <1>2 DEF Joining
<1>6. Spared(d) \/ Moves(d) \/ Hears(d) \/ Echoes(d) \/ IsAnswered(d)
  BY <1>1, <1>2, <1>4, <1>5, ServerTells DEF Inductive
<1>7. link' = link /\ wait' = wait /\ sent' = sent /\ d' = d
  OBVIOUS
<1> HIDE DEF n, o, q, w, d
<1> SUFFICES /\ Agree(w, outbox'[d], call'[d], q) /\ Echoed(w, outbox'[d], call'[d], d)
             /\ (d \notin group => Joining(d))'
  BY <1>2, <1>3, <1>7 DEF TabKept, w, q, d
<1>8. CASE Spared(d)
  BY <1>2, <1>7, <1>8 DEF Spared, Joining, o
<1>9. CASE Moves(d)
  <2>1. Agree(w, o, call'[d], q)
    BY <1>2, <1>9, AgreeRuns DEF Moves
  <2>2. Echoed(w, o, call'[d], d)
    BY <1>2, <1>9, EchoedRuns DEF Moves
  <2> QED
    BY <1>7, <1>9, <2>1, <2>2 DEF Moves, o
<1>10. CASE Hears(d)
  <2>1. PICK m \in Message : m.kind \in Events /\ outbox'[d] = Append(o, m)
    BY <1>10 DEF Hears, o
  <2>2. Agree(w, Append(o, m), call[d], q) /\ Echoed(w, Append(o, m), call[d], d)
    BY <1>1, <1>2, <2>1, AgreeEvent, EchoedEvent
  <2> QED
    BY <1>2, <1>7, <1>10, <2>1, <2>2 DEF Hears, Joining
<1>11. CASE Echoes(d)
  <2>1. PICK m \in Message : /\ m.kind \in Events /\ m.id = call[d].req.id
                             /\ outbox'[d] = Append(o, m)
    BY <1>11 DEF Echoes, o
  <2>2. Agree(w, Append(o, m), call'[d], q)
    <3>1. Agree(w, Append(o, m), call[d], q)
      BY <1>1, <1>2, <2>1, AgreeEvent
    <3> QED
      BY <1>11, <3>1, AgreeRuns DEF Echoes
  <2>3. Echoed(w, Append(o, m), call'[d], d)
    <3>1. m.id = w[n + 1].id
      BY <1>4, <1>11, <2>1 DEF Echoes, SentFor
    <3> QED
      BY <1>1, <1>2, <2>1, <3>1, EchoedEcho DEF n
  <2> QED
    BY <1>7, <1>11, <2>1, <2>2, <2>3 DEF Echoes
<1>12. CASE IsAnswered(d)
  <2>1. PICK m \in Told : /\ m.kind \in {"ok", "error"} /\ m.id = call[d].req.id
                          /\ m.kind = "ok" => call[d].step = "fan" /\ call[d].to = {}
                          /\ outbox'[d] = Append(o, m)
    BY <1>12 DEF IsAnswered, o
  <2>2. m \in Message /\ m.kind \notin Events /\ call[d] # NoCall /\ call'[d] = NoCall
    BY <1>12, <2>1 DEF IsAnswered, Told, Events
  <2>3. Agree(w, Append(o, m), NoCall, q)
    BY <1>1, <1>2, <2>1, <2>2, AgreeAnswer
  <2>4. m.kind = "ok" => HeardBefore(w[n + 1], o, Len(o) + 1)
    <3> SUFFICES ASSUME m.kind = "ok" PROVE HeardBefore(w[n + 1], o, Len(o) + 1)
      OBVIOUS
    <3>1. CASE call[d].req.op \in ShapeOps
      BY <1>2, <2>1, <2>2, <3>1 DEF Echoed, n
    <3>2. CASE call[d].req.op \notin ShapeOps
      <4>1. w[n + 1].op = call[d].req.op /\ w[n + 1].op \in {"join"} \cup ShapeOps
        BY <1>4, <2>2, CommitType DEF SentFor
      <4> QED
        BY <3>2, <4>1 DEF HeardBefore
    <3> QED
      BY <3>1, <3>2
  <2>5. Echoed(w, Append(o, m), NoCall, d)
    BY <1>1, <1>2, <2>2, <2>4, EchoedAnswer DEF n
  <2> QED
    BY <1>7, <1>12, <2>1, <2>2, <2>3, <2>5 DEF IsAnswered
<1> QED
  BY <1>6, <1>8, <1>9, <1>10, <1>11, <1>12

LEMMA HubStepKeeps ==
  ASSUME Inductive, TabsInductive, NEW c \in Conns, HubStep(c)
  PROVE  TabsInductive'
<1> USE DEF TabsInductive
<1>1. ServerStep(c) /\ UNCHANGED <<shown, link, view, sent, wait, drag>>
  BY DEF HubStep, tabVars
<1>2. status' = status
  BY <1>1 DEF ServerStep, EnterGroup, ExitGroup, FindBoard, FindShape, SaveCreate, SaveUpdate,
              SaveDelete, Refuse, Cast, Send, Finish
<1>3. excused' \subseteq Tabs \X Shapes
  <2>1. ASSUME NEW steps, Busy(c, steps, ShapeOps) PROVE call[c].req.id \in Shapes
    <3>1. call[c] \in Call /\ call[c].req.op \in ShapeOps
      BY <2>1, BusyType DEF Inductive
    <3>2. call[c].req \in Requests
      BY <3>1 DEF Call
    <3> QED
      BY <3>1, <3>2, RequestType
  <2>2. Outsiders \subseteq Tabs
    BY DEF Outsiders, TabTypes
  <2>3. \/ excused' = excused
        \/ Busy(c, {"save"}, ShapeOps) /\ excused' = excused \cup (Tabs \X {call[c].req.id})
        \/ Busy(c, {"cast"}, ShapeOps) /\ excused' = excused \cup (Outsiders \X {call[c].req.id})
    BY DEF HubStep
  <2> QED
    BY <2>1, <2>2, <2>3 DEF TabTypes
<1>4. TabTypes'
  BY <1>1, <1>3 DEF TabTypes
<1>5. NewSound'
  BY <1>1, <1>2, ServerStays DEF NewSound, Inductive
<1>6. LinksSound' /\ UndosSound'
  BY <1>1 DEF LinksSound, Linked, UndosSound
<1>7. OutboxIn(Told)'
  BY <1>1, ServerKeepsTold DEF Inductive
<1>8. TabsKept'
  <2> SUFFICES ASSUME NEW u \in Tabs PROVE TabKept(u)'
    BY DEF TabsKept
  <2>1. CASE Linked(u)
    BY <1>1, <2>1, ServerKeepsTab
  <2>2. CASE ~Linked(u)
    BY <1>1, <2>2 DEF TabKept, Linked
  <2> QED
    BY <2>1, <2>2
<1> QED
  BY <1>4, <1>5, <1>6, <1>7, <1>8

(* Only calls of connections that are gone are given up.                   *)
LEMMA GiveUpKeeps ==
  ASSUME Inductive, TabsInductive, NEW c \in Conns, GiveUp(c)
  PROVE  TabsInductive'
<1> USE DEF TabsInductive
<1>1. /\ status[c] = "closed" /\ call' = [call EXCEPT ![c] = NoCall]
      /\ UNCHANGED <<status, group, outbox, shown, link, view, sent, wait, drag>>
  BY DEF GiveUp, Abandon, tabVars
<1>2. excused' \subseteq Tabs \X Shapes
  <2>1. CASE Busy(c, {"cast", "fan"}, ShapeOps)
    <3>1. call[c] \in Call /\ call[c].req.op \in ShapeOps
      BY <2>1, BusyType DEF Inductive
    <3>2. call[c].req \in Requests
      BY <3>1 DEF Call
    <3>3. call[c].req.id \in Shapes
      BY <3>1, <3>2, RequestType
    <3> QED
      BY <3>3 DEF GiveUp, TabTypes
  <2>2. CASE ~Busy(c, {"cast", "fan"}, ShapeOps)
    BY <2>2 DEF GiveUp, TabTypes
  <2> QED
    BY <2>1, <2>2
<1>3. TabTypes'
  BY <1>1, <1>2 DEF TabTypes
<1>4. \A d \in Conns : call'[d] = IF d = c THEN NoCall ELSE call[d]
  BY <1>1 DEF Inductive, TypeOK
<1>5. NewSound'
  BY <1>1, <1>4 DEF NewSound
<1>6. LinksSound' /\ UndosSound' /\ OutboxIn(Told)'
  BY <1>1 DEF LinksSound, Linked, UndosSound, OutboxIn
<1>7. TabsKept'
  <2> SUFFICES ASSUME NEW u \in Tabs PROVE TabKept(u)'
    BY DEF TabsKept
  <2>1. TabKept(u) /\ (Linked(u) => link[u] \in Conns /\ link[u] # c)
    BY <1>1, LinkType DEF TabsKept, TabKept
  <2> QED
    BY <1>1, <1>4, <2>1, TabStays
<1> QED
  BY <1>3, <1>5, <1>6, <1>7

LEMMA BoardDeletedKeeps ==
  ASSUME TabsInductive, BoardDeleted
  PROVE  TabsInductive'
<1>1. /\ UNCHANGED <<status, group, call, outbox, shown, link, view, sent, wait, drag>>
      /\ excused' = Tabs \X Shapes
  BY DEF BoardDeleted, DeleteBoard, tabVars
<1>2. TabTypes'
  BY <1>1 DEF TabsInductive, TabTypes
<1> QED
  BY <1>1, <1>2, QuietStepKeeps DEF TabsInductive, UndosSound

-----------------------------------------------------------------------------
(* The invariant.                                                          *)

LEMMA SyncInitInductive == SyncInit => SyncInductive
<1> SUFFICES ASSUME SyncInit PROVE SyncInductive
  OBVIOUS
<1>1. Inductive
  BY InitInductive DEF SyncInit
<1>2. /\ \A S : <<>> \in Seq(S)
      /\ DOMAIN <<>> = {}
  BY EmptySeq
<1>3. TabTypes
  BY <1>2 DEF SyncInit, TabTypes
<1>4. NewSound /\ OutboxIn(Told)
  BY <1>2 DEF SyncInit, Init, NewSound, OutboxIn
<1>5. LinksSound /\ TabsKept /\ UndosSound
  BY <1>2 DEF SyncInit, LinksSound, TabsKept, TabKept, Linked, UndosSound
<1> QED
  BY <1>1, <1>3, <1>4, <1>5 DEF SyncInductive, TabsInductive

(* Every step of the tabs and the hub is one of ShapeHub, or none.         *)
LEMMA HubStepsOnly ==
  ASSUME TabTypes, [SyncNext]_vars
  PROVE  [Next]_hubVars
<1>1. ASSUME NEW t \in Tabs,
             \/ Load(t)
             \/ \E s \in Shapes, dto \in Drafts : Draw(t, s, dto)
             \/ \E s \in Shapes, fill \in Fills : EditFill(t, s, fill)
             \/ \E s \in Shapes : RemoveShape(t, s)
             \/ \E s \in Shapes, mode \in {"move", "resize"} : PointerDown(t, s, mode)
             \/ \E pos \in Positions : PointerMove(t, pos)
             \/ PointerUp(t)
             \/ PointerUpInVain(t)
             \/ PointerCancel(t)
      PROVE  UNCHANGED hubVars
  BY <1>1 DEF Load, Draw, EditFill, RemoveShape, PointerDown, PointerMove, PointerUp,
              PointerUpInVain, PointerCancel
<1>2. ASSUME NEW t \in Tabs, NEW c \in Conns, Open(t, c) PROVE Next
  BY <1>2 DEF Open, Next
<1>3. ASSUME NEW t \in Tabs, LinkLost(t) PROVE Next
  <2>1. link[t] \in Conns /\ Drop(link[t])
    BY <1>3, LinkType DEF LinkLost
  <2> QED
    BY <2>1 DEF Next
<1>4. ASSUME NEW t \in Tabs, Handle(t) PROVE Next
  <2>1. link[t] \in Conns /\ Receive(link[t])
    BY <1>4, LinkType DEF Handle
  <2> QED
    BY <2>1 DEF Next
<1>5. ASSUME NEW c \in Conns, Dispatch(c) PROVE Next
  <2>1. sent[c] \in Seq(Requests) /\ sent[c] # <<>> /\ Begin(c, Head(sent[c]))
    BY <1>5 DEF Dispatch, TabTypes
  <2>2. Head(sent[c]) \in Requests
    BY <2>1, HeadTailProperties
  <2> QED
    BY <2>1, <2>2 DEF Next
<1>6. ASSUME NEW c \in Conns, HubStep(c) \/ GiveUp(c) PROVE Next
  BY <1>6 DEF HubStep, GiveUp, Next
<1>7. ASSUME BoardDeleted PROVE Next
  BY <1>7 DEF BoardDeleted, Next
<1>8. ASSUME UNCHANGED vars PROVE UNCHANGED hubVars
  BY <1>8 DEF vars
<1> QED
  BY <1>1, <1>2, <1>3, <1>4, <1>5, <1>6, <1>7, <1>8 DEF SyncNext

LEMMA SyncNextInductive ==
  SyncInductive /\ [SyncNext]_vars => SyncInductive' /\ [Next]_hubVars
<1> SUFFICES ASSUME SyncInductive, [SyncNext]_vars
             PROVE  SyncInductive' /\ [Next]_hubVars
  OBVIOUS
<1> USE DEF SyncInductive
<1>1. [Next]_hubVars
  BY HubStepsOnly DEF TabsInductive
<1>2. Inductive'
  BY <1>1, NextInductive
<1>3. ASSUME NEW t \in Tabs,
             \/ Load(t)
             \/ \E c \in Conns : Open(t, c)
             \/ LinkLost(t)
             \/ \E s \in Shapes, dto \in Drafts : Draw(t, s, dto)
             \/ \E s \in Shapes, fill \in Fills : EditFill(t, s, fill)
             \/ \E s \in Shapes : RemoveShape(t, s)
      PROVE  TabsInductive'
  BY <1>3, LoadKeeps, OpenKeeps, LinkLostKeeps, DrawKeeps, EditFillKeeps, RemoveShapeKeeps
<1>4. ASSUME NEW t \in Tabs,
             \/ \E s \in Shapes, mode \in {"move", "resize"} : PointerDown(t, s, mode)
             \/ \E pos \in Positions : PointerMove(t, pos)
             \/ PointerUp(t)
             \/ PointerUpInVain(t)
             \/ PointerCancel(t)
             \/ Handle(t)
      PROVE  TabsInductive'
  BY <1>4, PointerDownKeeps, PointerMoveKeeps, PointerUpKeeps, VainDragKeeps, HandleKeeps
<1>5. ASSUME NEW c \in Conns, Dispatch(c) \/ HubStep(c) \/ GiveUp(c)
      PROVE  TabsInductive'
  BY <1>5, DispatchKeeps, HubStepKeeps, GiveUpKeeps
<1>6. ASSUME BoardDeleted PROVE TabsInductive'
  BY <1>6, BoardDeletedKeeps
<1>7. ASSUME UNCHANGED vars PROVE TabsInductive'
  <2>1. /\ UNCHANGED <<status, call, outbox, group, shown, link, view, sent, wait, drag, excused>>
    BY <1>7 DEF vars, hubVars, tabVars
  <2>2. TabTypes'
    BY <2>1 DEF TabsInductive, TabTypes
  <2> QED
    BY <2>1, <2>2, QuietStepKeeps DEF TabsInductive, UndosSound
<1> QED
  BY <1>1, <1>2, <1>3, <1>4, <1>5, <1>6, <1>7 DEF SyncNext

-----------------------------------------------------------------------------
(* Theorems.                                                               *)

(* The invariant that the other theorems follow from: every tab knows      *)
(* which of its commits each answer on its connection is for, the echo of  *)
(* a commit is always ahead of its answer, and the undo of a commit is the *)
(* shape before it unless the commit ended a drag.                         *)
THEOREM SyncInductiveHolds == SyncSpec => []SyncInductive
BY SyncInitInductive, SyncNextInductive, PTL DEF SyncSpec

(* The state of the tabs, and that of the hub below them, stays what it    *)
(* should be: an answer that fails always finds a commit to undo, on a     *)
(* shape of the board.                                                     *)
THEOREM SyncTypeCorrect == SyncSpec => []SyncTypeOK
<1>1. SyncInductive => SyncTypeOK
  BY DEF SyncInductive, Inductive, TabsInductive, TabTypes, SyncTypeOK
<1> QED
  BY <1>1, SyncInductiveHolds, PTL

(* An answer of the hub settles the oldest commit of the tab.  That is     *)
(* always the commit the answer is for, because the hub answers the calls  *)
(* of a connection in the order in which they were sent.                   *)
THEOREM AnswersReachCommits == SyncSpec => []AnswersMatchCommits
<1>1. SyncInductive => AnswersMatchCommits
  BY AgreeStates DEF SyncInductive, TabsInductive, TabsKept, TabKept
<1> QED
  BY <1>1, SyncInductiveHolds, PTL

(* When a tab is told that its commit succeeded, it has already seen the   *)
(* hub's event on the shape, however many tabs edit it: the optimistic     *)
(* copy does not outlive the answer.                                       *)
THEOREM EchoesComeFirst == SyncSpec => []EchoPrecedesAnswer
<1>1. SyncInductive => EchoPrecedesAnswer
  <2> SUFFICES ASSUME SyncInductive, NEW t \in Tabs, Linked(t), outbox[link[t]] # <<>>,
                      Head(outbox[link[t]]).kind = "ok"
               PROVE  Head(wait[t]).op = "join" \/ ~Head(wait[t]).clean
    BY DEF EchoPrecedesAnswer
  <2> DEFINE o == outbox[link[t]]
             w == wait[t]
  <2>1. /\ w \in Seq(Commit) /\ o \in Seq(Message) /\ sent[link[t]] \in Seq(Requests)
        /\ Agree(w, o, call[link[t]], sent[link[t]])
        /\ Echoed(w, o, call[link[t]], link[t])
    BY MessageType DEF SyncInductive
  <2>2. Head(o).kind \notin Events
    BY DEF Events
  <2>3. 1 \in Answers(o) /\ Rank(o, 1) = 1 /\ w # <<>>
    BY <2>1, <2>2, RankTail, AgreeSettles
  <2>4. Head(o) = o[1] /\ Head(w) = w[1] /\ DOMAIN o = 1 .. Len(o)
    BY <2>1, LenProperties
  <2>5. HeardBefore(w[1], o, 1)
    BY <2>1, <2>3, <2>4 DEF Echoed
  <2>6. ~\E l \in DOMAIN o : l < 1
    BY <2>1, <2>4, LenProperties
  <2> HIDE DEF o, w
  <2>7. w[1].op = "join" \/ ~w[1].clean
    BY <2>5, <2>6 DEF HeardBefore
  <2> QED
    BY <2>4, <2>7 DEF w
<1> QED
  BY <1>1, SyncInductiveHolds, PTL

(* A message of a tab that stays connected goes away in no other step than *)
(* the one in which the tab handles it.                                    *)
LEMMA OnlyHandled ==
  ASSUME SyncInductive, [SyncNext]_vars, NEW t \in Tabs, Linked(t), link'[t] = link[t],
         outbox[link[t]] # <<>>, outbox'[link[t]] = Tail(outbox[link[t]])
  PROVE  Handle(t)
<1> USE DEF SyncInductive, TabsInductive
<1> DEFINE c == link[t]
<1>1. c \in Conns /\ outbox[c] \in Seq(Message)
  BY LinkType DEF Inductive, TypeOK
<1>2. outbox'[c] # outbox[c]
  <2>1. ASSUME NEW o \in Seq(Message), o # <<>> PROVE Tail(o) # o
    <3>1. Len(Tail(o)) = Len(o) - 1 /\ Len(o) \in Nat
      BY <2>1, HeadTailProperties, LenProperties
    <3>2. Len(o) - 1 # Len(o)
      BY <3>1
    <3> QED
      BY <3>1, <3>2, Zenon
  <2> QED
    BY <1>1, <2>1
<1>3. ASSUME NEW m PROVE outbox'[c] # Append(outbox[c], m)
  <2>1. outbox[c] \in Seq(Message \cup {m})
    BY <1>1, SeqMonotonic
  <2>2. Len(Append(outbox[c], m)) = Len(outbox[c]) + 1
    BY <2>1, AppendProperties
  <2>3. Len(Tail(outbox[c])) = Len(outbox[c]) - 1 /\ Len(outbox[c]) \in Nat
    BY <1>1, HeadTailProperties, LenProperties
  <2> QED
    BY <2>2, <2>3
<1> HIDE DEF c
<1>4. ASSUME NEW u \in Tabs, LinkLost(u) PROVE FALSE
  <2>1. /\ link[u] \in Conns /\ link' = [link EXCEPT ![u] = NoConn]
        /\ outbox' = [outbox EXCEPT ![link[u]] = <<>>]
    BY <1>4, LinkType DEF LinkLost, Drop
  <2>2. link[u] = c
    BY <1>1, <1>2, <2>1 DEF Inductive, TypeOK
  <2>3. u = t
    BY <2>2 DEF LinksSound, c
  <2> QED
    BY <2>1, <2>3 DEF TabTypes, Linked
<1>5. ASSUME NEW u \in Tabs, Handle(u) PROVE u = t
  <2>1. link[u] \in Conns /\ outbox' = [outbox EXCEPT ![link[u]] = Tail(@)]
    BY <1>5, LinkType DEF Handle, Receive
  <2>2. link[u] = c
    BY <1>1, <1>2, <2>1 DEF Inductive, TypeOK
  <2> QED
    BY <2>2 DEF LinksSound, c
<1>6. ASSUME NEW d \in Conns, HubStep(d) PROVE FALSE
  <2>1. outbox' = outbox \/ \E r \in Conns : \E m : Post(r, m)
    BY <1>6 DEF HubStep, ServerStep, EnterGroup, ExitGroup, FindBoard, FindShape, SaveCreate,
                SaveUpdate, SaveDelete, Refuse, Cast, Send, Finish
  <2>2. PICK r \in Conns : \E m : Post(r, m)
    BY <1>2, <2>1
  <2>3. PICK m : Post(r, m)
    BY <2>2
  <2>4. outbox'[c] = Append(outbox[c], m) \/ outbox'[c] = outbox[c]
    BY <1>1, <2>3, PostReaches DEF Inductive
  <2> QED
    BY <1>2, <1>3, <2>4
<1>7. outbox' # outbox
  BY <1>2
<1>8. ~UNCHANGED vars /\ ~UNCHANGED hubVars
  BY <1>7 DEF vars, hubVars
<1>9. \A u \in Tabs :
        /\ ~Load(u)
        /\ \A d \in Conns : ~Open(u, d)
        /\ \A s \in Shapes, dto \in Drafts : ~Draw(u, s, dto)
        /\ \A s \in Shapes, fill \in Fills : ~EditFill(u, s, fill)
        /\ \A s \in Shapes : ~RemoveShape(u, s)
  BY <1>7, <1>8 DEF Load, Open, Connect, Draw, EditFill, RemoveShape
<1>10. \A u \in Tabs :
         /\ \A s \in Shapes, mode \in {"move", "resize"} : ~PointerDown(u, s, mode)
         /\ \A pos \in Positions : ~PointerMove(u, pos)
         /\ ~PointerUp(u) /\ ~PointerUpInVain(u) /\ ~PointerCancel(u)
  BY <1>8 DEF PointerDown, PointerMove, PointerUp, PointerUpInVain, PointerCancel
<1>11. (\A d \in Conns : ~Dispatch(d) /\ ~GiveUp(d)) /\ ~BoardDeleted
  BY <1>7 DEF Dispatch, Begin, GiveUp, Abandon, BoardDeleted, DeleteBoard
<1>12. \E u \in Tabs : Handle(u)
  BY <1>4, <1>6, <1>8, <1>9, <1>10, <1>11 DEF SyncNext
<1> QED
  BY <1>5, <1>12

(* A change that the hub refuses is undone: a shape that nothing else has  *)
(* touched is again what it was before the change, in every tab that does  *)
(* not drag.                                                               *)
THEOREM FailuresAreUndone == SyncSpec => FailedChangesAreUndone
<1> DEFINE Undone(t) == LET commit == Head(wait[t]) IN view'[t][commit.id] = commit.before
           AllUndone == \A t \in Tabs \ Draggers :
                          FailureHandled(t) /\ Head(wait[t]).clean => Undone(t)
<1>1. SyncInductive /\ [SyncNext]_vars => [AllUndone]_vars
  <2> SUFFICES ASSUME SyncInductive, [SyncNext]_vars, NEW t \in Tabs \ Draggers,
                      FailureHandled(t)
               PROVE  Undone(t)
    OBVIOUS
  <2> DEFINE c == link[t]
             m == Head(outbox[c])
             x == Head(wait[t])
  <2>1. /\ Linked(t) /\ link'[t] = c /\ outbox[c] # <<>> /\ outbox'[c] = Tail(outbox[c])
        /\ m.kind = "error"
    BY DEF FailureHandled
  <2>2. Handle(t)
    BY <2>1, OnlyHandled
  <2>3. Receive(c) /\ CallFails(t, m) /\ UNCHANGED <<shown, link, sent>>
    BY <2>1, <2>2 DEF Handle, ApplyEvent, CallSucceeds, Events
  <2>4. x.id = m.id /\ wait[t] # <<>>
    BY <2>1, <2>3, AnswerKeeps DEF SyncInductive
  <2>5. m \in Told /\ wait[t] \in Seq(Commit)
    BY <2>1, MessageType DEF SyncInductive
  <2>6. x.id \in Shapes
    BY <2>1, <2>4, <2>5 DEF Told
  <2>7. x.undo = x.before
    <3>1. 1 \in DOMAIN wait[t] /\ x = wait[t][1]
      BY <2>4, <2>5, LenProperties, EmptySeq
    <3> QED
      BY <3>1 DEF SyncInductive, TabsInductive, UndosSound
  <2>8. view' = [view EXCEPT ![t][x.id] = x.undo]
    BY <2>3 DEF CallFails
  <2> HIDE DEF x
  <2>9. view'[t][x.id] = x.undo
    BY <2>6, <2>8 DEF SyncInductive, TabsInductive, TabTypes
  <2> QED
    BY <2>7, <2>9 DEF x
<1> HIDE DEF AllUndone
<1>2. SyncSpec => [][AllUndone]_vars
  BY <1>1, SyncInductiveHolds, PTL DEF SyncSpec
<1> QED
  BY <1>2 DEF AllUndone, FailedChangesAreUndone

-----------------------------------------------------------------------------
(* Convergence.  The events, and the failures, that the messages o tell of *)
(* shape s.                                                                *)
Tells(o, s) == {i \in DOMAIN o : o[i].kind \in Events /\ o[i].id = s}
Fails(o, s) == {i \in DOMAIN o : o[i].kind = "error" /\ o[i].id = s}

(* A message written.                                                      *)
LEMMA TellsAppend ==
  ASSUME NEW o \in Seq(Message), NEW m \in Message, NEW s
  PROVE  /\ Len(o) \in Nat /\ Tells(o, s) \subseteq 1 .. Len(o) /\ Fails(o, s) \subseteq 1 .. Len(o)
         /\ \A i \in 1 .. Len(o) : Append(o, m)[i] = o[i]
         /\ Append(o, m)[Len(o) + 1] = m
         /\ Tells(Append(o, m), s)
              = Tells(o, s) \cup IF m.kind \in Events /\ m.id = s THEN {Len(o) + 1} ELSE {}
         /\ Fails(Append(o, m), s)
              = Fails(o, s) \cup IF m.kind = "error" /\ m.id = s THEN {Len(o) + 1} ELSE {}
<1> DEFINE p == Append(o, m)
<1>1. /\ Len(o) \in Nat /\ DOMAIN p = 1 .. Len(o) + 1 /\ DOMAIN o = 1 .. Len(o)
      /\ \A i \in 1 .. Len(o) : p[i] = o[i]
      /\ p[Len(o) + 1] = m
  BY AppendProperties, LenProperties
<1> HIDE DEF p
<1>2. Tells(o, s) \subseteq 1 .. Len(o) /\ Fails(o, s) \subseteq 1 .. Len(o)
  BY <1>1 DEF Tells, Fails
<1>3. Tells(p, s) = Tells(o, s) \cup IF m.kind \in Events /\ m.id = s THEN {Len(o) + 1} ELSE {}
  BY <1>1 DEF Tells
<1>4. Fails(p, s) = Fails(o, s) \cup IF m.kind = "error" /\ m.id = s THEN {Len(o) + 1} ELSE {}
  BY <1>1 DEF Fails
<1> QED
  BY <1>1, <1>2, <1>3, <1>4 DEF p

(* A message handled.                                                      *)
LEMMA TellsTail ==
  ASSUME NEW o \in Seq(Message), o # <<>>, NEW s
  PROVE  /\ Tells(o, s) \subseteq Nat /\ Tells(Tail(o), s) \subseteq Nat
         /\ 1 \in Tells(o, s) <=> Head(o).kind \in Events /\ Head(o).id = s
         /\ \A i \in Tells(o, s) : i # 1 => i - 1 \in Tells(Tail(o), s)
         /\ \A i \in Tells(Tail(o), s) : i + 1 \in Tells(o, s) /\ Tail(o)[i] = o[i + 1]
         /\ 1 \in Fails(o, s) <=> Head(o).kind = "error" /\ Head(o).id = s
         /\ \A i \in Fails(o, s) : i # 1 => i - 1 \in Fails(Tail(o), s)
         /\ \A i \in Fails(Tail(o), s) : i + 1 \in Fails(o, s) /\ i \in Answers(Tail(o))
         /\ Head(o) = o[1]
<1> DEFINE p == Tail(o)
<1>1. /\ p \in Seq(Message) /\ Len(p) = Len(o) - 1 /\ \A i \in 1 .. Len(p) : p[i] = o[i + 1]
      /\ Head(o) = o[1]
  BY HeadTailProperties
<1>2. /\ Len(o) \in Nat /\ Len(p) \in Nat /\ DOMAIN o = 1 .. Len(o) /\ DOMAIN p = 1 .. Len(p)
  BY <1>1, LenProperties
<1> HIDE DEF p
<1>3. \A i \in DOMAIN o : i # 1 => i - 1 \in DOMAIN p /\ p[i - 1] = o[i]
  <2> SUFFICES ASSUME NEW i \in DOMAIN o, i # 1 PROVE i - 1 \in DOMAIN p /\ p[i - 1] = o[i]
    OBVIOUS
  <2>1. i - 1 \in 1 .. Len(p) /\ (i - 1) + 1 = i
    BY <1>1, <1>2
  <2> QED
    BY <1>1, <1>2, <2>1
<1>4. \A i \in DOMAIN p : i + 1 \in DOMAIN o /\ p[i] = o[i + 1] /\ i \in Nat
  BY <1>1, <1>2
<1>5. 1 \in DOMAIN o /\ DOMAIN o \subseteq Nat
  BY <1>1, <1>2
<1>6. /\ Tells(o, s) \subseteq Nat /\ Tells(p, s) \subseteq Nat
      /\ 1 \in Tells(o, s) <=> Head(o).kind \in Events /\ Head(o).id = s
      /\ \A i \in Tells(o, s) : i # 1 => i - 1 \in Tells(p, s)
      /\ \A i \in Tells(p, s) : i + 1 \in Tells(o, s) /\ p[i] = o[i + 1]
  BY <1>1, <1>3, <1>4, <1>5 DEF Tells
<1>7. "error" \notin Events
  BY DEF Events
<1>8. /\ 1 \in Fails(o, s) <=> Head(o).kind = "error" /\ Head(o).id = s
      /\ \A i \in Fails(o, s) : i # 1 => i - 1 \in Fails(p, s)
      /\ \A i \in Fails(p, s) : i + 1 \in Fails(o, s) /\ i \in Answers(p)
  BY <1>1, <1>3, <1>4, <1>5, <1>7 DEF Fails, Answers
<1> QED
  BY <1>1, <1>6, <1>8 DEF p

(* An event on the shape is still to be written (tell), or to be handled.  *)
Coming(tell, o, s) == tell \/ Tells(o, s) # {}

(* A change of the shape is not saved: it will be, or its tab will be told *)
(* that it has failed.                                                     *)
Unsaved(o, k, q, s) ==
  \/ \E i \in DOMAIN q : q[i].op \in ShapeOps /\ q[i].id = s
  \/ /\ k # NoCall /\ k.step \in {"check", "save"}
     /\ k.req.op \in ShapeOps /\ k.req.id = s
  \/ Fails(o, s) # {}

Held(g, s) == g # NoDrag /\ g.id = s

(* The tab shows v where the table has r, only while it drags the shape g, *)
(* or something is to come.                                                *)
Shows(tell, v, r, o, k, q, g, s) ==
  Held(g, s) \/ v = r \/ Coming(tell, o, s) \/ Unsaved(o, k, q, s)

(* The last event on the shape tells what is stored.                       *)
LastTells(tell, r, o, s) ==
  ~tell => \A i \in Tells(o, s) : (\A j \in Tells(o, s) : j <= i) => o[i].row = r

(* What the clean commits and the clean drag of the shape found is what is *)
(* stored, unless an event is to come.                                     *)
FoundRight(tell, r, w, o, g, s) ==
  \/ Coming(tell, o, s)
  \/ /\ \A i \in DOMAIN w : w[i].op # "join" /\ w[i].id = s /\ w[i].clean => w[i].before = r
     /\ Held(g, s) /\ g.clean => g.orig = r

Converging(tell, v, r, w, o, k, q, g, s) ==
  Shows(tell, v, r, o, k, q, g, s) /\ LastTells(tell, r, o, s) /\ FoundRight(tell, r, w, o, g, s)

(* When an event is still to be written nothing else matters.              *)
LEMMA ConvergingTold ==
  ASSUME NEW v, NEW r, NEW w, NEW o, NEW k, NEW q, NEW g, NEW s
  PROVE  Converging(TRUE, v, r, w, o, k, q, g, s)
BY DEF Converging, Shows, LastTells, FoundRight, Coming

(* Events are not withdrawn, nor changes forgotten.                        *)
LEMMA ConvergingRuns ==
  ASSUME NEW tell, NEW v, NEW r, NEW w, NEW o, NEW k, NEW q, NEW g, NEW s,
         Converging(tell, v, r, w, o, k, q, g, s),
         NEW tell2, tell => tell2, NEW k2, NEW q2,
         Unsaved(o, k, q, s) => Unsaved(o, k2, q2, s)
  PROVE  Converging(tell2, v, r, w, o, k2, q2, g, s)
BY DEF Converging, Shows, LastTells, FoundRight, Coming

(* The hub writes an event on the shape.                                   *)
LEMMA ConvergingHears ==
  ASSUME NEW tell, NEW v, NEW r, NEW w, NEW o \in Seq(Message), NEW k, NEW q, NEW g, NEW s,
         NEW m \in Message, m.kind \in Events, m.id = s, m.row = r
  PROVE  Converging(tell, v, r, w, Append(o, m), k, q, g, s)
<1> DEFINE p == Append(o, m)
<1>1. /\ Len(o) \in Nat /\ Tells(o, s) \subseteq 1 .. Len(o)
      /\ p[Len(o) + 1] = m /\ Tells(p, s) = Tells(o, s) \cup {Len(o) + 1}
  BY TellsAppend
<1> HIDE DEF p
<1>2. Coming(tell, p, s)
  BY <1>1 DEF Coming
<1>3. LastTells(tell, r, p, s)
  <2> SUFFICES ASSUME NEW i \in Tells(p, s), \A j \in Tells(p, s) : j <= i PROVE p[i].row = r
    BY DEF LastTells
  <2>1. Len(o) + 1 <= i
    BY <1>1
  <2>2. i = Len(o) + 1
    BY <1>1, <2>1
  <2> QED
    BY <1>1, <2>2
<1> QED
  BY <1>2, <1>3 DEF Converging, Shows, FoundRight, p

(* The hub writes anything else.                                           *)
LEMMA ConvergingWritten ==
  ASSUME NEW tell, NEW v, NEW r, NEW w, NEW o \in Seq(Message), NEW k, NEW q, NEW g, NEW s,
         Converging(tell, v, r, w, o, k, q, g, s),
         NEW m \in Message, ~(m.kind \in Events /\ m.id = s),
         NEW tell2, tell => tell2, NEW k2,
         Unsaved(o, k, q, s) => Unsaved(Append(o, m), k2, q, s)
  PROVE  Converging(tell2, v, r, w, Append(o, m), k2, q, g, s)
<1> DEFINE p == Append(o, m)
<1>1. /\ Len(o) \in Nat /\ Tells(o, s) \subseteq 1 .. Len(o) /\ Fails(o, s) \subseteq 1 .. Len(o)
      /\ \A i \in 1 .. Len(o) : p[i] = o[i]
      /\ p[Len(o) + 1] = m /\ Tells(p, s) = Tells(o, s)
  <2>1. Tells(p, s) = Tells(o, s) \cup IF m.kind \in Events /\ m.id = s THEN {Len(o) + 1} ELSE {}
    BY TellsAppend
  <2>2. Tells(p, s) = Tells(o, s)
    BY <2>1
  <2> QED
    BY <2>2, TellsAppend
<1> HIDE DEF p
<1>4. Coming(tell, o, s) => Coming(tell2, p, s)
  BY <1>1 DEF Coming
<1>5. Shows(tell2, v, r, p, k2, q, g, s)
  BY <1>4 DEF Converging, Shows, p
<1>6. LastTells(tell2, r, p, s)
  BY <1>1 DEF Converging, LastTells
<1>7. FoundRight(tell2, r, w, p, g, s)
  BY <1>4 DEF Converging, FoundRight
<1> QED
  BY <1>5, <1>6, <1>7 DEF Converging, p

(* The tab handles an event: it shows the shape as the event tells it, and *)
(* no commit or drag of the shape is clean any more.                       *)
LEMMA ConvergingShown ==
  ASSUME NEW tell, NEW v, NEW r, NEW w \in Seq(Commit), NEW o \in Seq(Message), NEW k,
         NEW q \in Seq(Requests), NEW g, NEW s, Agree(w, o, k, q), o # <<>>,
         Head(o).kind \in Events, Converging(tell, v, r, w, o, k, q, g, s),
         NEW v2, v2 = IF Head(o).id = s THEN Head(o).row ELSE v,
         NEW w2, DOMAIN w2 = DOMAIN w,
         \A i \in DOMAIN w : /\ w2[i].id = w[i].id
                             /\ w[i].id = Head(o).id => ~w2[i].clean
                             /\ w[i].id # Head(o).id => w2[i] = w[i],
         NEW g2, Held(g2, s) <=> Held(g, s),
         Held(g, s) /\ Head(o).id = s => ~g2.clean,
         Held(g, s) /\ Head(o).id # s => g2.clean = g.clean /\ g2.orig = g.orig
  PROVE  Converging(tell, v2, r, w2, Tail(o), k, q, g2, s)
<1> DEFINE p == Tail(o)
<1>1. /\ Tells(o, s) \subseteq Nat /\ Tells(p, s) \subseteq Nat
      /\ 1 \in Tells(o, s) <=> Head(o).id = s
      /\ \A i \in Tells(o, s) : i # 1 => i - 1 \in Tells(p, s)
      /\ \A i \in Tells(p, s) : i + 1 \in Tells(o, s) /\ p[i] = o[i + 1]
      /\ 1 \notin Fails(o, s)
      /\ \A i \in Fails(o, s) : i # 1 => i - 1 \in Fails(p, s)
      /\ \A i \in Fails(p, s) : i + 1 \in Fails(o, s) /\ i \in Answers(p)
      /\ Head(o) = o[1]
  <2>1. Head(o).kind # "error"
    BY DEF Events
  <2> QED
    BY <2>1, TellsTail
<1> HIDE DEF p
<1>3. LastTells(tell, r, p, s)
  <2> SUFFICES ASSUME ~tell, NEW i \in Tells(p, s), \A j \in Tells(p, s) : j <= i
               PROVE  p[i].row = r
    BY DEF LastTells
  <2>1. i + 1 \in Tells(o, s) /\ p[i] = o[i + 1]
    BY <1>1
  <2>2. \A j \in Tells(o, s) : j <= i + 1
    <3> SUFFICES ASSUME NEW j \in Tells(o, s), j # 1 PROVE j <= i + 1
      BY <1>1
    <3>1. j - 1 <= i /\ j \in Nat /\ i \in Nat
      BY <1>1
    <3> QED
      BY <3>1
  <2> QED
    BY <2>1, <2>2 DEF Converging, LastTells
<1>4. Unsaved(o, k, q, s) => Unsaved(p, k, q, s)
  BY <1>1 DEF Unsaved
<1>5. CASE Head(o).id = s
  <2>1. Shows(tell, v2, r, p, k, q, g2, s)
    <3> SUFFICES ASSUME ~tell, Tells(p, s) = {} PROVE v2 = r
      BY DEF Shows, Coming
    <3>1. \A j \in Tells(o, s) : j = 1
      BY <1>1
    <3>2. 1 \in Tells(o, s) /\ \A j \in Tells(o, s) : j <= 1
      BY <1>1, <1>5, <3>1
    <3> QED
      BY <1>1, <1>5, <3>2 DEF Converging, LastTells
  <2>2. FoundRight(tell, r, w2, p, g2, s)
    <3>1. \A i \in DOMAIN w2 : w2[i].id = s => ~w2[i].clean
      BY <1>5
    <3>2. Held(g2, s) => ~g2.clean
      BY <1>5
    <3> QED
      BY <3>1, <3>2 DEF FoundRight
  <2> QED
    BY <1>3, <2>1, <2>2 DEF Converging, p
<1>6. CASE Head(o).id # s
  <2>1. Coming(tell, o, s) => Coming(tell, p, s)
    BY <1>1, <1>6 DEF Coming
  <2>2. Shows(tell, v2, r, p, k, q, g2, s)
    BY <1>4, <1>6, <2>1 DEF Converging, Shows
  <2>3. FoundRight(tell, r, w2, p, g2, s)
    <3> SUFFICES ASSUME ~Coming(tell, o, s) PROVE FoundRight(tell, r, w2, p, g2, s)
      BY <2>1 DEF FoundRight
    <3>1. \A i \in DOMAIN w2 :
            w2[i].op # "join" /\ w2[i].id = s /\ w2[i].clean => w2[i].before = r
      BY <1>6 DEF Converging, FoundRight
    <3>2. Held(g2, s) /\ g2.clean => g2.orig = r
      BY <1>6 DEF Converging, FoundRight
    <3> QED
      BY <3>1, <3>2 DEF FoundRight
  <2> QED
    BY <1>3, <2>2, <2>3 DEF Converging, p
<1> QED
  BY <1>5, <1>6

(* The tab handles an answer.  If its commit has failed, nothing else has  *)
(* touched the shape, and the undo is what the commit found, then it puts  *)
(* back what is stored, unless an event is coming.                         *)
LEMMA ConvergingSettles ==
  ASSUME NEW tell, NEW v, NEW r, NEW w \in Seq(Commit), NEW o \in Seq(Message), NEW k,
         NEW q \in Seq(Requests), NEW g, NEW s \in Shapes, Agree(w, o, k, q), o # <<>>,
         Head(o).kind \notin Events, Converging(tell, v, r, w, o, k, q, g, s),
         NEW v2,
         Head(o).kind = "error" /\ Head(o).id = s =>
           v2 = Head(w).undo /\ Head(w).clean /\ Head(w).undo = Head(w).before,
         ~(Head(o).kind = "error" /\ Head(o).id = s) => v2 = v,
         NEW g2, Held(g2, s) <=> Held(g, s),
         Held(g, s) => g2.clean = g.clean /\ g2.orig = g.orig
  PROVE  Converging(tell, v2, r, Tail(w), Tail(o), k, q, g2, s)
<1> DEFINE p == Tail(o)
           x == Tail(w)
<1>1. /\ Tells(o, s) \subseteq Nat /\ Tells(p, s) \subseteq Nat
      /\ 1 \notin Tells(o, s)
      /\ \A i \in Tells(o, s) : i # 1 => i - 1 \in Tells(p, s)
      /\ \A i \in Tells(p, s) : i + 1 \in Tells(o, s) /\ p[i] = o[i + 1]
      /\ 1 \in Fails(o, s) <=> Head(o).kind = "error" /\ Head(o).id = s
      /\ \A i \in Fails(o, s) : i # 1 => i - 1 \in Fails(p, s)
      /\ \A i \in Fails(p, s) : i + 1 \in Fails(o, s) /\ i \in Answers(p)
      /\ Head(o) = o[1]
  BY TellsTail
<1>2. /\ w # <<>> /\ Head(w).id = Head(o).id /\ Head(w) = w[1] /\ Head(w) \in Commit
      /\ 1 \in DOMAIN w /\ Rank(o, 1) = 1
      /\ \A i \in DOMAIN x : i + 1 \in DOMAIN w /\ x[i] = w[i + 1]
      /\ \A i \in Nat \ {0} : i + 1 \in DOMAIN w => x[i] = w[i + 1]
  <2>1. w # <<>> /\ Head(w).id = Head(o).id
    BY AgreeSettles
  <2>2. /\ Head(w) = w[1] /\ Head(w) \in Commit /\ x \in Seq(Commit)
        /\ Len(x) = Len(w) - 1 /\ \A i \in 1 .. Len(x) : x[i] = w[i + 1]
    BY <2>1, HeadTailProperties
  <2>3. DOMAIN w = 1 .. Len(w) /\ Len(w) \in Nat /\ DOMAIN x = 1 .. Len(x) /\ Len(x) \in Nat
    BY <2>2, LenProperties
  <2>4. Rank(o, 1) = 1
    BY RankTail
  <2> HIDE DEF x
  <2> QED
    BY <2>1, <2>2, <2>3, <2>4
<1> HIDE DEF p, x
<1>4. LastTells(tell, r, p, s)
  <2> SUFFICES ASSUME ~tell, NEW i \in Tells(p, s), \A j \in Tells(p, s) : j <= i
               PROVE  p[i].row = r
    BY DEF LastTells
  <2>1. i + 1 \in Tells(o, s) /\ p[i] = o[i + 1]
    BY <1>1
  <2>2. \A j \in Tells(o, s) : j <= i + 1
    <3> SUFFICES ASSUME NEW j \in Tells(o, s), j # 1 PROVE j <= i + 1
      BY <1>1
    <3>1. j - 1 <= i /\ j \in Nat /\ i \in Nat
      BY <1>1
    <3> QED
      BY <3>1
  <2> QED
    BY <2>1, <2>2 DEF Converging, LastTells
<1>5. Coming(tell, o, s) => Coming(tell, p, s)
  BY <1>1 DEF Coming
<1>6. FoundRight(tell, r, x, p, g2, s)
  <2> SUFFICES ASSUME ~Coming(tell, o, s) PROVE FoundRight(tell, r, x, p, g2, s)
    BY <1>5 DEF FoundRight
  <2>1. \A i \in DOMAIN x : x[i].op # "join" /\ x[i].id = s /\ x[i].clean => x[i].before = r
    BY <1>2 DEF Converging, FoundRight
  <2>2. Held(g2, s) /\ g2.clean => g2.orig = r
    BY DEF Converging, FoundRight
  <2> QED
    BY <2>1, <2>2 DEF FoundRight
<1>7. Shows(tell, v2, r, p, k, q, g2, s)
  <2>1. CASE Head(o).kind = "error" /\ Head(o).id = s
    <3> SUFFICES ASSUME ~Coming(tell, o, s) PROVE v2 = r
      BY <1>5 DEF Shows
    <3>1. w[1].clean /\ w[1].id = s /\ w[1].undo = w[1].before
      BY <1>2, <2>1
    <3>2. w[1].op # "join"
      BY <1>2, <3>1, HubAssumption DEF Commit
    <3>3. w[1].before = r
      BY <1>2, <3>1, <3>2 DEF Converging, FoundRight
    <3> QED
      BY <1>2, <2>1, <3>1, <3>3
  <2>2. CASE ~(Head(o).kind = "error" /\ Head(o).id = s)
    <3>1. Unsaved(o, k, q, s) => Unsaved(p, k, q, s)
      BY <1>1, <2>2 DEF Unsaved
    <3> QED
      BY <1>5, <2>2, <3>1 DEF Converging, Shows
  <2> QED
    BY <2>1, <2>2
<1> QED
  BY <1>4, <1>6, <1>7 DEF Converging, p, x

(* The tab commits: what the commit x found is what is stored.             *)
LEMMA ConvergingCommits ==
  ASSUME NEW tell, NEW v, NEW r, NEW w \in Seq(Commit), NEW o \in Seq(Message), NEW k,
         NEW q \in Seq(Requests), NEW g, NEW s, Agree(w, o, k, q),
         Converging(tell, v, r, w, o, k, q, g, s),
         NEW tell2, tell => tell2, NEW x \in Commit, NEW req \in Requests, SentFor(req, x),
         NEW v2, NEW g2, Held(g2, s) => Held(g, s) /\ g2.clean = g.clean /\ g2.orig = g.orig,
         req.op \in ShapeOps /\ req.id = s /\ x.clean => Coming(tell, o, s) \/ x.before = r,
         ~(req.op \in ShapeOps /\ req.id = s) => v2 = v /\ (Held(g, s) => Held(g2, s))
  PROVE  Converging(tell2, v2, r, Append(w, x), o, k, Append(q, req), g2, s)
<1> DEFINE y == Append(w, x)
           p == Append(q, req)
<1>1. /\ DOMAIN w = 1 .. Len(w) /\ DOMAIN y = 1 .. Len(w) + 1 /\ Len(w) \in Nat
      /\ y[Len(w) + 1] = x /\ \A i \in 1 .. Len(w) : y[i] = w[i]
  BY AppendProperties, LenProperties
<1>2. /\ DOMAIN q = 1 .. Len(q) /\ DOMAIN p = 1 .. Len(q) + 1 /\ Len(q) \in Nat
      /\ p[Len(q) + 1] = req /\ \A i \in 1 .. Len(q) : p[i] = q[i]
  BY AppendProperties, LenProperties
<1>4. x.op \in {"join"} \cup ShapeOps /\ x.op = req.op /\ x.id = req.id
  BY CommitType DEF SentFor
<1> HIDE DEF y, p
<1>5. Unsaved(o, k, q, s) \/ (req.op \in ShapeOps /\ req.id = s) => Unsaved(o, k, p, s)
  <2>1. ASSUME NEW i \in DOMAIN q, q[i].op \in ShapeOps, q[i].id = s PROVE Unsaved(o, k, p, s)
    <3>1. i \in DOMAIN p /\ p[i] = q[i]
      BY <1>2
    <3> QED
      BY <2>1, <3>1 DEF Unsaved
  <2>2. ASSUME req.op \in ShapeOps, req.id = s PROVE Unsaved(o, k, p, s)
    <3>1. Len(q) + 1 \in DOMAIN p /\ p[Len(q) + 1] = req
      BY <1>2
    <3> QED
      BY <2>2, <3>1 DEF Unsaved
  <2> QED
    BY <2>1, <2>2 DEF Unsaved
<1>6. Shows(tell2, v2, r, o, k, p, g2, s)
  BY <1>5 DEF Converging, Shows, Coming
<1>7. LastTells(tell2, r, o, s)
  BY DEF Converging, LastTells
<1>8. FoundRight(tell2, r, y, o, g2, s)
  <2> SUFFICES ASSUME ~Coming(tell, o, s) PROVE FoundRight(tell2, r, y, o, g2, s)
    BY DEF FoundRight, Coming
  <2>1. ASSUME NEW i \in DOMAIN y, y[i].op # "join", y[i].id = s, y[i].clean
        PROVE  y[i].before = r
    <3>1. CASE i \in 1 .. Len(w)
      BY <1>1, <2>1, <3>1 DEF Converging, FoundRight
    <3>2. CASE i = Len(w) + 1
      BY <1>1, <1>4, <2>1, <3>2
    <3> QED
      BY <1>1, <2>1, <3>1, <3>2
  <2>2. Held(g2, s) /\ g2.clean => g2.orig = r
    BY DEF Converging, FoundRight
  <2> QED
    BY <2>1, <2>2 DEF FoundRight
<1> QED
  BY <1>6, <1>7, <1>8 DEF Converging, y, p

(* What is not saved is a commit that the tab waits for.                   *)
LEMMA UnsavedIsPending ==
  ASSUME NEW w \in Seq(Commit), NEW o \in Seq(Message), NEW k, NEW q \in Seq(Requests),
         Agree(w, o, k, q), NEW s, Unsaved(o, k, q, s)
  PROVE  \E i \in DOMAIN w : w[i].id = s
<1> DEFINE n == Cardinality(Answers(o))
           r == IF k = NoCall THEN 0 ELSE 1
<1>1. /\ DOMAIN w = 1 .. Len(w) /\ Len(w) \in Nat /\ DOMAIN q = 1 .. Len(q) /\ Len(q) \in Nat
      /\ n \in Nat /\ r \in Nat
  BY Lengths, LenProperties
<1>2. CASE Fails(o, s) # {}
  <2>1. PICK i \in Answers(o) : o[i].id = s
    BY <1>2 DEF Fails, Answers, Events
  <2>2. Rank(o, i) \in 1 .. Len(w) /\ w[Rank(o, i)].id = s
    BY <2>1, PlacesInRange DEF Agree
  <2> QED
    BY <1>1, <2>2
<1>3. CASE k # NoCall /\ k.req.id = s
  <2>1. n + 1 \in 1 .. Len(w) /\ w[n + 1].id = s
    BY <1>3, PlacesInRange DEF SentFor
  <2> QED
    BY <1>1, <2>1
<1>4. CASE \E i \in DOMAIN q : q[i].id = s
  <2>1. PICK i \in DOMAIN q : q[i].id = s
    BY <1>4
  <2>2. Len(w) = n + r + Len(q) /\ SentFor(q[i], w[n + r + i])
    BY DEF Agree
  <2> HIDE DEF n, r
  <2>3. n + r + i \in DOMAIN w
    BY <1>1, <2>2
  <2> QED
    BY <2>1, <2>2, <2>3 DEF SentFor
<1> QED
  BY <1>2, <1>3, <1>4 DEF Unsaved

(* A change that is not saved goes from the requests to the call.          *)
LEMMA UnsavedDispatched ==
  ASSUME NEW o, NEW q \in Seq(Requests), q # <<>>, NEW s, Unsaved(o, NoCall, q, s),
         NEW k, k # NoCall, k.step = "check", k.req = Head(q)
  PROVE  Unsaved(o, k, Tail(q), s)
<1> DEFINE p == Tail(q)
<1>1. /\ p \in Seq(Requests) /\ Len(p) = Len(q) - 1 /\ \A i \in 1 .. Len(p) : p[i] = q[i + 1]
      /\ Head(q) = q[1]
  BY HeadTailProperties
<1>2. DOMAIN q = 1 .. Len(q) /\ Len(q) \in Nat /\ DOMAIN p = 1 .. Len(p) /\ Len(p) \in Nat
  BY <1>1, LenProperties
<1> HIDE DEF p
<1>3. ASSUME NEW i \in DOMAIN q, q[i].op \in ShapeOps, q[i].id = s PROVE Unsaved(o, k, p, s)
  <2>1. CASE i = 1
    BY <1>1, <1>3, <2>1 DEF Unsaved
  <2>2. CASE i # 1
    <3>1. i - 1 \in DOMAIN p /\ p[i - 1] = q[(i - 1) + 1] /\ (i - 1) + 1 = i
      BY <1>1, <1>2, <2>2
    <3> QED
      BY <1>3, <3>1 DEF Unsaved
  <2> QED
    BY <2>1, <2>2
<1> QED
  BY <1>3 DEF Unsaved, p

(* A message more.  A call that has not saved is answered with a failure.  *)
LEMMA UnsavedWritten ==
  ASSUME NEW o \in Seq(Message), NEW m \in Message, NEW k, NEW q, NEW s, Unsaved(o, k, q, s),
         NEW k2,
         \/ k2 = k
         \/ k # NoCall /\ m.kind = "error" /\ m.id = k.req.id
         \/ k.step = "fan"
  PROVE  Unsaved(Append(o, m), k2, q, s)
<1>1. Fails(Append(o, m), s)
        = Fails(o, s) \cup IF m.kind = "error" /\ m.id = s THEN {Len(o) + 1} ELSE {}
  BY TellsAppend
<1> QED
  BY <1>1 DEF Unsaved

-----------------------------------------------------------------------------
(* Convergence: the state.                                                 *)

(* Call d has saved a change of the shape, and announces it.               *)
Writing(d, s) == Busy(d, {"cast", "fan"}, ShapeOps) /\ call[d].req.id = s

(* Call d has read the shape, and is about to save it.                     *)
Saving(d, s) == Busy(d, {"save"}, {"update", "delete"}) /\ call[d].req.id = s

(* Nothing contends for the shape: what is announced is what is stored,    *)
(* and what a handler has read is too.                                     *)
Uncontended(s) ==
  /\ \A d, e \in Conns : Writing(d, s) /\ Writing(e, s) => d = e
  /\ \A d \in Conns : Writing(d, s) => Event(d).row = db[s]
  /\ \A d \in Conns : Saving(d, s) => call[d].row = db[s]

(* An event on the shape is still to be written to the tab's connection:   *)
(* by call d; by some call.                                                *)
Telling(d, t, s) ==
  Writing(d, s) /\ (call[d].step = "cast" \/ (Linked(t) /\ link[t] \in call[d].to))

ToTell(t, s) == \E d \in Conns : Telling(d, t, s)

(* What is under way between the tab and the hub.                          *)
Mail(t) == IF Linked(t) THEN outbox[link[t]] ELSE <<>>
Runs(t) == IF Linked(t) THEN call[link[t]] ELSE NoCall
Sends(t) == IF Linked(t) THEN sent[link[t]] ELSE <<>>

ConvergesAt(t, s) ==
  Converging(ToTell(t, s), view[t][s], db[s], wait[t], Mail(t), Runs(t), Sends(t), drag[t], s)

(* A tab that has not loaded the board has nothing.                        *)
BlankSound ==
  \A t \in Tabs \ shown :
    ~Linked(t) /\ drag[t] = NoDrag /\ \A s \in Shapes : view[t][s] = Absent

Convergence ==
  /\ BlankSound
  /\ \A s \in Shapes, t \in Tabs : <<t, s>> \notin excused =>
       Uncontended(s) /\ (t \in shown => ConvergesAt(t, s))

(* What the lemmas without state ask of a tab.                             *)
LEMMA TabHas ==
  ASSUME SyncInductive, NEW t \in Tabs
  PROVE  /\ wait[t] \in Seq(Commit) /\ Mail(t) \in Seq(Message) /\ Sends(t) \in Seq(Requests)
         /\ Agree(wait[t], Mail(t), Runs(t), Sends(t))
<1> USE DEF SyncInductive, TabsInductive
<1>1. CASE Linked(t)
  <2>1. link[t] \in Conns
    BY <1>1, LinkType
  <2> QED
    BY <1>1, <2>1 DEF TabTypes, TabsKept, TabKept, Inductive, TypeOK, Mail, Runs, Sends
<1>2. CASE ~Linked(t)
  <2>1. wait[t] = <<>> /\ Mail(t) = <<>> /\ Runs(t) = NoCall /\ Sends(t) = <<>>
    BY <1>2 DEF LinksSound, Mail, Runs, Sends
  <2>2. \A S : <<>> \in Seq(S)
    BY EmptySeq
  <2> QED
    BY <2>1, <2>2, NothingAgrees
<1> QED
  BY <1>1, <1>2

(* A step of tab u disturbs nothing but tab u.                             *)
LEMMA TabConverges ==
  ASSUME Convergence, NEW u \in Tabs, UNCHANGED <<db, call>>, shown' = shown \cup {u},
         excused \subseteq excused',
         \A t \in Tabs : t # u =>
           /\ link'[t] = link[t] /\ view'[t] = view[t] /\ wait'[t] = wait[t]
           /\ drag'[t] = drag[t] /\ Mail(t)' = Mail(t) /\ Sends(t)' = Sends(t),
         \A s \in Shapes : <<u, s>> \notin excused' => ConvergesAt(u, s)'
  PROVE  Convergence'
<1>1. BlankSound'
  <2>1. \A t \in Tabs \ shown' : t \in Tabs \ shown /\ t # u
    OBVIOUS
  <2> QED
    BY <2>1 DEF Convergence, BlankSound, Linked
<1>2. ASSUME NEW s \in Shapes, Uncontended(s) PROVE Uncontended(s)'
  BY <1>2 DEF Uncontended, Writing, Saving, Busy, Event
<1>3. ASSUME NEW s \in Shapes, NEW t \in Tabs, t # u, ConvergesAt(t, s) PROVE ConvergesAt(t, s)'
  <2>1. ToTell(t, s)' = ToTell(t, s)
    BY <1>3 DEF ToTell, Telling, Writing, Busy, Linked
  <2>2. Runs(t)' = Runs(t)
    BY <1>3 DEF Runs, Linked
  <2> QED
    BY <1>3, <2>1, <2>2 DEF ConvergesAt
<1> QED
  BY <1>1, <1>2, <1>3 DEF Convergence

(* A step of tab u that sends nothing and handles nothing.                 *)
LEMMA PointerConverges ==
  ASSUME Convergence, NEW u \in Tabs, u \in shown, excused \subseteq excused',
         UNCHANGED <<hubVars, shown, link, sent, wait>>,
         \A t \in Tabs : t # u => view'[t] = view[t] /\ drag'[t] = drag[t],
         \A s \in Shapes : <<u, s>> \notin excused' =>
           Converging(ToTell(u, s), view'[u][s], db[s], wait[u], Mail(u), Runs(u), Sends(u),
                      drag'[u], s)
  PROVE  Convergence'
<1>1. UNCHANGED <<db, call, outbox, link, sent, wait>>
  BY DEF hubVars
<1>2. \A t \in Tabs : Mail(t)' = Mail(t) /\ Runs(t)' = Runs(t) /\ Sends(t)' = Sends(t)
  BY <1>1 DEF Mail, Runs, Sends, Linked
<1>3. ASSUME NEW s \in Shapes, <<u, s>> \notin excused' PROVE ConvergesAt(u, s)'
  <2>1. ToTell(u, s)' = ToTell(u, s)
    BY <1>1 DEF ToTell, Telling, Writing, Busy, Linked
  <2>2. Mail(u)' = Mail(u) /\ Runs(u)' = Runs(u) /\ Sends(u)' = Sends(u)
    BY <1>1 DEF Mail, Runs, Sends, Linked
  <2>3. db'[s] = db[s] /\ wait'[u] = wait[u]
    BY <1>1
  <2> QED
    BY <1>3, <2>1, <2>2, <2>3 DEF ConvergesAt
<1>4. shown' = shown \cup {u}
  OBVIOUS
<1> QED
  BY <1>1, <1>2, <1>3, <1>4, TabConverges

LEMMA PointerDownConverges ==
  ASSUME SyncInductive, Convergence, NEW u \in Tabs, NEW a \in Shapes,
         NEW mode \in {"move", "resize"}, PointerDown(u, a, mode)
  PROVE  Convergence'
<1> DEFINE g == [id |-> a, mode |-> mode, orig |-> view[u][a], selected |-> TRUE,
                 clean |-> ~Pending(u, a)]
<1>1. /\ drag[u] = NoDrag /\ view[u][a] # Absent /\ drag' = [drag EXCEPT ![u] = g]
      /\ UNCHANGED <<hubVars, shown, link, view, sent, wait, excused>>
  BY DEF PointerDown
<1>2. u \in shown
  BY <1>1 DEF Convergence, BlankSound
<1>3. g.id = a /\ g.orig = view[u][a] /\ g.clean = ~Pending(u, a)
  OBVIOUS
<1> HIDE DEF g
<1>4. drag'[u] = g /\ \A t \in Tabs : t # u => drag'[t] = drag[t]
  BY <1>1 DEF SyncInductive, TabsInductive, TabTypes
<1>5. ASSUME NEW s \in Shapes, <<u, s>> \notin excused
      PROVE  Converging(ToTell(u, s), view[u][s], db[s], wait[u], Mail(u), Runs(u), Sends(u),
                        drag'[u], s)
  <2>1. Converging(ToTell(u, s), view[u][s], db[s], wait[u], Mail(u), Runs(u), Sends(u),
                   drag[u], s)
    BY <1>2, <1>5 DEF Convergence, ConvergesAt
  <2>2. ~Held(drag[u], s)
    BY <1>1 DEF Held
  <2>3. ~Pending(u, s) => ~Unsaved(Mail(u), Runs(u), Sends(u), s)
    BY TabHas, UnsavedIsPending DEF Pending
  <2>4. s # a => ~Held(g, s)
    BY <1>3 DEF Held
  <2>5. s = a => g # NoDrag
    <3>1. view[u][a] \in Row
      BY <1>1 DEF SyncInductive, TabsInductive, TabTypes
    <3>2. g \in Drag
      BY <3>1 DEF g, Drag
    <3> QED
      BY <3>2, SyncAssumption
  <2>6. CASE s = a
    <3>1. Held(g, s)
      BY <1>3, <2>5, <2>6 DEF Held
    <3> QED
      BY <1>3, <1>4, <2>1, <2>2, <2>3, <2>6, <3>1
         DEF Converging, Shows, FoundRight
  <2>7. CASE s # a
    BY <1>4, <2>1, <2>2, <2>4, <2>7 DEF Converging, Shows, FoundRight
  <2> QED
    BY <2>6, <2>7
<1>6. \A s \in Shapes : <<u, s>> \notin excused' =>
        Converging(ToTell(u, s), view'[u][s], db[s], wait[u], Mail(u), Runs(u), Sends(u),
                   drag'[u], s)
  BY <1>1, <1>5
<1> QED
  BY <1>1, <1>2, <1>4, <1>6, PointerConverges

LEMMA PointerMoveConverges ==
  ASSUME SyncInductive, Convergence, NEW u \in Tabs, NEW pos \in Positions, PointerMove(u, pos)
  PROVE  Convergence'
<1> DEFINE row == [drag[u].orig EXCEPT !.pos = pos]
<1>1. /\ drag[u] # NoDrag /\ view' = [view EXCEPT ![u][drag[u].id] = row]
      /\ UNCHANGED <<hubVars, shown, link, sent, wait, drag, excused>>
  BY DEF PointerMove
<1>2. u \in shown
  BY <1>1 DEF Convergence, BlankSound
<1> HIDE DEF row
<1>3. /\ \A t \in Tabs : t # u => view'[t] = view[t]
      /\ \A s \in Shapes : s # drag[u].id => view'[u][s] = view[u][s]
  BY <1>1 DEF SyncInductive, TabsInductive, TabTypes
<1>4. ASSUME NEW s \in Shapes, <<u, s>> \notin excused'
      PROVE  Converging(ToTell(u, s), view'[u][s], db[s], wait[u], Mail(u), Runs(u), Sends(u),
                        drag'[u], s)
  <2>1. Converging(ToTell(u, s), view[u][s], db[s], wait[u], Mail(u), Runs(u), Sends(u),
                   drag[u], s)
    BY <1>1, <1>2, <1>4 DEF Convergence, ConvergesAt
  <2>2. Held(drag[u], s) \/ view'[u][s] = view[u][s]
    BY <1>1, <1>3 DEF Held
  <2>3. drag'[u] = drag[u]
    BY <1>1
  <2> QED
    BY <2>1, <2>2, <2>3 DEF Converging, Shows
<1>5. \A t \in Tabs : t # u => view'[t] = view[t] /\ drag'[t] = drag[t]
  BY <1>1, <1>3
<1> QED
  BY <1>1, <1>2, <1>4, <1>5, PointerConverges

LEMMA VainDragConverges ==
  ASSUME SyncInductive, Convergence, NEW u \in Tabs, PointerUpInVain(u) \/ PointerCancel(u)
  PROVE  Convergence'
<1>1. /\ drag[u] # NoDrag /\ drag' = [drag EXCEPT ![u] = NoDrag]
      /\ excused' = excused \cup {<<u, drag[u].id>>}
      /\ UNCHANGED <<hubVars, shown, link, view, sent, wait>>
  BY DEF PointerUpInVain, PointerCancel
<1>2. u \in shown
  BY <1>1 DEF Convergence, BlankSound
<1>3. drag'[u] = NoDrag /\ \A t \in Tabs : t # u => view'[t] = view[t] /\ drag'[t] = drag[t]
  BY <1>1 DEF SyncInductive, TabsInductive, TabTypes
<1>4. ASSUME NEW s \in Shapes, <<u, s>> \notin excused'
      PROVE  Converging(ToTell(u, s), view'[u][s], db[s], wait[u], Mail(u), Runs(u), Sends(u),
                        drag'[u], s)
  <2>1. s # drag[u].id /\ <<u, s>> \notin excused
    BY <1>1, <1>4
  <2>2. Converging(ToTell(u, s), view[u][s], db[s], wait[u], Mail(u), Runs(u), Sends(u),
                   drag[u], s)
    BY <1>2, <2>1 DEF Convergence, ConvergesAt
  <2>3. ~Held(drag[u], s) /\ ~Held(drag'[u], s) /\ view'[u][s] = view[u][s]
    BY <1>1, <1>3, <2>1 DEF Held
  <2> QED
    BY <2>2, <2>3 DEF Converging, Shows, FoundRight
<1>5. excused \subseteq excused'
  BY <1>1
<1> QED
  BY <1>1, <1>2, <1>3, <1>4, <1>5, PointerConverges

(* A commit of tab u on shape a disturbs no drag but one of that shape,    *)
(* which it may end.                                                       *)
DragsKept(u, a) ==
  /\ \A t \in Tabs : t # u => drag'[t] = drag[t]
  /\ \A s \in Shapes :
       /\ Held(drag'[u], s)
            => Held(drag[u], s) /\ drag'[u].clean = drag[u].clean /\ drag'[u].orig = drag[u].orig
       /\ s # a /\ Held(drag[u], s) => Held(drag'[u], s)

(* A tab commits.                                                          *)
LEMMA CommitConverges ==
  ASSUME SyncInductive, Convergence, NEW u \in Tabs, Linked(u), NEW a \in Shapes,
         NEW req \in Requests, NEW x \in Commit, SentFor(req, x), req.id = a,
         sent' = [sent EXCEPT ![link[u]] = Append(@, req)],
         wait' = [wait EXCEPT ![u] = Append(@, x)],
         NEW local, view' = [view EXCEPT ![u][a] = local],
         UNCHANGED <<hubVars, shown, link, excused>>,
         DragsKept(u, a),
         <<u, a>> \notin excused /\ x.clean
           => Coming(ToTell(u, a), Mail(u), a) \/ x.before = db[a],
         req.op \in ShapeOps
  PROVE  Convergence'
<1>1. u \in shown /\ link[u] \in Conns
  BY LinkType DEF Convergence, BlankSound, SyncInductive, TabsInductive
<1>2. /\ wait'[u] = Append(wait[u], x) /\ sent'[link[u]] = Append(sent[link[u]], req)
      /\ \A t \in Tabs : t # u => wait'[t] = wait[t] /\ view'[t] = view[t]
      /\ \A d \in Conns : d # link[u] => sent'[d] = sent[d]
      /\ \A s \in Shapes : s # a => view'[u][s] = view[u][s]
  BY <1>1 DEF SyncInductive, TabsInductive, TabTypes
<1>3. UNCHANGED <<db, call, outbox, link>>
  BY DEF hubVars
<1>4. /\ Mail(u)' = Mail(u) /\ Runs(u)' = Runs(u) /\ Sends(u)' = Append(Sends(u), req)
  BY <1>2, <1>3 DEF Mail, Runs, Sends, Linked
<1>5. ASSUME NEW t \in Tabs, t # u PROVE Mail(t)' = Mail(t) /\ Sends(t)' = Sends(t)
  <2>1. Linked(t) => link[t] \in Conns /\ link[t] # link[u]
    BY <1>5, LinkType DEF SyncInductive, TabsInductive, LinksSound
  <2> QED
    BY <1>2, <1>3, <2>1 DEF Mail, Sends, Linked
<1>6. ASSUME NEW s \in Shapes, <<u, s>> \notin excused' PROVE ConvergesAt(u, s)'
  <2>1. Converging(ToTell(u, s), view[u][s], db[s], wait[u], Mail(u), Runs(u), Sends(u),
                   drag[u], s)
    BY <1>1, <1>6 DEF Convergence, ConvergesAt
  <2>2. ToTell(u, s)' = ToTell(u, s)
    BY <1>3 DEF ToTell, Telling, Writing, Busy, Linked
  <2>3. /\ req.id = s /\ x.clean => Coming(ToTell(u, s), Mail(u), s) \/ x.before = db[s]
        /\ ~(req.op \in ShapeOps /\ req.id = s)
             => view'[u][s] = view[u][s] /\ (Held(drag[u], s) => Held(drag'[u], s))
    BY <1>2, <1>6 DEF DragsKept
  <2>6. Held(drag'[u], s) => Held(drag[u], s) /\ drag'[u].clean = drag[u].clean /\ drag'[u].orig = drag[u].orig
    BY DEF DragsKept
  <2>4. Converging(ToTell(u, s), view'[u][s], db[s], Append(wait[u], x), Mail(u), Runs(u),
                   Append(Sends(u), req), drag'[u], s)
    BY <2>1, <2>3, <2>6, TabHas, ConvergingCommits
  <2>5. db'[s] = db[s]
    BY <1>3
  <2> QED
    BY <1>2, <1>4, <2>2, <2>4, <2>5 DEF ConvergesAt
<1>7. shown' = shown \cup {u}
  BY <1>1
<1>8. \A t \in Tabs : t # u => drag'[t] = drag[t]
  BY DEF DragsKept
<1> QED
  BY <1>1, <1>2, <1>3, <1>5, <1>6, <1>7, <1>8, TabConverges

LEMMA DrawConverges ==
  ASSUME SyncInductive, Convergence, NEW u \in Tabs, NEW a \in Shapes, NEW dto \in Drafts,
         Draw(u, a, dto)
  PROVE  Convergence'
<1> DEFINE req == [op |-> "create", id |-> a, dto |-> dto]
           x == [op |-> "create", id |-> a, undo |-> Absent, before |-> Absent, clean |-> TRUE]
<1>1. req \in Requests /\ x \in Commit /\ SentFor(req, x) /\ req.op \in ShapeOps /\ req.id = a
  BY DEF Requests, Commit, SentFor, ShapeOps
<1>2. /\ Linked(u) /\ view' = [view EXCEPT ![u][a] = dto]
      /\ sent' = [sent EXCEPT ![link[u]] = Append(@, req)]
      /\ wait' = [wait EXCEPT ![u] = Append(@, x)]
      /\ UNCHANGED <<hubVars, shown, link, drag, excused>>
  BY DEF Draw, CommitShape, Transmit
<1>3. x.before = db[a]
  <2>1. a \notin Live
    BY DEF Draw, Drawn, SyncInductive, Inductive, IdsAreFresh
  <2> QED
    BY <2>1 DEF Live
<1>4. DragsKept(u, a)
  BY <1>2 DEF DragsKept
<1> HIDE DEF req, x
<1> QED
  BY <1>1, <1>2, <1>3, <1>4, CommitConverges

(* A shape that the tab neither drags nor waits for is shown as it is      *)
(* stored, or will be.                                                     *)
LEMMA FoundUntouched ==
  ASSUME SyncInductive, Convergence, NEW u \in Tabs, Linked(u), NEW a \in Shapes,
         <<u, a>> \notin excused, Untouched(u, a)
  PROVE  Coming(ToTell(u, a), Mail(u), a) \/ view[u][a] = db[a]
<1>1. u \in shown
  BY DEF Convergence, BlankSound
<1>2. Shows(ToTell(u, a), view[u][a], db[a], Mail(u), Runs(u), Sends(u), drag[u], a)
  BY <1>1 DEF Convergence, ConvergesAt, Converging
<1>3. ~Unsaved(Mail(u), Runs(u), Sends(u), a)
  BY TabHas, UnsavedIsPending DEF Untouched, Pending
<1>4. ~Held(drag[u], a)
  BY DEF Untouched, Dragging, Held
<1> QED
  BY <1>2, <1>3, <1>4 DEF Shows

LEMMA EditFillConverges ==
  ASSUME SyncInductive, Convergence, NEW u \in Tabs, NEW a \in Shapes, NEW fill \in Fills,
         EditFill(u, a, fill)
  PROVE  Convergence'
<1> DEFINE updated == [view[u][a] EXCEPT !.fill = fill]
           req == [op |-> "update", id |-> a, dto |-> ShapeUpdate(updated)]
           x == [op |-> "update", id |-> a, undo |-> view[u][a], before |-> view[u][a],
                 clean |-> Untouched(u, a)]
<1>1. view[u][a] \in Row
  BY DEF EditFill, SyncInductive, TabsInductive, TabTypes
<1>2. ShapeUpdate(updated) \in Changes
  <2>1. updated \in Row
    BY <1>1 DEF Row
  <2> HIDE DEF updated
  <2> QED
    BY <2>1, SyncAssumption DEF ShapeUpdate
<1>3. Untouched(u, a) \in BOOLEAN
  BY DEF Untouched, Pending, Dragging
<1>4. /\ Linked(u) /\ view' = [view EXCEPT ![u][a] = updated]
      /\ sent' = [sent EXCEPT ![link[u]] = Append(@, req)]
      /\ wait' = [wait EXCEPT ![u] = Append(@, x)]
      /\ UNCHANGED <<hubVars, shown, link, drag, excused>>
  BY DEF EditFill, CommitShape, Transmit
<1> HIDE DEF updated
<1>5. req \in Requests /\ x \in Commit /\ SentFor(req, x) /\ req.op \in ShapeOps /\ req.id = a
  BY <1>1, <1>2, <1>3 DEF Requests, Commit, SentFor, ShapeOps
<1>6. <<u, a>> \notin excused /\ x.clean => Coming(ToTell(u, a), Mail(u), a) \/ x.before = db[a]
  BY <1>4, FoundUntouched
<1>7. DragsKept(u, a)
  BY <1>4 DEF DragsKept
<1> HIDE DEF req, x
<1> QED
  BY <1>4, <1>5, <1>6, <1>7, CommitConverges

LEMMA RemoveShapeConverges ==
  ASSUME SyncInductive, Convergence, NEW u \in Tabs, NEW a \in Shapes, RemoveShape(u, a)
  PROVE  Convergence'
<1> DEFINE req == [op |-> "delete", id |-> a, dto |-> Absent]
           x == [op |-> "delete", id |-> a, undo |-> view[u][a], before |-> view[u][a],
                 clean |-> Untouched(u, a)]
<1>1. view[u][a] \in Row
  BY DEF RemoveShape, SyncInductive, TabsInductive, TabTypes
<1>2. Untouched(u, a) \in BOOLEAN
  BY DEF Untouched, Pending, Dragging
<1>3. req \in Requests /\ x \in Commit /\ SentFor(req, x) /\ req.op \in ShapeOps /\ req.id = a
  BY <1>1, <1>2 DEF Requests, Commit, SentFor, ShapeOps
<1>4. /\ Linked(u) /\ view' = [view EXCEPT ![u][a] = Absent]
      /\ sent' = [sent EXCEPT ![link[u]] = Append(@, req)]
      /\ wait' = [wait EXCEPT ![u] = Append(@, x)]
      /\ UNCHANGED <<hubVars, shown, link, excused>>
  BY DEF RemoveShape, CommitShape, Transmit
<1>5. <<u, a>> \notin excused /\ x.clean => Coming(ToTell(u, a), Mail(u), a) \/ x.before = db[a]
  BY <1>4, FoundUntouched
<1>6. /\ \A t \in Tabs : t # u => drag'[t] = drag[t]
      /\ \A s \in Shapes :
           Held(drag'[u], s) <=> Held(drag[u], s)
      /\ drag[u] # NoDrag => drag'[u].clean = drag[u].clean /\ drag'[u].orig = drag[u].orig
  <2>1. CASE Dragging(u, a)
    <3> DEFINE g == [drag[u] EXCEPT !.selected = FALSE]
    <3>1. drag[u] \in Drag /\ drag' = [drag EXCEPT ![u] = g]
      BY <2>1 DEF RemoveShape, Dragging, SyncInductive, TabsInductive, TabTypes
    <3>2. g \in Drag /\ g.id = drag[u].id /\ g.clean = drag[u].clean /\ g.orig = drag[u].orig
      BY <3>1 DEF Drag
    <3> HIDE DEF g
    <3>3. drag'[u] = g /\ \A t \in Tabs : t # u => drag'[t] = drag[t]
      BY <3>1 DEF SyncInductive, TabsInductive, TabTypes
    <3> QED
      BY <2>1, <3>2, <3>3, SyncAssumption DEF Dragging, Held
  <2>2. CASE ~Dragging(u, a)
    BY <2>2 DEF RemoveShape
  <2> QED
    BY <2>1, <2>2
<1>7. DragsKept(u, a)
  BY <1>6 DEF DragsKept, Held
<1> HIDE DEF req, x
<1> QED
  BY <1>3, <1>4, <1>5, <1>7, CommitConverges

(* The end of a drag commits what the drag found.                          *)
LEMMA PointerUpConverges ==
  ASSUME SyncInductive, Convergence, NEW u \in Tabs, PointerUp(u)
  PROVE  Convergence'
<1>0. drag[u] # NoDrag /\ drag[u] \in Drag
  BY DEF PointerUp, SyncInductive, TabsInductive, TabTypes
<1>1. PICK a \in Shapes : a = drag[u].id
  BY <1>0 DEF Drag
<1> DEFINE row == view[u][a]
           req == [op |-> "update", id |-> a, dto |-> ShapeUpdate(row)]
           x == [op |-> "update", id |-> a, undo |-> row, before |-> drag[u].orig,
                 clean |-> drag[u].clean]
<1>2. drag[u].orig \in Row /\ drag[u].clean \in BOOLEAN
  BY <1>0 DEF Drag
<1>3. row \in Row
  BY <1>1 DEF PointerUp, DragSends, SyncInductive, TabsInductive, TabTypes
<1>4. ShapeUpdate(row) \in Changes
  <2> HIDE DEF row
  <2> QED
    BY <1>3, SyncAssumption DEF ShapeUpdate
<1>5. /\ Linked(u) /\ view' = [view EXCEPT ![u][a] = row]
      /\ sent' = [sent EXCEPT ![link[u]] = Append(@, req)]
      /\ wait' = [wait EXCEPT ![u] = Append(@, x)]
      /\ drag' = [drag EXCEPT ![u] = NoDrag]
      /\ UNCHANGED <<hubVars, shown, link, excused>>
  BY <1>1 DEF PointerUp, CommitShape, Transmit
<1>6. Held(drag[u], a) /\ \A s \in Shapes : Held(drag[u], s) => s = a
  BY <1>0, <1>1 DEF Held
<1> HIDE DEF row
<1>7. req \in Requests /\ x \in Commit /\ SentFor(req, x) /\ req.op \in ShapeOps /\ req.id = a
  BY <1>2, <1>3, <1>4 DEF Requests, Commit, SentFor, ShapeOps
<1>8. <<u, a>> \notin excused /\ x.clean => Coming(ToTell(u, a), Mail(u), a) \/ x.before = db[a]
  <2>1. u \in shown
    BY <1>0 DEF Convergence, BlankSound
  <2>2. <<u, a>> \notin excused => FoundRight(ToTell(u, a), db[a], wait[u], Mail(u), drag[u], a)
    BY <2>1 DEF Convergence, ConvergesAt, Converging
  <2> QED
    BY <1>6, <2>2 DEF FoundRight
<1>9. drag'[u] = NoDrag /\ \A t \in Tabs : t # u => drag'[t] = drag[t]
  BY <1>5 DEF SyncInductive, TabsInductive, TabTypes
<1>10. \A s \in Shapes : ~Held(drag'[u], s)
  BY <1>9 DEF Held
<1>11. DragsKept(u, a)
  BY <1>6, <1>9, <1>10 DEF DragsKept
<1>12. /\ Linked(u) /\ view' = [view EXCEPT ![u][a] = row]
       /\ sent' = [sent EXCEPT ![link[u]] = Append(@, req)]
       /\ wait' = [wait EXCEPT ![u] = Append(@, x)]
       /\ UNCHANGED <<hubVars, shown, link, excused>>
  BY <1>5
<1> HIDE DEF req, x
<1> QED
  BY <1>7, <1>8, <1>11, <1>12, CommitConverges

-----------------------------------------------------------------------------
(* Convergence: loading, connecting and losing the connection.             *)

LEMMA LoadConverges ==
  ASSUME SyncInductive, Convergence, NEW u \in Tabs, Load(u)
  PROVE  Convergence'
<1>1. /\ u \notin shown /\ shown' = shown \cup {u} /\ view' = [view EXCEPT ![u] = db]
      /\ UNCHANGED <<db, call, outbox, link, sent, wait, drag, excused>>
  BY DEF Load, hubVars
<1>2. /\ view'[u] = db /\ \A t \in Tabs : t # u => view'[t] = view[t]
  BY <1>1 DEF SyncInductive, TabsInductive, TabTypes
<1>3. ~Linked(u) /\ drag[u] = NoDrag /\ wait[u] = <<>>
  BY <1>1 DEF Convergence, BlankSound, SyncInductive, TabsInductive, LinksSound
<1>4. /\ Mail(u)' = <<>> /\ Runs(u)' = NoCall /\ Sends(u)' = <<>>
      /\ \A t \in Tabs : Mail(t)' = Mail(t) /\ Sends(t)' = Sends(t)
  BY <1>1, <1>3 DEF Mail, Runs, Sends, Linked
<1>5. ASSUME NEW s \in Shapes PROVE ConvergesAt(u, s)'
  <2>1. DOMAIN <<>> = {}
    BY EmptySeq
  <2>2. Tells(<<>>, s) = {} /\ Fails(<<>>, s) = {}
    BY <2>1 DEF Tells, Fails
  <2>3. ~Held(NoDrag, s)
    BY DEF Held
  <2>4. ASSUME NEW tell, NEW r
        PROVE  Converging(tell, r, r, <<>>, <<>>, NoCall, <<>>, NoDrag, s)
    BY <2>1, <2>2, <2>3 DEF Converging, Shows, LastTells, FoundRight
  <2>5. view'[u][s] = db'[s] /\ wait'[u] = <<>> /\ drag'[u] = NoDrag
    BY <1>1, <1>2, <1>3
  <2> QED
    BY <1>4, <2>4, <2>5 DEF ConvergesAt
<1>6. \A t \in Tabs : t # u =>
        /\ link'[t] = link[t] /\ view'[t] = view[t] /\ wait'[t] = wait[t]
        /\ drag'[t] = drag[t] /\ Mail(t)' = Mail(t) /\ Sends(t)' = Sends(t)
  BY <1>1, <1>2, <1>4
<1> QED
  BY <1>1, <1>5, <1>6, TabConverges

LEMMA OpenConverges ==
  ASSUME SyncInductive, Convergence, NEW u \in Tabs, NEW c \in Conns, Open(u, c)
  PROVE  Convergence'
<1> DEFINE req == [op |-> "join", id |-> Absent, dto |-> Absent]
           x == [op |-> "join", id |-> Absent, undo |-> Absent, before |-> Absent,
                 clean |-> TRUE]
<1>1. /\ req \in Requests /\ x \in Commit /\ SentFor(req, x) /\ req.op \notin ShapeOps
  BY DEF Requests, GroupOps, ShapeOps, Commit, SentFor
<1>2. /\ u \in shown /\ ~Linked(u) /\ status[c] = "new"
      /\ link' = [link EXCEPT ![u] = c]
      /\ sent' = [sent EXCEPT ![c] = Append(@, req)]
      /\ wait' = [wait EXCEPT ![u] = Append(@, x)]
      /\ UNCHANGED <<db, call, outbox, shown, view, drag, excused>>
  BY DEF Open, Connect, Transmit
<1> HIDE DEF req, x
<1>3. call[c] = NoCall /\ outbox[c] = <<>> /\ sent[c] = <<>>
  BY <1>2 DEF SyncInductive, TabsInductive, NewSound
<1>4. \A t \in Tabs : Linked(t) => link[t] \in Conns /\ link[t] # c
  BY <1>2, LinkType DEF SyncInductive, TabsInductive, TabsKept, TabKept
<1>5. /\ link'[u] = c /\ wait'[u] = Append(wait[u], x) /\ sent'[c] = Append(<<>>, req)
      /\ \A t \in Tabs : t # u => wait'[t] = wait[t] /\ link'[t] = link[t]
      /\ \A d \in Conns : d # c => sent'[d] = sent[d]
  BY <1>2, <1>3 DEF SyncInductive, TabsInductive, TabTypes
<1>6. Mail(u) = <<>> /\ Runs(u) = NoCall /\ Sends(u) = <<>>
  BY <1>2 DEF Mail, Runs, Sends
<1>7. Mail(u)' = Mail(u) /\ Runs(u)' = Runs(u) /\ Sends(u)' = Append(Sends(u), req)
  BY <1>2, <1>3, <1>5, <1>6, SyncAssumption DEF Mail, Runs, Sends, Linked
<1>8. ASSUME NEW t \in Tabs, t # u PROVE Mail(t)' = Mail(t) /\ Sends(t)' = Sends(t)
  BY <1>2, <1>4, <1>5, <1>8 DEF Mail, Sends, Linked
<1>9. ASSUME NEW s \in Shapes, <<u, s>> \notin excused' PROVE ConvergesAt(u, s)'
  <2>1. Converging(ToTell(u, s), view[u][s], db[s], wait[u], Mail(u), Runs(u), Sends(u),
                   drag[u], s)
    BY <1>2, <1>9 DEF Convergence, ConvergesAt
  <2>2. ToTell(u, s) => ToTell(u, s)'
    BY <1>2 DEF ToTell, Telling, Writing, Busy, Linked
  <2>3. Converging(ToTell(u, s)', view[u][s], db[s], Append(wait[u], x), Mail(u), Runs(u),
                   Append(Sends(u), req), drag[u], s)
    BY <1>1, <2>1, <2>2, TabHas, ConvergingCommits
  <2>4. db'[s] = db[s] /\ view'[u][s] = view[u][s] /\ drag'[u] = drag[u]
    BY <1>2
  <2> QED
    BY <1>5, <1>7, <2>3, <2>4 DEF ConvergesAt
<1>10. shown' = shown \cup {u}
  BY <1>2
<1>11. \A t \in Tabs : t # u =>
         /\ link'[t] = link[t] /\ view'[t] = view[t] /\ wait'[t] = wait[t]
         /\ drag'[t] = drag[t] /\ Mail(t)' = Mail(t) /\ Sends(t)' = Sends(t)
  BY <1>2, <1>5, <1>8
<1>12. UNCHANGED <<db, call, excused>>
  BY <1>2
<1> QED
  BY <1>9, <1>10, <1>11, <1>12, TabConverges

(* A shape leaves the selection while it is dragged.                       *)
LEMMA DeselectingKeeps ==
  ASSUME SyncInductive, NEW u \in Tabs,
         drag' = drag \/ (drag[u] # NoDrag /\ drag' = [drag EXCEPT ![u].selected = FALSE])
  PROVE  /\ \A t \in Tabs : t # u => drag'[t] = drag[t]
         /\ \A s : Held(drag'[u], s) <=> Held(drag[u], s)
         /\ \A s : Held(drag[u], s) => drag'[u].clean = drag[u].clean /\ drag'[u].orig = drag[u].orig
<1>1. CASE drag' = drag
  BY <1>1
<1>2. CASE drag[u] # NoDrag /\ drag' = [drag EXCEPT ![u].selected = FALSE]
  <2> DEFINE g == [drag[u] EXCEPT !.selected = FALSE]
  <2>1. drag[u] \in Drag /\ drag' = [drag EXCEPT ![u] = g]
    BY <1>2 DEF SyncInductive, TabsInductive, TabTypes
  <2>2. g \in Drag /\ g.id = drag[u].id /\ g.clean = drag[u].clean /\ g.orig = drag[u].orig
    BY <2>1 DEF Drag
  <2> HIDE DEF g
  <2>3. drag'[u] = g /\ \A t \in Tabs : t # u => drag'[t] = drag[t]
    BY <2>1 DEF SyncInductive, TabsInductive, TabTypes
  <2> QED
    BY <1>2, <2>2, <2>3, SyncAssumption DEF Held
<1> QED
  BY <1>1, <1>2

(* Nothing on the shape is under way between the tab and the hub, and then *)
(* the link is gone.                                                       *)
LEMMA StrandedConverges ==
  ASSUME NEW tell, NEW v, NEW r, NEW w, NEW o, NEW k, NEW q, NEW g, NEW s,
         Converging(tell, v, r, w, o, k, q, g, s), ~Unsaved(o, k, q, s), Tells(o, s) = {},
         NEW tell2, tell => tell2,
         NEW g2, Held(g2, s) <=> Held(g, s),
         Held(g, s) => g2.clean = g.clean /\ g2.orig = g.orig
  PROVE  Converging(tell2, v, r, <<>>, <<>>, NoCall, <<>>, g2, s)
<1>1. DOMAIN <<>> = {}
  BY EmptySeq
<1>2. Tells(<<>>, s) = {} /\ Fails(<<>>, s) = {}
  BY <1>1 DEF Tells, Fails
<1> QED
  BY <1>1, <1>2 DEF Converging, Shows, LastTells, FoundRight, Coming

LEMMA LinkLostConverges ==
  ASSUME SyncInductive, Convergence, NEW u \in Tabs, LinkLost(u)
  PROVE  Convergence'
<1>1. Linked(u) /\ link[u] \in Conns /\ u \in shown
  BY LinkType DEF LinkLost, Convergence, BlankSound, SyncInductive, TabsInductive
<1>2. /\ outbox' = [outbox EXCEPT ![link[u]] = <<>>] /\ UNCHANGED <<db, call>>
      /\ link' = [link EXCEPT ![u] = NoConn] /\ sent' = [sent EXCEPT ![link[u]] = <<>>]
      /\ wait' = [wait EXCEPT ![u] = <<>>]
      /\ excused' = excused \cup ({u} \X Stranded(u)) /\ shown' = shown
  BY DEF LinkLost, Drop
<1>3. \A t \in Tabs : t # u => view'[t] = view[t]
  BY DEF LinkLost, SyncInductive, TabsInductive, TabTypes
<1>4. \A t \in Tabs : t # u => drag'[t] = drag[t]
  <2>1. drag' = drag \/ drag' = [drag EXCEPT ![u].selected = FALSE]
    BY DEF LinkLost
  <2> QED
    BY <2>1 DEF SyncInductive, TabsInductive, TabTypes
<1>5. ASSUME NEW t \in Tabs, t # u
      PROVE  /\ link'[t] = link[t] /\ wait'[t] = wait[t]
             /\ Mail(t)' = Mail(t) /\ Sends(t)' = Sends(t)
  <2>1. Linked(t) => link[t] \in Conns /\ link[t] # link[u]
    BY <1>1, <1>5, LinkType DEF SyncInductive, TabsInductive, LinksSound
  <2>2. link'[t] = link[t] /\ wait'[t] = wait[t]
    BY <1>2, <1>5 DEF SyncInductive, TabsInductive, TabTypes
  <2>3. Linked(t) => outbox'[link[t]] = outbox[link[t]] /\ sent'[link[t]] = sent[link[t]]
    BY <1>2, <2>1 DEF SyncInductive, Inductive, TypeOK, TabsInductive, TabTypes
  <2> QED
    BY <2>2, <2>3 DEF Mail, Sends, Linked
<1>6. ASSUME NEW s \in Shapes, <<u, s>> \notin excused' PROVE ConvergesAt(u, s)'
  <2>1. s \notin Stranded(u) /\ <<u, s>> \notin excused
    BY <1>2, <1>6
  <2>2. /\ wait[u] \in Seq(Commit) /\ Mail(u) \in Seq(Message) /\ Sends(u) \in Seq(Requests)
        /\ Agree(wait[u], Mail(u), Runs(u), Sends(u))
    BY TabHas
  <2>3. CommitsOn(u, s) = {}
    BY <2>1 DEF Stranded
  <2>4. ~Unsaved(Mail(u), Runs(u), Sends(u), s)
    <3> SUFFICES ASSUME Unsaved(Mail(u), Runs(u), Sends(u), s) PROVE FALSE
      OBVIOUS
    <3>1. PICK i \in DOMAIN wait[u] : wait[u][i].id = s
      BY <2>2, UnsavedIsPending
    <3>2. wait[u][i] \in Commit
      BY <2>2, ElementOfSeq, LenProperties
    <3>3. wait[u][i].op # "join"
      BY <3>1, <3>2, HubAssumption DEF Commit
    <3> QED
      BY <2>3, <3>1, <3>3 DEF CommitsOn
  <2>5. Tells(Mail(u), s) = {}
    BY <1>1, <2>1 DEF Stranded, Tells, Mail
  <2>6. ASSUME ToTell(u, s) PROVE ToTell(u, s)'
    <3>1. PICK d \in Conns : Telling(d, u, s)
      BY <2>6 DEF ToTell
    <3>2. call[d].step = "cast"
      BY <1>1, <2>1, <3>1 DEF Stranded, Telling, Writing, Busy
    <3>3. Telling(d, u, s)'
      BY <1>2, <3>1, <3>2 DEF Telling, Writing, Busy
    <3> QED
      BY <3>3 DEF ToTell
  <2>7. Converging(ToTell(u, s), view[u][s], db[s], wait[u], Mail(u), Runs(u), Sends(u), drag[u], s)
    BY <1>1, <2>1 DEF Convergence, ConvergesAt
  <2>8. view'[u][s] = view[u][s]
    BY <1>1, <2>3 DEF LinkLost, SyncInductive, TabsInductive, TabTypes
  <2>9. \/ drag' = drag
        \/ drag[u] # NoDrag /\ drag' = [drag EXCEPT ![u].selected = FALSE]
    BY DEF LinkLost
  <2>10. /\ Held(drag'[u], s) <=> Held(drag[u], s)
         /\ Held(drag[u], s) => drag'[u].clean = drag[u].clean /\ drag'[u].orig = drag[u].orig
    BY <2>9, DeselectingKeeps
  <2>11. /\ wait'[u] = <<>> /\ Mail(u)' = <<>> /\ Runs(u)' = NoCall /\ Sends(u)' = <<>>
         /\ db' = db
    BY <1>2 DEF Mail, Runs, Sends, Linked, SyncInductive, TabsInductive, TabTypes
  <2>12. Converging(ToTell(u, s)', view'[u][s], db[s], <<>>, <<>>, NoCall, <<>>, drag'[u], s)
    BY <2>4, <2>5, <2>6, <2>7, <2>8, <2>10, StrandedConverges
  <2> QED
    BY <2>11, <2>12 DEF ConvergesAt
<1>7. shown' = shown \cup {u} /\ excused \subseteq excused' /\ UNCHANGED <<db, call>>
  BY <1>1, <1>2
<1>8. \A t \in Tabs : t # u =>
        /\ link'[t] = link[t] /\ view'[t] = view[t] /\ wait'[t] = wait[t]
        /\ drag'[t] = drag[t] /\ Mail(t)' = Mail(t) /\ Sends(t)' = Sends(t)
  BY <1>3, <1>4, <1>5
<1> QED
  BY <1>6, <1>7, <1>8, TabConverges

-----------------------------------------------------------------------------
(* Convergence: the messages.                                              *)

(* Tab u handles the oldest message on its connection.                     *)
LEMMA MessageConverges ==
  ASSUME SyncInductive, Convergence, NEW u \in Tabs, Linked(u), Receive(link[u]),
         UNCHANGED <<shown, link, sent>>, excused \subseteq excused',
         \A t \in Tabs : t # u =>
           view'[t] = view[t] /\ wait'[t] = wait[t] /\ drag'[t] = drag[t],
         \A s \in Shapes : <<u, s>> \notin excused' =>
           Converging(ToTell(u, s), view'[u][s], db[s], wait'[u], Tail(Mail(u)), Runs(u), Sends(u),
                      drag'[u], s)
  PROVE  Convergence'
<1>1. link[u] \in Conns /\ u \in shown
  BY LinkType DEF Convergence, BlankSound, SyncInductive, TabsInductive
<1>2. UNCHANGED <<db, call>> /\ outbox' = [outbox EXCEPT ![link[u]] = Tail(@)]
  BY DEF Receive
<1>3. /\ outbox'[link[u]] = Tail(outbox[link[u]])
      /\ \A d \in Conns : d # link[u] => outbox'[d] = outbox[d]
  BY <1>1, <1>2 DEF SyncInductive, Inductive, TypeOK
<1>4. Mail(u)' = Tail(Mail(u)) /\ Runs(u)' = Runs(u) /\ Sends(u)' = Sends(u)
  BY <1>2, <1>3 DEF Mail, Runs, Sends, Linked
<1>5. ASSUME NEW t \in Tabs, t # u PROVE Mail(t)' = Mail(t) /\ Sends(t)' = Sends(t)
  <2>1. Linked(t) => link[t] \in Conns /\ link[t] # link[u]
    BY <1>5, LinkType DEF SyncInductive, TabsInductive, LinksSound
  <2> QED
    BY <1>3, <2>1 DEF Mail, Sends, Linked
<1>6. ASSUME NEW s \in Shapes, <<u, s>> \notin excused' PROVE ConvergesAt(u, s)'
  <2>1. ToTell(u, s)' = ToTell(u, s)
    BY <1>2 DEF ToTell, Telling, Writing, Busy, Linked
  <2>2. db'[s] = db[s]
    BY <1>2
  <2> QED
    BY <1>4, <1>6, <2>1, <2>2 DEF ConvergesAt
<1>7. shown' = shown \cup {u} /\ \A t \in Tabs : link'[t] = link[t]
  BY <1>1
<1>8. UNCHANGED <<db, call>>
  BY <1>2
<1> QED
  BY <1>5, <1>6, <1>7, <1>8, TabConverges

LEMMA EventConverges ==
  ASSUME SyncInductive, Convergence, NEW u \in Tabs, Linked(u), Receive(link[u]),
         ApplyEvent(u, Head(outbox[link[u]])), UNCHANGED <<shown, link, sent>>
  PROVE  Convergence'
<1> DEFINE o == outbox[link[u]]
           m == Head(o)
           w == wait[u]
           w2 == [i \in DOMAIN w |-> IF w[i].id = m.id THEN [w[i] EXCEPT !.clean = FALSE]
                                     ELSE w[i]]
<1>1. o # <<>> /\ link[u] \in Conns /\ m \in Told /\ o = Mail(u) /\ u \in shown
  BY MessageType DEF Receive, SyncInductive, Mail, Convergence, BlankSound
<1>2. /\ m.kind \in Events /\ view' = [view EXCEPT ![u][m.id] = m.row]
      /\ wait' = [wait EXCEPT ![u] = w2] /\ excused' = excused
  BY DEF ApplyEvent
<1>3. m.id \in Shapes
  BY <1>1, <1>2 DEF Told, Message, Events
<1>4. /\ \A s \in Shapes : view'[u][s] = IF m.id = s THEN m.row ELSE view[u][s]
      /\ \A t \in Tabs : t # u => view'[t] = view[t] /\ wait'[t] = wait[t]
      /\ wait'[u] = w2
  BY <1>2, <1>3 DEF SyncInductive, TabsInductive, TabTypes
<1>5. /\ w \in Seq(Commit) /\ DOMAIN w2 = DOMAIN w
      /\ \A i \in DOMAIN w : /\ w2[i].id = w[i].id
                             /\ w[i].id = m.id => ~w2[i].clean
                             /\ w[i].id # m.id => w2[i] = w[i]
  <2>1. w \in Seq(Commit) /\ DOMAIN w2 = DOMAIN w
    BY TabHas
  <2>2. ASSUME NEW i \in DOMAIN w
        PROVE  /\ w2[i].id = w[i].id
               /\ w[i].id = m.id => ~w2[i].clean
               /\ w[i].id # m.id => w2[i] = w[i]
    <3>1. w[i] \in Commit
      BY <2>1, SeqElements
    <3> QED
      BY <3>1, TouchedType
  <2> QED
    BY <2>1, <2>2
<1> HIDE DEF w2
<1>6. /\ \A t \in Tabs : t # u => drag'[t] = drag[t]
      /\ Dragging(u, m.id) =>
           /\ drag'[u] # NoDrag /\ drag'[u].id = drag[u].id /\ ~drag'[u].clean
      /\ ~Dragging(u, m.id) => drag'[u] = drag[u]
  <2>1. CASE Dragging(u, m.id)
    <3> DEFINE sel == drag[u].selected /\ m.kind # "deleted"
               g == [drag[u] EXCEPT !.clean = FALSE, !.selected = sel]
    <3>1. drag[u] \in Drag
      BY <2>1 DEF Dragging, SyncInductive, TabsInductive, TabTypes
    <3>2. drag' = [drag EXCEPT ![u].clean = FALSE, ![u].selected = @ /\ m.kind # "deleted"]
      BY <2>1 DEF ApplyEvent
    <3>3. drag' = [drag EXCEPT ![u] = g]
      BY <3>1, <3>2 DEF SyncInductive, TabsInductive, TabTypes, Drag
    <3>4. sel \in BOOLEAN
      OBVIOUS
    <3> HIDE DEF sel
    <3>5. g \in Drag /\ g.id = drag[u].id /\ ~g.clean
      BY <3>1, <3>4 DEF Drag
    <3> HIDE DEF g
    <3>6. drag'[u] = g /\ \A t \in Tabs : t # u => drag'[t] = drag[t]
      BY <3>3 DEF SyncInductive, TabsInductive, TabTypes
    <3> QED
      BY <2>1, <3>5, <3>6, SyncAssumption
  <2>2. CASE ~Dragging(u, m.id)
    BY <2>2 DEF ApplyEvent
  <2> QED
    BY <2>1, <2>2
<1>7. ASSUME NEW s \in Shapes, <<u, s>> \notin excused'
      PROVE  Converging(ToTell(u, s), view'[u][s], db[s], wait'[u], Tail(Mail(u)), Runs(u), Sends(u),
                        drag'[u], s)
  <2>1. Converging(ToTell(u, s), view[u][s], db[s], wait[u], Mail(u), Runs(u), Sends(u),
                   drag[u], s)
    BY <1>1, <1>2, <1>7 DEF Convergence, ConvergesAt
  <2>2. /\ Held(drag'[u], s) <=> Held(drag[u], s)
        /\ Held(drag[u], s) /\ m.id = s => ~drag'[u].clean
        /\ Held(drag[u], s) /\ m.id # s
             => drag'[u].clean = drag[u].clean /\ drag'[u].orig = drag[u].orig
    BY <1>6 DEF Held, Dragging
  <2>3. view'[u][s] = IF m.id = s THEN m.row ELSE view[u][s]
    BY <1>4
  <2>4. /\ Mail(u) \in Seq(Message) /\ Sends(u) \in Seq(Requests)
        /\ Agree(w, Mail(u), Runs(u), Sends(u))
    BY TabHas
  <2>5. Converging(ToTell(u, s), view'[u][s], db[s], w2, Tail(Mail(u)), Runs(u), Sends(u),
                   drag'[u], s)
    BY <1>1, <1>2, <1>5, <2>1, <2>2, <2>3, <2>4, ConvergingShown
  <2> QED
    BY <1>4, <2>5
<1>8. \A t \in Tabs : t # u => view'[t] = view[t] /\ wait'[t] = wait[t] /\ drag'[t] = drag[t]
  BY <1>4, <1>6
<1>9. excused \subseteq excused'
  BY <1>2
<1> QED
  BY <1>7, <1>8, <1>9, MessageConverges

LEMMA AnswerConverges ==
  ASSUME SyncInductive, Convergence, NEW u \in Tabs, Linked(u), Receive(link[u]),
         LET m == Head(outbox[link[u]]) IN CallSucceeds(u, m) \/ CallFails(u, m),
         UNCHANGED <<shown, link, sent>>
  PROVE  Convergence'
<1> DEFINE o == outbox[link[u]]
           m == Head(o)
           w == wait[u]
           x == Head(w)
<1>1. o # <<>> /\ link[u] \in Conns /\ m \in Told /\ o = Mail(u) /\ u \in shown
  BY MessageType DEF Receive, SyncInductive, Mail, Convergence, BlankSound
<1>2. x.id = m.id /\ w # <<>>
  BY AnswerKeeps DEF SyncInductive
<1>3. CallSucceeds(u, m) \/ CallFails(u, m)
  OBVIOUS
<1>4. m.kind \notin Events /\ wait' = [wait EXCEPT ![u] = Tail(w)] /\ excused \subseteq excused'
  BY <1>3 DEF CallSucceeds, CallFails, Events
<1> HIDE DEF x, m
<1>5. /\ m.kind # "error" => view' = view /\ drag' = drag /\ excused' = excused
      /\ m.kind = "error" =>
           /\ m.id \in Shapes /\ view' = [view EXCEPT ![u][m.id] = x.undo]
           /\ drag' = drag \/ (drag[u] # NoDrag /\ drag' = [drag EXCEPT ![u].selected = FALSE])
           /\ ~(x.clean /\ x.undo = x.before) => <<u, m.id>> \in excused'
  <2>1. CASE CallSucceeds(u, m)
    BY <2>1 DEF CallSucceeds
  <2>2. CASE CallFails(u, m)
    <3>1. m.id \in Shapes
      BY <1>1, <2>2 DEF CallFails, Told, m
    <3> QED
      BY <1>2, <2>2, <3>1 DEF CallFails, Dragging, x
  <2> QED
    BY <1>3, <2>1, <2>2
<1>6. /\ wait'[u] = Tail(w) /\ \A t \in Tabs : t # u => wait'[t] = wait[t]
  BY <1>4 DEF SyncInductive, TabsInductive, TabTypes
<1>7. /\ \A t \in Tabs : t # u => view'[t] = view[t]
      /\ \A s \in Shapes :
           view'[u][s] = IF m.kind = "error" /\ m.id = s THEN x.undo ELSE view[u][s]
  BY <1>5 DEF SyncInductive, TabsInductive, TabTypes
<1>8. /\ \A t \in Tabs : t # u => drag'[t] = drag[t]
      /\ \A s : Held(drag'[u], s) <=> Held(drag[u], s)
      /\ \A s : Held(drag[u], s) => drag'[u].clean = drag[u].clean /\ drag'[u].orig = drag[u].orig
  BY <1>5, DeselectingKeeps
<1>9. ASSUME NEW s \in Shapes, <<u, s>> \notin excused'
      PROVE  Converging(ToTell(u, s), view'[u][s], db[s], wait'[u], Tail(Mail(u)), Runs(u), Sends(u),
                        drag'[u], s)
  <2>1. Converging(ToTell(u, s), view[u][s], db[s], w, Mail(u), Runs(u), Sends(u), drag[u], s)
    BY <1>1, <1>4, <1>9 DEF Convergence, ConvergesAt
  <2>2. /\ m.kind = "error" /\ m.id = s =>
             view'[u][s] = x.undo /\ x.clean /\ x.undo = x.before
        /\ ~(m.kind = "error" /\ m.id = s) => view'[u][s] = view[u][s]
    BY <1>5, <1>7, <1>9
  <2>3. /\ w \in Seq(Commit) /\ Mail(u) \in Seq(Message) /\ Sends(u) \in Seq(Requests)
        /\ Agree(w, Mail(u), Runs(u), Sends(u))
    BY TabHas
  <2>4. m = Head(Mail(u)) /\ x = Head(w) /\ Mail(u) # <<>>
    BY <1>1 DEF m, x
  <2>5. /\ Held(drag'[u], s) <=> Held(drag[u], s)
        /\ Held(drag[u], s) => drag'[u].clean = drag[u].clean /\ drag'[u].orig = drag[u].orig
    BY <1>8
  <2>6. Converging(ToTell(u, s), view'[u][s], db[s], Tail(w), Tail(Mail(u)), Runs(u), Sends(u),
                   drag'[u], s)
    BY <1>4, <2>1, <2>2, <2>3, <2>4, <2>5, ConvergingSettles
  <2> QED
    BY <1>6, <2>6
<1>10. \A t \in Tabs : t # u => view'[t] = view[t] /\ wait'[t] = wait[t] /\ drag'[t] = drag[t]
  BY <1>6, <1>7, <1>8
<1> QED
  BY <1>4, <1>9, <1>10, MessageConverges

LEMMA HandleConverges ==
  ASSUME SyncInductive, Convergence, NEW u \in Tabs, Handle(u)
  PROVE  Convergence'
BY EventConverges, AnswerConverges DEF Handle

-----------------------------------------------------------------------------
(* Convergence: the hub.                                                   *)

(* Call c becomes k; the others stay.                                      *)
CallGoes(c, k) == call'[c] = k /\ \A d \in Conns : d # c => call'[d] = call[d]

LEMMA CallGoesOn ==
  ASSUME TypeOK, NEW c \in Conns, NEW k, call' = [call EXCEPT ![c] = k]
  PROVE  CallGoes(c, k)
BY DEF CallGoes, TypeOK

(* What is announced of a call.                                            *)
Announced(k) == IF k.req.op = "delete" THEN Absent ELSE k.row

(* Nothing contends for the shape after a step of call c that does not     *)
(* change it, and reads it or goes on with what it announced.              *)
LEMMA StaysUncontended ==
  ASSUME NEW s, Uncontended(s), db'[s] = db[s], NEW c \in Conns, NEW k, CallGoes(c, k),
         Writing(c, s)' => Writing(c, s) /\ Announced(k) = Announced(call[c]),
         Saving(c, s)' => k.row = db[s]
  PROVE  Uncontended(s)'
<1>1. \A d \in Conns : d # c => (Writing(d, s)' <=> Writing(d, s)) /\ (Saving(d, s)' <=> Saving(d, s))
  BY DEF CallGoes, Writing, Saving, Busy
<1>2. \A d \in Conns : Writing(d, s)' => Writing(d, s)
  BY <1>1
<1>3. \A d \in Conns : Event(d).row = Announced(call[d]) /\ Event(d)'.row = Announced(call'[d])
  BY DEF Event, Announced
<1>4. \A d \in Conns : Writing(d, s)' => Event(d)'.row = db'[s]
  BY <1>1, <1>3 DEF CallGoes, Uncontended
<1>5. \A d \in Conns : Saving(d, s)' => call'[d].row = db'[s]
  BY <1>1 DEF CallGoes, Uncontended
<1> QED
  BY <1>2, <1>4, <1>5 DEF Uncontended

(* What call c still has to tell a tab, it still has to tell it.           *)
LEMMA StaysToTell ==
  ASSUME NEW c \in Conns, NEW k, CallGoes(c, k), link' = link, NEW t, NEW s,
         Telling(c, t, s) => Telling(c, t, s)'
  PROVE  ToTell(t, s) => ToTell(t, s)'
<1>1. \A d \in Conns : d # c => (Telling(d, t, s) => Telling(d, t, s)')
  BY DEF CallGoes, Telling, Writing, Busy, Linked
<1> QED
  BY <1>1 DEF ToTell

(* A tab that is about to be told.                                         *)
LEMMA ToldConverges ==
  ASSUME NEW t, NEW s, ToTell(t, s)'
  PROVE  ConvergesAt(t, s)'
<1>1. ToTell(t, s)' = TRUE
  BY DEF ToTell
<1> QED
  BY <1>1, ConvergingTold DEF ConvergesAt

(* A tab that is told nothing by a step.                                   *)
LEMMA SilentConverges ==
  ASSUME NEW t, NEW s, ConvergesAt(t, s), UNCHANGED <<view, wait, drag>>, db'[s] = db[s],
         ToTell(t, s) => ToTell(t, s)', Mail(t)' = Mail(t),
         Unsaved(Mail(t), Runs(t), Sends(t), s) => Unsaved(Mail(t), Runs(t)', Sends(t)', s)
  PROVE  ConvergesAt(t, s)'
<1>1. Converging(ToTell(t, s)', view[t][s], db[s], wait[t], Mail(t), Runs(t)', Sends(t)', drag[t], s)
  BY ConvergingRuns DEF ConvergesAt
<1> QED
  BY <1>1 DEF ConvergesAt

(* A tab that is told something by a step, which ends or goes on with its  *)
(* call.                                                                   *)
LEMMA WrittenConverges ==
  ASSUME SyncInductive, NEW t \in Tabs, NEW s, ConvergesAt(t, s),
         UNCHANGED <<view, wait, drag, link, sent>>, db'[s] = db[s],
         NEW m \in Message, ~(m.kind \in Events /\ m.id = s), Mail(t)' = Append(Mail(t), m),
         ToTell(t, s) => ToTell(t, s)',
         \/ Runs(t)' = Runs(t)
         \/ Runs(t) # NoCall /\ m.kind = "error" /\ m.id = Runs(t).req.id
         \/ Runs(t).step = "fan"
  PROVE  ConvergesAt(t, s)'
<1>1. Mail(t) \in Seq(Message)
  BY TabHas
<1>2. Unsaved(Mail(t), Runs(t), Sends(t), s) => Unsaved(Append(Mail(t), m), Runs(t)', Sends(t), s)
  BY <1>1, UnsavedWritten
<1>3. Converging(ToTell(t, s)', view[t][s], db[s], wait[t], Append(Mail(t), m), Runs(t)', Sends(t),
                 drag[t], s)
  BY <1>1, <1>2, ConvergingWritten DEF ConvergesAt
<1>4. Sends(t)' = Sends(t)
  BY DEF Sends, Linked
<1> QED
  BY <1>3, <1>4 DEF ConvergesAt

(* A step of the hub: for every shape and tab that is not excused.         *)
LEMMA HubConverges ==
  ASSUME Convergence, UNCHANGED <<shown, link, view, wait, drag>>, excused \subseteq excused',
         \A s \in Shapes, t \in Tabs :
           /\ <<t, s>> \notin excused' /\ Uncontended(s) => Uncontended(s)'
           /\ <<t, s>> \notin excused' /\ Uncontended(s) /\ t \in shown /\ ConvergesAt(t, s)
                => ConvergesAt(t, s)'
  PROVE  Convergence'
<1>1. BlankSound'
  BY DEF Convergence, BlankSound, Linked
<1> QED
  BY <1>1 DEF Convergence

(* The connection of another tab is not that of call c.                    *)
LEMMA TabOfCall ==
  ASSUME SyncInductive, NEW t \in Tabs, Linked(t)
  PROVE  /\ link[t] \in Conns /\ status[link[t]] = "open"
         /\ Mail(t) = outbox[link[t]] /\ Runs(t) = call[link[t]] /\ Sends(t) = sent[link[t]]
         /\ link' = link => /\ Mail(t)' = outbox'[link[t]] /\ Runs(t)' = call'[link[t]]
                            /\ Sends(t)' = sent'[link[t]]
<1>1. link[t] \in Conns /\ status[link[t]] = "open"
  BY LinkType DEF SyncInductive, TabsInductive, TabsKept, TabKept
<1> QED
  BY <1>1 DEF Mail, Runs, Sends, Linked

LEMMA UnlinkedHas ==
  ASSUME NEW t, ~Linked(t), link' = link
  PROVE  /\ Mail(t)' = Mail(t) /\ Runs(t)' = Runs(t) /\ Sends(t)' = Sends(t)
BY DEF Mail, Runs, Sends, Linked

(* The hub takes up a call.                                                *)
LEMMA DispatchConverges ==
  ASSUME SyncInductive, Convergence, NEW c \in Conns, Dispatch(c)
  PROVE  Convergence'
<1> DEFINE k == [step |-> "check", req |-> Head(sent[c]), row |-> Absent, to |-> {}]
<1>1. /\ sent[c] # <<>> /\ call[c] = NoCall /\ call' = [call EXCEPT ![c] = k]
      /\ sent' = [sent EXCEPT ![c] = Tail(@)]
      /\ UNCHANGED <<db, outbox, shown, link, view, wait, drag, excused>>
  BY DEF Dispatch, Begin
<1>2. sent[c] \in Seq(Requests) /\ k.step = "check" /\ k.req = Head(sent[c]) /\ k # NoCall
  <2>1. sent[c] \in Seq(Requests)
    BY DEF SyncInductive, TabsInductive, TabTypes
  <2>2. Head(sent[c]) \in Requests
    BY <1>1, <2>1, HeadTailProperties
  <2>3. k \in Call
    BY <2>2 DEF Call
  <2> QED
    BY <2>1, <2>3, HubAssumption
<1> HIDE DEF k
<1>3. CallGoes(c, k)
  BY <1>1, CallGoesOn DEF SyncInductive, Inductive
<1>4. sent'[c] = Tail(sent[c]) /\ \A d \in Conns : d # c => sent'[d] = sent[d]
  BY <1>1 DEF SyncInductive, TabsInductive, TabTypes
<1>5. \A s : /\ ~Writing(c, s) /\ ~(Writing(c, s)') /\ ~(Saving(c, s)')
  BY <1>1, <1>2, <1>3 DEF Writing, Saving, Busy, CallGoes
<1>6. ASSUME NEW s \in Shapes, Uncontended(s) PROVE Uncontended(s)'
  BY <1>1, <1>3, <1>5, <1>6, StaysUncontended
<1>7. ASSUME NEW s \in Shapes, NEW t \in Tabs, ConvergesAt(t, s) PROVE ConvergesAt(t, s)'
  <2>1. ToTell(t, s) => ToTell(t, s)'
    BY <1>1, <1>3, <1>5, StaysToTell DEF Telling
  <2>2. CASE Linked(t) /\ link[t] = c
    <3>1. /\ Mail(t)' = Mail(t) /\ Runs(t) = NoCall /\ Runs(t)' = k
          /\ Sends(t) = sent[c] /\ Sends(t)' = Tail(sent[c])
      BY <1>1, <1>3, <1>4, <2>2, TabOfCall DEF CallGoes
    <3>2. Unsaved(Mail(t), NoCall, sent[c], s) => Unsaved(Mail(t), k, Tail(sent[c]), s)
      BY <1>1, <1>2, UnsavedDispatched
    <3> QED
      BY <1>1, <1>7, <2>1, <3>1, <3>2, SilentConverges
  <2>3. CASE Linked(t) /\ link[t] # c
    <3>1. /\ Mail(t)' = Mail(t) /\ Runs(t)' = Runs(t) /\ Sends(t)' = Sends(t)
      BY <1>1, <1>3, <1>4, <2>3, TabOfCall DEF CallGoes
    <3> QED
      BY <1>1, <1>7, <2>1, <3>1, SilentConverges
  <2>4. CASE ~Linked(t)
    BY <1>1, <1>7, <2>1, <2>4, UnlinkedHas, SilentConverges
  <2> QED
    BY <2>2, <2>3, <2>4
<1>8. UNCHANGED <<shown, link, view, wait, drag>> /\ excused \subseteq excused'
  BY <1>1
<1> QED
  BY <1>6, <1>7, <1>8, HubConverges

(* The fields of a call that has gone on: to a step, with a row it has     *)
(* read, or with others to tell.                                           *)
WithRow(k, step, row) == [k EXCEPT !.step = step, !.row = row]
WithTo(k, step, to) == [k EXCEPT !.step = step, !.to = to]

LEMMA CallGoesTo ==
  ASSUME NEW k \in Call, NEW step \in {"check", "save", "cast", "fan"}
  PROVE  LET l == [k EXCEPT !.step = step] IN
         l # NoCall /\ l.step = step /\ l.req = k.req /\ l.row = k.row /\ l.to = k.to
<1> DEFINE l == [k EXCEPT !.step = step]
<1>1. l \in Call
  BY CallType
<1>2. l.step = step /\ l.req = k.req /\ l.row = k.row /\ l.to = k.to
  BY DEF Call
<1> HIDE DEF l
<1>3. l # NoCall
  BY <1>1, HubAssumption
<1> QED
  BY <1>2, <1>3 DEF l

LEMMA CallReads ==
  ASSUME NEW k \in Call, NEW step \in {"check", "save", "cast", "fan"},
         NEW row \in Row \cup {Absent}
  PROVE  LET l == WithRow(k, step, row) IN
         l # NoCall /\ l.step = step /\ l.req = k.req /\ l.row = row /\ l.to = k.to
<1> DEFINE l == WithRow(k, step, row)
<1>1. l \in Call
  BY CallType DEF WithRow
<1>2. l.step = step /\ l.req = k.req /\ l.row = row /\ l.to = k.to
  BY DEF Call, WithRow
<1> HIDE DEF l
<1>3. l # NoCall
  BY <1>1, HubAssumption
<1> QED
  BY <1>2, <1>3 DEF l

LEMMA CallTells ==
  ASSUME NEW k \in Call, NEW step \in {"check", "save", "cast", "fan"}, NEW to, to \subseteq Conns
  PROVE  LET l == WithTo(k, step, to) IN
         l # NoCall /\ l.step = step /\ l.req = k.req /\ l.row = k.row /\ l.to = to
<1> DEFINE l == WithTo(k, step, to)
<1>1. l \in Call
  BY CallType DEF WithTo
<1>2. l.step = step /\ l.req = k.req /\ l.row = k.row /\ l.to = to
  BY DEF Call, WithTo
<1> HIDE DEF l
<1>3. l # NoCall
  BY <1>1, HubAssumption
<1> QED
  BY <1>2, <1>3 DEF l

(* A call has a change of the shape to save.                               *)
Pends(k, s) ==
  k # NoCall /\ k.step \in {"check", "save"} /\ k.req.op \in ShapeOps /\ k.req.id = s

(* A step of call c that writes nothing to a tab, nor to the shape.        *)
LEMMA GoesOnConverges ==
  ASSUME SyncInductive, NEW c \in Conns, NEW k, CallGoes(c, k),
         UNCHANGED <<link, view, sent, wait, drag>>, NEW t \in Tabs, NEW s, ConvergesAt(t, s),
         db'[s] = db[s], Mail(t)' = Mail(t), Telling(c, t, s) => Telling(c, t, s)',
         Linked(t) /\ link[t] = c /\ Pends(call[c], s) => Pends(k, s)
  PROVE  ConvergesAt(t, s)'
<1>1. ToTell(t, s) => ToTell(t, s)'
  BY StaysToTell
<1>2. Sends(t)' = Sends(t)
  BY DEF Sends, Linked
<1>3. CASE Linked(t) /\ link[t] = c
  <2>1. Runs(t) = call[c] /\ Runs(t)' = k
    BY <1>3 DEF Runs, Linked, CallGoes
  <2>2. Unsaved(Mail(t), Runs(t), Sends(t), s) => Unsaved(Mail(t), Runs(t)', Sends(t), s)
    BY <1>3, <2>1 DEF Unsaved, Pends
  <2> QED
    BY <1>1, <1>2, <2>2, SilentConverges
<1>4. CASE ~(Linked(t) /\ link[t] = c)
  <2>1. Linked(t) => link[t] \in Conns
    BY TabOfCall
  <2>2. Runs(t)' = Runs(t)
    BY <1>4, <2>1 DEF Runs, Linked, CallGoes
  <2> QED
    BY <1>1, <1>2, <2>2, SilentConverges
<1> QED
  BY <1>3, <1>4

(* What a step of the hub leaves alone.                                    *)
LEMMA HubLeaves ==
  ASSUME NEW c \in Conns, HubStep(c)
  PROVE  /\ UNCHANGED <<shown, link, view, sent, wait, drag>>
         /\ excused \subseteq excused'
         /\ status' = status
BY DEF HubStep, tabVars, ServerStep, EnterGroup, ExitGroup, FindBoard, FindShape, SaveCreate,
       SaveUpdate, SaveDelete, Refuse, Cast, Send, Finish

(* Nothing written: the mail stays.                                        *)
LEMMA MailStays ==
  ASSUME UNCHANGED <<link, outbox>>, NEW t
  PROVE  Mail(t)' = Mail(t)
BY DEF Mail, Linked

(* The hub joins or leaves the group, or reads the board or the shape.     *)
LEMMA ReadConverges ==
  ASSUME SyncInductive, Convergence, NEW c \in Conns, HubStep(c),
         EnterGroup(c) \/ ExitGroup(c) \/ FindBoard(c) \/ FindShape(c)
  PROVE  Convergence'
<1>1. /\ call[c] \in Call /\ call[c] # NoCall /\ call[c].step = "check"
      /\ UNCHANGED <<db, outbox>> /\ TypeOK
  BY BusyType DEF EnterGroup, ExitGroup, FindBoard, FindShape, Busy, SyncInductive, Inductive
<1>2. PICK k : /\ call' = [call EXCEPT ![c] = k] /\ k # NoCall /\ k.req = call[c].req
               /\ \/ k.step = "fan" /\ k.req.op \in GroupOps
                  \/ /\ k.step = "save" /\ k.req.op \in ShapeOps
                     /\ k.req.op \in {"update", "delete"} => k.row = db[k.req.id]
  <2>1. CASE EnterGroup(c) \/ ExitGroup(c)
    <3> DEFINE k == [call[c] EXCEPT !.step = "fan"]
    <3>1. call' = [call EXCEPT ![c] = k] /\ call[c].req.op \in GroupOps
      BY <2>1 DEF EnterGroup, ExitGroup, Busy, GroupOps
    <3>2. k # NoCall /\ k.req = call[c].req /\ k.step = "fan"
      BY <1>1, CallGoesTo
    <3> HIDE DEF k
    <3> QED
      BY <3>1, <3>2
  <2>2. CASE FindBoard(c)
    <3> DEFINE row == call[c].req.dto
               k == [call[c] EXCEPT !.step = "save", !.row = row]
    <3>1. call' = [call EXCEPT ![c] = k] /\ call[c].req.op = "create"
      BY <2>2 DEF FindBoard, Busy
    <3>2. row \in Row \cup {Absent}
      BY <1>1, <3>1, CallType, RequestType
    <3> HIDE DEF row
    <3>3. k = WithRow(call[c], "save", row)
      BY DEF WithRow
    <3> HIDE DEF k
    <3>4. k # NoCall /\ k.req = call[c].req /\ k.step = "save"
      BY <1>1, <3>2, <3>3, CallReads
    <3> QED
      BY <3>1, <3>4 DEF ShapeOps
  <2>3. CASE FindShape(c)
    <3> DEFINE row == db[call[c].req.id]
               k == [call[c] EXCEPT !.step = "save", !.row = row]
    <3>1. call' = [call EXCEPT ![c] = k] /\ call[c].req.op \in {"update", "delete"}
      BY <2>3 DEF FindShape, Busy
    <3>2. row \in Row \cup {Absent}
      BY <1>1, <2>3 DEF FindShape, Live, TypeOK
    <3>3. row = db[call[c].req.id]
      OBVIOUS
    <3> HIDE DEF row
    <3>4. k = WithRow(call[c], "save", row)
      BY DEF WithRow
    <3> HIDE DEF k
    <3>5. k # NoCall /\ k.req = call[c].req /\ k.step = "save" /\ k.row = row
      BY <1>1, <3>2, <3>4, CallReads
    <3> QED
      BY <3>1, <3>3, <3>5 DEF ShapeOps
  <2> QED
    BY <2>1, <2>2, <2>3
<1>3. CallGoes(c, k)
  BY <1>1, <1>2, CallGoesOn
<1>4. \A s : /\ ~Writing(c, s) /\ ~(Writing(c, s)')
             /\ Saving(c, s)' => k.row = db[s]
  BY <1>1, <1>2, <1>3 DEF Writing, Saving, Busy, CallGoes, GroupOps, ShapeOps
<1>5. ASSUME NEW s \in Shapes, Uncontended(s) PROVE Uncontended(s)'
  BY <1>1, <1>3, <1>4, <1>5, StaysUncontended
<1>6. ASSUME NEW s \in Shapes, NEW t \in Tabs, ConvergesAt(t, s) PROVE ConvergesAt(t, s)'
  <2>1. Mail(t)' = Mail(t)
    BY <1>1, HubLeaves, MailStays
  <2>2. Pends(call[c], s) => Pends(k, s)
    BY <1>2 DEF Pends, GroupOps, ShapeOps
  <2>3. ~Telling(c, t, s)
    BY <1>4 DEF Telling
  <2> QED
    BY <1>1, <1>3, <1>6, <2>1, <2>2, <2>3, HubLeaves, GoesOnConverges
<1> QED
  BY <1>5, <1>6, HubLeaves, HubConverges

(* What a handler saves that saw the row as it is now.                     *)
LEMMA AllIsWritten ==
  ASSUME NEW row \in Row, NEW new \in Row
  PROVE  WriteChanges(row, row, new) = new
BY DEF WriteChanges, Row

(* The hub saves a change.                                                 *)
LEMMA SaveConverges ==
  ASSUME SyncInductive, Convergence, NEW c \in Conns, HubStep(c),
         SaveCreate(c) \/ SaveUpdate(c) \/ SaveDelete(c)
  PROVE  Convergence'
<1>1. /\ call[c] \in Call /\ call[c] # NoCall /\ call[c].step = "save"
      /\ call[c].req.op \in ShapeOps /\ UNCHANGED outbox /\ TypeOK
  BY BusyType DEF SaveCreate, SaveUpdate, SaveDelete, Busy, SyncInductive, Inductive, ShapeOps
<1>2. PICK a \in Shapes : a = call[c].req.id
  BY <1>1, CallType, RequestType
<1>3. PICK k : /\ call' = [call EXCEPT ![c] = k] /\ k # NoCall
               /\ k.req = call[c].req /\ k.step = "cast"
               /\ \A s : s # a => db'[s] = db[s]
               /\ (Saving(c, a) => call[c].row = db[a]) => Announced(k) = db'[a]
  <2>1. CASE SaveCreate(c)
    <3> DEFINE k == [call[c] EXCEPT !.step = "cast"]
    <3>1. /\ call' = [call EXCEPT ![c] = k] /\ call[c].req.op = "create"
          /\ db' = [db EXCEPT ![a] = call[c].row]
      BY <1>2, <2>1 DEF SaveCreate, Busy
    <3>2. k # NoCall /\ k.req = call[c].req /\ k.step = "cast" /\ k.row = call[c].row
      BY <1>1, CallGoesTo
    <3> HIDE DEF k
    <3>3. db'[a] = call[c].row /\ \A s : s # a => db'[s] = db[s]
      BY <1>1, <1>2, <3>1 DEF TypeOK
    <3> QED
      BY <3>1, <3>2, <3>3 DEF Announced
  <2>2. CASE SaveUpdate(c)
    <3> DEFINE new == CopyShape(call[c].req.dto, call[c].row)
               k == [call[c] EXCEPT !.step = "cast", !.row = new]
    <3>1. /\ call' = [call EXCEPT ![c] = k] /\ call[c].req.op = "update" /\ db[a] # Absent
          /\ db' = [db EXCEPT ![a] = WriteChanges(db[a], call[c].row, new)]
      BY <1>2, <2>2 DEF SaveUpdate, Busy, Live
    <3>2. call[c].req.dto \in Row /\ call[c].row \in Row
      BY <1>1, <3>1, CallType, RequestType, HubAssumption
         DEF SyncInductive, Inductive, CallsHoldSoundRows, SoundCall
    <3>3. new \in Row
      BY <3>2, RowsAreBuilt
    <3> HIDE DEF new
    <3>4. k = WithRow(call[c], "cast", new) /\ new \in Row \cup {Absent}
      BY <3>3 DEF WithRow
    <3> HIDE DEF k
    <3>5. k # NoCall /\ k.req = call[c].req /\ k.step = "cast" /\ k.row = new
      BY <1>1, <3>4, CallReads
    <3>6. /\ db'[a] = WriteChanges(db[a], call[c].row, new)
          /\ \A s : s # a => db'[s] = db[s]
      BY <1>1, <1>2, <3>1 DEF TypeOK
    <3>7. Saving(c, a)
      BY <1>1, <1>2, <3>1 DEF Saving, Busy
    <3>8. call[c].row = db[a] => db'[a] = new
      BY <3>2, <3>3, <3>6, AllIsWritten
    <3> QED
      BY <3>1, <3>5, <3>6, <3>7, <3>8 DEF Announced
  <2>3. CASE SaveDelete(c)
    <3> DEFINE k == [call[c] EXCEPT !.step = "cast"]
    <3>1. /\ call' = [call EXCEPT ![c] = k] /\ call[c].req.op = "delete"
          /\ db' = [db EXCEPT ![a] = Absent]
      BY <1>2, <2>3 DEF SaveDelete, Busy
    <3>2. k # NoCall /\ k.req = call[c].req /\ k.step = "cast"
      BY <1>1, CallGoesTo
    <3> HIDE DEF k
    <3>3. db'[a] = Absent /\ \A s : s # a => db'[s] = db[s]
      BY <1>1, <1>2, <3>1 DEF TypeOK
    <3> QED
      BY <3>1, <3>2, <3>3 DEF Announced
  <2> QED
    BY <2>1, <2>2, <2>3
<1>4. CallGoes(c, k)
  BY <1>1, <1>3, CallGoesOn
<1>5. \A s : s # a => /\ ~Writing(c, s) /\ ~(Writing(c, s)') /\ ~(Saving(c, s)')
                      /\ ~Pends(call[c], s)
  BY <1>2, <1>3, <1>4 DEF Writing, Saving, CallGoes, Pends
<1>6. Writing(c, a)' /\ ~(Saving(c, a)') /\ call'[c].step = "cast"
  BY <1>1, <1>2, <1>3, <1>4 DEF Writing, Saving, Busy, CallGoes
<1>7. ASSUME NEW t \in Tabs, <<t, a>> \notin excused', Uncontended(a) PROVE Uncontended(a)'
  <2>1. Busy(c, {"save"}, ShapeOps)
    BY <1>1 DEF Busy
  <2>2. ~Contended(c)
    BY <1>2, <1>7, <2>1 DEF HubStep
  <2>3. \A d \in Conns : d # c => ~(Writing(d, a)') /\ ~(Saving(d, a)')
    BY <1>2, <1>4, <2>2 DEF Contended, CallGoes, Writing, Saving, Busy, ShapeOps
  <2>4. Event(c)'.row = db'[a]
    BY <1>3, <1>4, <1>7 DEF Event, Announced, CallGoes, Uncontended
  <2> QED
    BY <1>6, <2>3, <2>4 DEF Uncontended
<1>8. ASSUME NEW s \in Shapes, NEW t \in Tabs, <<t, s>> \notin excused', Uncontended(s)
      PROVE  Uncontended(s)'
  <2>1. CASE s = a
    BY <1>7, <1>8, <2>1
  <2>2. CASE s # a
    BY <1>3, <1>4, <1>5, <1>8, <2>2, StaysUncontended
  <2> QED
    BY <2>1, <2>2
<1>9. ASSUME NEW s \in Shapes, NEW t \in Tabs, ConvergesAt(t, s) PROVE ConvergesAt(t, s)'
  <2>1. CASE s = a
    BY <1>6, <2>1, ToldConverges DEF ToTell, Telling
  <2>2. CASE s # a
    <3>1. Mail(t)' = Mail(t) /\ ~Telling(c, t, s)
      BY <1>1, <1>5, <2>2, HubLeaves, MailStays DEF Telling
    <3> QED
      BY <1>3, <1>4, <1>5, <1>9, <2>2, <3>1, HubLeaves, GoesOnConverges
  <2> QED
    BY <2>1, <2>2
<1> QED
  BY <1>8, <1>9, HubLeaves, HubConverges

(* The hub turns to the group.                                             *)
LEMMA CastConverges ==
  ASSUME SyncInductive, Convergence, NEW c \in Conns, HubStep(c), Cast(c)
  PROVE  Convergence'
<1> DEFINE a == call[c].req.id
           k == [call[c] EXCEPT !.step = "fan", !.to = group]
<1>1. /\ call[c] \in Call /\ call[c] # NoCall /\ call[c].step = "cast"
      /\ call[c].req.op \in ShapeOps /\ UNCHANGED <<db, outbox>> /\ TypeOK
      /\ call' = [call EXCEPT ![c] = k]
  BY BusyType DEF Cast, Busy, SyncInductive, Inductive
<1>2. /\ k # NoCall /\ k.step = "fan" /\ k.req = call[c].req /\ k.row = call[c].row
      /\ k.to = group
  <2>1. k = WithTo(call[c], "fan", group) /\ group \subseteq Conns
    BY <1>1 DEF WithTo, TypeOK
  <2> HIDE DEF k
  <2> QED
    BY <1>1, <2>1, CallTells
<1> HIDE DEF k
<1>3. CallGoes(c, k)
  BY <1>1, CallGoesOn
<1>4. \A s : /\ Writing(c, s)' => Writing(c, s)
             /\ ~(Saving(c, s)')
  BY <1>1, <1>2, <1>3 DEF Writing, Saving, Busy, CallGoes
<1>5. Announced(k) = Announced(call[c])
  BY <1>2 DEF Announced
<1>6. ASSUME NEW s \in Shapes, Uncontended(s) PROVE Uncontended(s)'
  BY <1>1, <1>3, <1>4, <1>5, <1>6, StaysUncontended
<1>7. ASSUME NEW s \in Shapes, NEW t \in Tabs, <<t, s>> \notin excused', t \in shown,
             ConvergesAt(t, s)
      PROVE  ConvergesAt(t, s)'
  <2>1. CASE s = a
    <3>1. excused' = excused \cup (Outsiders \X {a})
      BY <1>1 DEF HubStep, Busy
    <3>2. Linked(t) /\ link[t] \in group
      BY <1>7, <2>1, <3>1 DEF Outsiders
    <3>3. Telling(c, t, s)'
      BY <1>1, <1>2, <1>3, <2>1, <3>2, HubLeaves DEF Telling, Writing, Busy, CallGoes, Linked
    <3> QED
      BY <3>3, ToldConverges DEF ToTell
  <2>2. CASE s # a
    <3>1. Mail(t)' = Mail(t) /\ ~Telling(c, t, s) /\ ~Pends(call[c], s)
      BY <1>1, <2>2, HubLeaves, MailStays DEF Telling, Writing, Pends
    <3> QED
      BY <1>1, <1>3, <1>7, <3>1, HubLeaves, GoesOnConverges
  <2> QED
    BY <2>1, <2>2
<1> QED
  BY <1>6, <1>7, HubLeaves, HubConverges

(* The hub sends the event of a call to a connection.                      *)
LEMMA SendConverges ==
  ASSUME SyncInductive, Convergence, NEW c \in Conns, HubStep(c), NEW r \in Conns, Send(c, r)
  PROVE  Convergence'
<1> DEFINE m == Event(c)
           k == [call[c] EXCEPT !.to = @ \ {r}]
<1>1. /\ call[c] \in Call /\ call[c] # NoCall /\ call[c].step = "fan"
      /\ call[c].req.op \in ShapeOps /\ UNCHANGED db /\ TypeOK /\ Post(r, m)
      /\ call' = [call EXCEPT ![c] = k]
  BY BusyType DEF Send, Busy, SyncInductive, Inductive
<1>2. /\ k # NoCall /\ k.step = "fan" /\ k.req = call[c].req /\ k.row = call[c].row
      /\ k.to = call[c].to \ {r}
  <2>1. /\ k = WithTo(call[c], "fan", call[c].to \ {r})
        /\ call[c].to \ {r} \subseteq Conns
    BY <1>1 DEF WithTo, Call
  <2> HIDE DEF k
  <2> QED
    BY <1>1, <2>1, CallTells
<1>3. m \in Message /\ m.kind \in Events /\ m.id = call[c].req.id
  BY <1>1, EventIsMessage DEF Send, SyncInductive, Inductive
<1>4. \A s : Writing(c, s) /\ Uncontended(s) => m.row = db[s]
  BY DEF Uncontended
<1> HIDE DEF k, m
<1>5. CallGoes(c, k)
  BY <1>1, CallGoesOn
<1>6. \A s : /\ Writing(c, s)' <=> Writing(c, s)
             /\ ~(Saving(c, s)') /\ ~Pends(call[c], s)
             /\ m.id = s => Writing(c, s)
  BY <1>1, <1>2, <1>3, <1>5 DEF Writing, Saving, Busy, CallGoes, Pends
<1>7. Announced(k) = Announced(call[c])
  BY <1>2 DEF Announced
<1>8. ASSUME NEW s \in Shapes, Uncontended(s) PROVE Uncontended(s)'
  BY <1>1, <1>5, <1>6, <1>7, <1>8, StaysUncontended
<1>9. ASSUME NEW s \in Shapes, NEW t \in Tabs, Uncontended(s), ConvergesAt(t, s)
      PROVE  ConvergesAt(t, s)'
  <2>1. link' = link
    BY HubLeaves
  <2>2. CASE Linked(t) /\ link[t] = r
    <3>1. Mail(t)' = Append(Mail(t), m) /\ Mail(t) \in Seq(Message)
      <4>1. /\ Mail(t) = outbox[r] /\ Mail(t)' = outbox'[r] /\ status[r] = "open"
            /\ Mail(t) \in Seq(Message)
        BY <2>1, <2>2, TabOfCall, TabHas
      <4>2. outbox'[r] = Append(outbox[r], m)
        BY <1>1, <4>1, PostReaches
      <4> QED
        BY <4>1, <4>2
    <3>2. CASE m.id = s
      <4>1. m.row = db[s]
        BY <1>4, <1>6, <1>9, <3>2
      <4>2. Converging(ToTell(t, s)', view[t][s], db[s], wait[t], Append(Mail(t), m), Runs(t)',
                       Sends(t)', drag[t], s)
        BY <1>3, <3>1, <3>2, <4>1, ConvergingHears
      <4> QED
        BY <1>1, <3>1, <4>2, HubLeaves DEF ConvergesAt
    <3>3. CASE m.id # s
      <4>1. ~Telling(c, t, s)
        BY <1>3, <3>3 DEF Telling, Writing
      <4>2. ToTell(t, s) => ToTell(t, s)'
        BY <1>5, <2>1, <4>1, StaysToTell
      <4>3. Runs(t)' = Runs(t) \/ Runs(t).step = "fan"
        BY <1>1, <1>5, <2>1, <2>2, TabOfCall DEF CallGoes
      <4>4. m.kind # "error"
        BY <1>3 DEF Events
      <4> QED
        BY <1>1, <1>3, <1>9, <3>1, <3>3, <4>2, <4>3, <4>4, HubLeaves, WrittenConverges
    <3> QED
      BY <3>2, <3>3
  <2>3. CASE ~(Linked(t) /\ link[t] = r)
    <3>1. Mail(t)' = Mail(t)
      <4>1. CASE Linked(t)
        BY <1>1, <2>1, <2>3, <4>1, TabOfCall, PostReaches
      <4>2. CASE ~Linked(t)
        BY <2>1, <4>2, UnlinkedHas
      <4> QED
        BY <4>1, <4>2
    <3>2. Telling(c, t, s) => Telling(c, t, s)'
      BY <1>1, <1>2, <1>5, <1>6, <2>1, <2>3 DEF Telling, Linked, CallGoes
    <3> QED
      BY <1>1, <1>5, <1>6, <1>9, <3>1, <3>2, HubLeaves, GoesOnConverges
  <2> QED
    BY <2>2, <2>3
<1> QED
  BY <1>8, <1>9, HubLeaves, HubConverges

(* The hub ends a call with an answer: nobody is to be told any more.      *)
LEMMA EndConverges ==
  ASSUME SyncInductive, Convergence, NEW c \in Conns, HubStep(c), UNCHANGED db,
         call[c] # NoCall, call' = [call EXCEPT ![c] = NoCall],
         NEW m \in Told, m.kind \notin Events, Post(c, m), m.id = call[c].req.id,
         \A s, t : ~Telling(c, t, s),
         m.kind = "error" \/ call[c].step = "fan"
  PROVE  Convergence'
<1>1. TypeOK /\ CallGoes(c, NoCall) /\ m \in Message
  BY CallGoesOn DEF SyncInductive, Inductive, Told
<1>2. \A s : ~(Writing(c, s)') /\ ~(Saving(c, s)')
  BY <1>1 DEF Writing, Saving, Busy, CallGoes
<1>3. ASSUME NEW s \in Shapes, Uncontended(s) PROVE Uncontended(s)'
  BY <1>1, <1>2, <1>3, StaysUncontended
<1>4. ASSUME NEW s \in Shapes, NEW t \in Tabs, ConvergesAt(t, s) PROVE ConvergesAt(t, s)'
  <2>1. link' = link
    BY HubLeaves
  <2>2. CASE Linked(t) /\ link[t] = c
    <3>1. Mail(t)' = Append(Mail(t), m) /\ Runs(t) = call[c]
      <4>1. /\ Mail(t) = outbox[c] /\ Mail(t)' = outbox'[c] /\ status[c] = "open"
            /\ Runs(t) = call[c]
        BY <2>1, <2>2, TabOfCall
      <4>2. outbox'[c] = Append(outbox[c], m)
        BY <1>1, <4>1, PostReaches
      <4> QED
        BY <4>1, <4>2
    <3>2. ToTell(t, s) => ToTell(t, s)'
      BY <1>1, <2>1, StaysToTell
    <3> QED
      BY <1>1, <1>4, <2>2, <3>1, <3>2, HubLeaves, WrittenConverges
  <2>3. CASE ~(Linked(t) /\ link[t] = c)
    <3>1. Mail(t)' = Mail(t)
      <4>1. CASE Linked(t)
        BY <1>1, <2>1, <2>3, <4>1, TabOfCall, PostReaches
      <4>2. CASE ~Linked(t)
        BY <2>1, <4>2, UnlinkedHas
      <4> QED
        BY <4>1, <4>2
    <3> QED
      BY <1>1, <1>4, <2>3, <3>1, HubLeaves, GoesOnConverges
  <2> QED
    BY <2>2, <2>3
<1> QED
  BY <1>3, <1>4, HubLeaves, HubConverges

LEMMA FinishConverges ==
  ASSUME SyncInductive, Convergence, NEW c \in Conns, HubStep(c), Finish(c)
  PROVE  Convergence'
<1> DEFINE m == Answer(c, "ok")
<1>1. /\ call[c] # NoCall /\ call[c].step = "fan" /\ call[c].to = {} /\ TypeOK
      /\ call' = [call EXCEPT ![c] = NoCall] /\ UNCHANGED db /\ Post(c, m)
  BY DEF Finish, Busy, SyncInductive, Inductive
<1>2. m \in Told /\ m.kind = "ok" /\ m.id = call[c].req.id
  BY <1>1, AnswerIsTold
<1> HIDE DEF m
<1>3. m.kind \notin Events /\ m.kind # "error" /\ \A s, t : ~Telling(c, t, s)
  BY <1>1, <1>2 DEF Events, Telling
<1> QED
  BY <1>1, <1>2, <1>3, EndConverges

LEMMA RefuseConverges ==
  ASSUME SyncInductive, Convergence, NEW c \in Conns, HubStep(c), Refuse(c)
  PROVE  Convergence'
<1> DEFINE m == Answer(c, "error")
<1>1. /\ call[c] # NoCall /\ call[c].step \in {"check", "save"} /\ call[c].req.op \in ShapeOps
      /\ call' = [call EXCEPT ![c] = NoCall] /\ UNCHANGED db /\ Post(c, m) /\ TypeOK
  BY DEF Refuse, Busy, SyncInductive, Inductive
<1>2. m \in Told /\ m.kind = "error" /\ m.id = call[c].req.id
  BY <1>1, AnswerIsTold
<1> HIDE DEF m
<1>3. m.kind \notin Events /\ \A s, t : ~Telling(c, t, s)
  BY <1>1, <1>2 DEF Events, Telling, Writing, Busy
<1> QED
  BY <1>1, <1>2, <1>3, EndConverges

LEMMA HubStepConverges ==
  ASSUME SyncInductive, Convergence, NEW c \in Conns, HubStep(c)
  PROVE  Convergence'
BY ReadConverges, SaveConverges, CastConverges, SendConverges, FinishConverges, RefuseConverges
   DEF HubStep, ServerStep

(* A call is given up: what it has saved is not announced.                 *)
LEMMA GiveUpConverges ==
  ASSUME SyncInductive, Convergence, NEW c \in Conns, GiveUp(c)
  PROVE  Convergence'
<1>1. /\ status[c] = "closed" /\ call[c] # NoCall /\ call' = [call EXCEPT ![c] = NoCall]
      /\ UNCHANGED <<db, outbox, shown, link, view, sent, wait, drag>> /\ TypeOK
  BY DEF GiveUp, Abandon, tabVars, SyncInductive, Inductive
<1>2. CallGoes(c, NoCall) /\ excused \subseteq excused'
  BY <1>1, CallGoesOn DEF GiveUp
<1>3. \A s : ~(Writing(c, s)') /\ ~(Saving(c, s)')
  BY <1>2 DEF Writing, Saving, Busy, CallGoes
<1>4. \A s, t : t \in Tabs /\ Writing(c, s) => <<t, s>> \in excused'
  BY DEF GiveUp, Writing
<1>5. ASSUME NEW s \in Shapes, Uncontended(s) PROVE Uncontended(s)'
  BY <1>1, <1>2, <1>3, <1>5, StaysUncontended
<1>6. ASSUME NEW s \in Shapes, NEW t \in Tabs, <<t, s>> \notin excused', ConvergesAt(t, s)
      PROVE  ConvergesAt(t, s)'
  <2>1. ~Telling(c, t, s)
    BY <1>4, <1>6 DEF Telling
  <2>2. Mail(t)' = Mail(t)
    BY <1>1, MailStays
  <2>3. ~(Linked(t) /\ link[t] = c)
    BY <1>1, TabOfCall
  <2> QED
    BY <1>1, <1>2, <1>6, <2>1, <2>2, <2>3, GoesOnConverges
<1> QED
  BY <1>1, <1>2, <1>5, <1>6, HubConverges

LEMMA BoardDeletedConverges ==
  ASSUME Convergence, BoardDeleted
  PROVE  Convergence'
<1>1. UNCHANGED <<shown, link, view, drag>> /\ excused' = Tabs \X Shapes
  BY DEF BoardDeleted, tabVars
<1> QED
  BY <1>1 DEF Convergence, BlankSound, Linked

(* Nothing changes.                                                        *)
LEMMA StutterConverges ==
  ASSUME Convergence, UNCHANGED vars
  PROVE  Convergence'
<1>1. UNCHANGED <<db, call, outbox, shown, link, view, sent, wait, drag, excused>>
  BY DEF vars, hubVars, tabVars
<1>2. BlankSound'
  BY <1>1 DEF Convergence, BlankSound, Linked
<1>3. ASSUME NEW s \in Shapes, Uncontended(s) PROVE Uncontended(s)'
  BY <1>1, <1>3 DEF Uncontended, Writing, Saving, Busy, Event
<1>4. ASSUME NEW s \in Shapes, NEW t \in Tabs, ConvergesAt(t, s) PROVE ConvergesAt(t, s)'
  <2>1. ToTell(t, s)' = ToTell(t, s)
    BY <1>1 DEF ToTell, Telling, Writing, Busy, Linked
  <2>2. Mail(t)' = Mail(t) /\ Runs(t)' = Runs(t) /\ Sends(t)' = Sends(t)
    BY <1>1 DEF Mail, Runs, Sends, Linked
  <2> QED
    BY <1>1, <1>4, <2>1, <2>2 DEF ConvergesAt
<1> QED
  BY <1>1, <1>2, <1>3, <1>4 DEF Convergence

LEMMA InitConverges ==
  ASSUME SyncInit
  PROVE  Convergence
<1>1. BlankSound
  BY DEF SyncInit, BlankSound, Linked
<1>2. \A s : Uncontended(s)
  BY DEF SyncInit, Init, Uncontended, Writing, Saving, Busy
<1> QED
  BY <1>1, <1>2 DEF SyncInit, Convergence

LEMMA NextConverges ==
  ASSUME SyncInductive, Convergence, [SyncNext]_vars
  PROVE  Convergence'
<1>1. ASSUME NEW t \in Tabs,
             \/ Load(t)
             \/ \E c \in Conns : Open(t, c)
             \/ LinkLost(t)
             \/ \E s \in Shapes, dto \in Drafts : Draw(t, s, dto)
             \/ \E s \in Shapes, fill \in Fills : EditFill(t, s, fill)
             \/ \E s \in Shapes : RemoveShape(t, s)
      PROVE  Convergence'
  BY <1>1, LoadConverges, OpenConverges, LinkLostConverges, DrawConverges, EditFillConverges,
     RemoveShapeConverges
<1>2. ASSUME NEW t \in Tabs,
             \/ \E s \in Shapes, mode \in {"move", "resize"} : PointerDown(t, s, mode)
             \/ \E pos \in Positions : PointerMove(t, pos)
             \/ PointerUp(t)
             \/ PointerUpInVain(t)
             \/ PointerCancel(t)
             \/ Handle(t)
      PROVE  Convergence'
  BY <1>2, PointerDownConverges, PointerMoveConverges, PointerUpConverges, VainDragConverges,
     HandleConverges
<1>3. ASSUME NEW c \in Conns, Dispatch(c) \/ HubStep(c) \/ GiveUp(c)
      PROVE  Convergence'
  BY <1>3, DispatchConverges, HubStepConverges, GiveUpConverges
<1> QED
  BY <1>1, <1>2, <1>3, BoardDeletedConverges, StutterConverges DEF SyncNext

(* A tab with nothing on its way and nothing in hand shows what is stored. *)
LEMMA QuietConverges ==
  ASSUME SyncInductive, Convergence
  PROVE  ConvergesUnlessExcused
<1> SUFFICES ASSUME Quiet, NEW t \in shown \ Outsiders, NEW s \in Shapes, <<t, s>> \notin excused
             PROVE  view[t][s] = db[s]
  BY DEF ConvergesUnlessExcused
<1>1. t \in Tabs /\ Linked(t)
  BY DEF Outsiders, SyncInductive, TabsInductive, TabTypes
<1>2. Mail(t) = <<>> /\ Runs(t) = NoCall /\ Sends(t) = <<>> /\ drag[t] = NoDrag
  BY <1>1, TabOfCall DEF Quiet
<1>3. ~ToTell(t, s)
  BY DEF ToTell, Telling, Writing, Busy, Quiet
<1>4. DOMAIN <<>> = {}
  BY EmptySeq
<1>5. /\ ~Coming(ToTell(t, s), <<>>, s) /\ ~Unsaved(<<>>, NoCall, <<>>, s) /\ ~Held(NoDrag, s)
  BY <1>3, <1>4 DEF Coming, Tells, Unsaved, Fails, Held
<1> QED
  BY <1>1, <1>2, <1>5 DEF Convergence, ConvergesAt, Converging, Shows

(* Once everything has settled, every tab in the board's group shows every *)
(* shape exactly as it is stored, for any number of tabs, connections and  *)
(* shapes, and whatever the interleaving of edits, drags, echoes, refusals *)
(* and undos was, except the shapes that went through one of the gaps that *)
(* the steps of the model name.                                            *)
THEOREM TabsConverge == SyncSpec => []ConvergesUnlessExcused
<1>1. SyncInit => SyncInductive /\ Convergence
  BY SyncInitInductive, InitConverges
<1>2. SyncInductive /\ Convergence /\ [SyncNext]_vars => SyncInductive' /\ Convergence'
  BY SyncNextInductive, NextConverges
<1>3. SyncInductive /\ Convergence => ConvergesUnlessExcused
  BY QuietConverges
<1> QED
  BY <1>1, <1>2, <1>3, PTL DEF SyncSpec
=============================================================================
