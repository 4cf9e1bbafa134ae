------------------------ MODULE BoardPresence_proofs ------------------------
(***************************************************************************)
(* Theorems about BoardPresence, for any boards, tabs, users, connections, *)
(* calls and losses.                                                       *)
(*                                                                         *)
(*   PresenceTypeCorrect   the type invariant                              *)
(*   PresentAlwaysHear     who is listed on a board is in its group        *)
(*   ListsComeToMatch      settled lists are the store's, unless excused   *)
(*                                                                         *)
(* PresentHear is not inductive: it is kept by what the calls in flight    *)
(* have already done to the group and to the store (CallsHold), and by the *)
(* order in which a connection ends (Ends).                                *)
(*                                                                         *)
(* For the lists, the second half of the module says of every step what    *)
(* each tab on a board has been told, or is still to be told by the calls  *)
(* and the disconnect handlers in flight (ListsInductive).                 *)
(***************************************************************************)
EXTENDS BoardPresence, SequenceTheorems, TLAPS

(* A connection that is open is in the groups of its boards, and in that   *)
(* of the board it is about to enter in the store; when it is about to     *)
(* leave a group, the store has already forgotten the board.               *)
CallsHold ==
  \A c \in Conns : status[c] = "open" =>
    /\ \A b \in boardsOf[c] : c \in group[b]
    /\ At(c, "join", "store") => c \in group[call[c].board]
    /\ At(c, "leave", "remove") => call[c].board \notin boardsOf[c]

(* Before it is open a connection has done nothing, and its disconnect     *)
(* handler runs only after its loss.                                       *)
Ends ==
  \A c \in Conns :
    /\ status[c] = "new" => boardsOf[c] = {} /\ call[c] = NoCall
    /\ goodbye[c] # NoCall => status[c] = "lost"

PresenceInductive == TypeOK /\ CallsHold /\ Ends

-----------------------------------------------------------------------------
(* Calls are typed.                                                        *)

LEMMA MarkersDiffer == NoCall \notin Call /\ NoCall \notin Goodbye /\ NoConn \notin Conns
BY PresenceAssumption

LEMMA MessagesAre ==
  ASSUME NEW k \in {"snapshot", "joined", "left"}, NEW U \in SUBSET Users
  PROVE  [kind |-> k, users |-> U] \in Message
BY DEF Message

LEMMA WhoIsUser ==
  ASSUME NEW c \in Conns
  PROVE  Who(c) \in Users
BY PresenceAssumption DEF Who

LEMMA PostType ==
  ASSUME TypeOK, NEW c \in Conns, NEW m \in Message, Post(c, m)
  PROVE  outbox' \in [Conns -> Seq(Message)]
<1>1. outbox \in [Conns -> Seq(Message)]
  BY DEF TypeOK
<1>2. Append(outbox[c], m) \in Seq(Message)
  BY <1>1
<1> QED
  BY <1>1, <1>2 DEF Post

LEMMA SnapshotType ==
  ASSUME NEW b
  PROVE  Snapshot(b) \in SUBSET Users
BY WhoIsUser DEF Snapshot, Present

LEMMA AudienceType ==
  ASSUME TypeOK, NEW b \in Boards
  PROVE  Audience(b) \in SUBSET Conns
BY DEF TypeOK, Audience

LEMMA MisplacedType ==
  ASSUME NEW r \in Conns, NEW u \in Users, NEW b
  PROVE  Misplaced(r, u, b) \subseteq Tabs \X Users
BY PresenceAssumption DEF Misplaced

LEMMA ExcuseType ==
  ASSUME TypeOK, NEW c \in Conns, Excuse(Tabs, {Who(c)}) \/ UNCHANGED excused
  PROVE  excused' \subseteq Tabs \X Users
<1>1. {Who(c)} \subseteq Users
  BY WhoIsUser
<1> QED
  BY <1>1 DEF Excuse, TypeOK

-----------------------------------------------------------------------------
(* The steps of connections.                                               *)

LEMMA ConnectKeeps ==
  ASSUME PresenceInductive, NEW c \in Conns, Connect(c)
  PROVE  PresenceInductive'
<1> USE DEF PresenceInductive
<1>1. TypeOK'
  <2>1. outbox' \in [Conns -> Seq(Message)]
    BY EmptySeq DEF Connect, TypeOK
  <2> QED
    BY <2>1, PresenceAssumption DEF Connect, TypeOK
<1>2. CallsHold'
  BY DEF Connect, CallsHold, Ends, At, TypeOK
<1>3. Ends'
  BY DEF Connect, Ends, TypeOK
<1> QED
  BY <1>1, <1>2, <1>3

LEMMA LoseKeeps ==
  ASSUME PresenceInductive, NEW c \in Conns, Lose(c)
  PROVE  PresenceInductive'
<1> USE DEF PresenceInductive
<1>1. TypeOK'
  BY DEF Lose, TypeOK
<1>2. CallsHold'
  BY DEF Lose, CallsHold, At, TypeOK
<1>3. Ends'
  BY DEF Lose, Ends, TypeOK
<1> QED
  BY <1>1, <1>2, <1>3

LEMMA AbandonKeeps ==
  ASSUME PresenceInductive, NEW c \in Conns, Abandon(c)
  PROVE  PresenceInductive'
<1> USE DEF PresenceInductive
<1>1. TypeOK'
  BY ExcuseType DEF Abandon, TypeOK
<1>2. CallsHold'
  BY DEF Abandon, CallsHold, At, TypeOK
<1>3. Ends'
  BY DEF Abandon, Ends, TypeOK
<1> QED
  BY <1>1, <1>2, <1>3

(* A call begins.                                                          *)
LEMMA BeginType ==
  ASSUME TypeOK, NEW c \in Conns, NEW op \in {"join", "leave"}, NEW b \in Boards,
         Begin(c, op, b)
  PROVE  /\ call' \in [Conns -> Call \cup {NoCall}] /\ asked' \in 0 .. MaxCalls
         /\ call'[c] # NoCall /\ call'[c].op = op /\ call'[c].board = b
         /\ call'[c].step = IF op = "join" THEN "store" ELSE "remove"
         /\ \A d \in Conns : d # c => call'[d] = call[d]
<1> DEFINE s == IF op = "join" THEN "store" ELSE "remove"
           new == [op |-> op, board |-> b, step |-> s, users |-> {}, to |-> {}]
<1>1. new \in Call
  BY DEF Call
<1>2. call' = [call EXCEPT ![c] = new] /\ call \in [Conns -> Call \cup {NoCall}]
  BY DEF Begin, TypeOK
<1>3. asked' \in 0 .. MaxCalls
  BY PresenceAssumption DEF Begin, TypeOK
<1>4. new.op = op /\ new.board = b /\ new.step = s /\ new # NoCall
  BY <1>1, MarkersDiffer
<1> HIDE DEF new
<1> QED
  BY <1>1, <1>2, <1>3, <1>4

LEMMA AddToGroupKeeps ==
  ASSUME PresenceInductive, NEW c \in Conns, NEW b \in Boards, AddToGroup(c, b)
  PROVE  PresenceInductive'
<1> USE DEF PresenceInductive
<1>1. /\ call' \in [Conns -> Call \cup {NoCall}] /\ asked' \in 0 .. MaxCalls
      /\ call'[c] # NoCall /\ call'[c].op = "join" /\ call'[c].board = b
      /\ \A d \in Conns : d # c => call'[d] = call[d]
  BY BeginType DEF AddToGroup
<1>2. /\ boardsOf[c] = {} /\ group' = [group EXCEPT ![b] = @ \cup {c}] /\ status[c] = "open"
      /\ UNCHANGED <<status, boardsOf, goodbye, outbox, link, seen, excused>>
  BY DEF AddToGroup, Begin
<1>3. TypeOK'
  BY <1>1, <1>2 DEF TypeOK
<1>4. CallsHold'
  BY <1>1, <1>2 DEF CallsHold, At, TypeOK, Call
<1>5. Ends'
  BY <1>1, <1>2 DEF Ends
<1> QED
  BY <1>3, <1>4, <1>5

LEMMA LeaveStoreKeeps ==
  ASSUME PresenceInductive, NEW c \in Conns, NEW b \in Boards, LeaveStore(c, b)
  PROVE  PresenceInductive'
<1> USE DEF PresenceInductive
<1>1. /\ call' \in [Conns -> Call \cup {NoCall}] /\ asked' \in 0 .. MaxCalls
      /\ call'[c] # NoCall /\ call'[c].op = "leave" /\ call'[c].board = b
      /\ \A d \in Conns : d # c => call'[d] = call[d]
  BY BeginType DEF LeaveStore
<1>2. /\ boardsOf' = [boardsOf EXCEPT ![c] = @ \ {b}] /\ status[c] = "open"
      /\ UNCHANGED <<status, group, goodbye, outbox, link, seen>>
  BY DEF LeaveStore, Begin
<1>3. TypeOK'
  <2>1. excused' \subseteq Tabs \X Users
    BY ExcuseType DEF LeaveStore
  <2>2. boardsOf' \in [Conns -> SUBSET Boards]
    BY <1>2 DEF TypeOK
  <2> QED
    BY <1>1, <1>2, <2>1, <2>2 DEF TypeOK
<1>4. CallsHold'
  <2>1. /\ boardsOf'[c] = boardsOf[c] \ {b} /\ group' = group /\ status' = status
        /\ \A d \in Conns : d # c => boardsOf'[d] = boardsOf[d] /\ call'[d] = call[d]
    BY <1>1, <1>2 DEF TypeOK
  <2>2. \A o \in boardsOf'[c] : status[c] = "open" => c \in group'[o]
    BY <2>1 DEF CallsHold
  <2>3. call'[c].op = "leave" /\ call'[c].board \notin boardsOf'[c]
    BY <1>1, <2>1
  <2> QED
    BY <2>1, <2>2, <2>3 DEF CallsHold, At
<1>5. Ends'
  BY <1>1, <1>2 DEF Ends, TypeOK
<1> QED
  BY <1>3, <1>4, <1>5

-----------------------------------------------------------------------------
(* The steps of a call.                                                    *)

(* Such steps disturb nothing while the groups and the store stay.         *)
LEMMA CallStepKeeps ==
  ASSUME PresenceInductive, NEW c \in Conns, call[c] # NoCall,
         NEW n \in Call, n.step \in {"snap", "cast", "fan"}, call' = [call EXCEPT ![c] = n],
         UNCHANGED <<status, group, goodbye, asked, link, seen>>,
         outbox' \in [Conns -> Seq(Message)], excused' \subseteq Tabs \X Users,
         \/ boardsOf' = boardsOf
         \/ /\ At(c, "join", "store")
            /\ boardsOf' = [boardsOf EXCEPT ![c] = @ \cup {call[c].board}]
  PROVE  PresenceInductive'
<1> USE DEF PresenceInductive
<1>1. call[c] \in Call /\ call[c].board \in Boards
  BY DEF TypeOK, Call
<1>2. TypeOK'
  <2>1. call' \in [Conns -> Call \cup {NoCall}]
    BY DEF TypeOK
  <2>2. boardsOf' \in [Conns -> SUBSET Boards]
    <3>1. boardsOf \in [Conns -> SUBSET Boards]
      BY DEF TypeOK
    <3>2. boardsOf[c] \cup {call[c].board} \in SUBSET Boards
      BY <1>1, <3>1
    <3>3. [boardsOf EXCEPT ![c] = boardsOf[c] \cup {call[c].board}] \in [Conns -> SUBSET Boards]
      BY <3>1, <3>2
    <3> QED
      BY <3>1, <3>3
  <2> QED
    BY <2>1, <2>2 DEF TypeOK
<1>3. CallsHold'
  BY <1>1 DEF CallsHold, At, TypeOK
<1>4. Ends'
  BY <1>1 DEF Ends, TypeOK
<1> QED
  BY <1>2, <1>3, <1>4

LEMMA JoinStoreKeeps ==
  ASSUME PresenceInductive, NEW c \in Conns, JoinStore(c)
  PROVE  PresenceInductive'
<1> USE DEF PresenceInductive
<1> DEFINE n == [call[c] EXCEPT !.step = "snap",
                                !.users = Snapshot(call[c].board) \cup {Who(c)}]
<1>1. call[c] # NoCall /\ call[c] \in Call
  BY DEF JoinStore, At, TypeOK
<1>2. Snapshot(call[c].board) \cup {Who(c)} \in SUBSET Users
  BY SnapshotType, WhoIsUser
<1>3. n \in Call /\ n.step = "snap"
  BY <1>1, <1>2 DEF Call
<1>4. call' = [call EXCEPT ![c] = n]
  BY DEF JoinStore, TypeOK
<1>5. outbox' \in [Conns -> Seq(Message)] /\ excused' \subseteq Tabs \X Users
  BY ExcuseType DEF JoinStore, TypeOK
<1>6. /\ UNCHANGED <<status, group, goodbye, asked, link, seen>> /\ At(c, "join", "store")
      /\ boardsOf' = [boardsOf EXCEPT ![c] = @ \cup {call[c].board}]
  BY DEF JoinStore
<1> HIDE DEF n
<1> QED
  BY <1>1, <1>3, <1>4, <1>5, <1>6, CallStepKeeps

LEMMA SendSnapshotKeeps ==
  ASSUME PresenceInductive, NEW c \in Conns, SendSnapshot(c)
  PROVE  PresenceInductive'
<1> USE DEF PresenceInductive
<1> DEFINE n == [call[c] EXCEPT !.step = "cast"]
<1>1. call[c] # NoCall /\ call[c] \in Call /\ call[c].users \in SUBSET Users
  BY DEF SendSnapshot, At, TypeOK, Call
<1>2. n \in Call /\ n.step = "cast"
  BY <1>1 DEF Call
<1>3. call' = [call EXCEPT ![c] = n]
  BY DEF SendSnapshot, TypeOK
<1>4. outbox' \in [Conns -> Seq(Message)]
  BY <1>1, MessagesAre, PostType DEF SendSnapshot
<1>5. /\ UNCHANGED <<status, boardsOf, group, goodbye, asked, link, seen, excused>>
      /\ excused \subseteq Tabs \X Users
  BY DEF SendSnapshot, TypeOK
<1> HIDE DEF n
<1> QED
  BY <1>1, <1>2, <1>3, <1>4, <1>5, CallStepKeeps

LEMMA RemoveFromGroupKeeps ==
  ASSUME PresenceInductive, NEW c \in Conns, RemoveFromGroup(c)
  PROVE  PresenceInductive'
<1> USE DEF PresenceInductive
<1> DEFINE n == [call[c] EXCEPT !.step = "cast"]
<1>1. call[c] # NoCall /\ call[c] \in Call /\ call[c].board \in Boards
  BY DEF RemoveFromGroup, At, TypeOK, Call
<1>2. n \in Call /\ n.step = "cast"
  BY <1>1 DEF Call
<1>3. /\ UNCHANGED <<status, boardsOf, goodbye, outbox, asked, link, seen, excused>>
      /\ call' = [call EXCEPT ![c] = n]
      /\ group' = [group EXCEPT ![call[c].board] = @ \ {c}]
      /\ At(c, "leave", "remove")
  BY DEF RemoveFromGroup, TypeOK
<1> HIDE DEF n
<1>4. TypeOK'
  BY <1>1, <1>2, <1>3 DEF TypeOK
<1>5. CallsHold'
  BY <1>1, <1>2, <1>3 DEF CallsHold, At, TypeOK, Call
<1>6. Ends'
  BY <1>1, <1>3 DEF Ends, TypeOK
<1> QED
  BY <1>4, <1>5, <1>6

LEMMA CastKeeps ==
  ASSUME PresenceInductive, NEW c \in Conns, Cast(c)
  PROVE  PresenceInductive'
<1> USE DEF PresenceInductive
<1> DEFINE n == [call[c] EXCEPT !.step = "fan", !.to = Audience(call[c].board)]
<1>1. call[c] # NoCall /\ call[c] \in Call /\ call[c].board \in Boards
  BY DEF Cast, TypeOK, Call
<1>2. Audience(call[c].board) \in SUBSET Conns
  BY <1>1, AudienceType
<1>3. n \in Call /\ n.step = "fan"
  BY <1>1, <1>2 DEF Call
<1>4. call' = [call EXCEPT ![c] = n]
  BY DEF Cast, TypeOK
<1>5. /\ UNCHANGED <<status, boardsOf, group, goodbye, outbox, asked, link, seen, excused>>
      /\ outbox \in [Conns -> Seq(Message)] /\ excused \subseteq Tabs \X Users
  BY DEF Cast, TypeOK
<1> HIDE DEF n
<1> QED
  BY <1>1, <1>3, <1>4, <1>5, CallStepKeeps

LEMMA SendKeeps ==
  ASSUME PresenceInductive, NEW c \in Conns, NEW r \in Conns, Send(c, r)
  PROVE  PresenceInductive'
<1> USE DEF PresenceInductive
<1> DEFINE k == IF call[c].op = "join" THEN "joined" ELSE "left"
           n == [call[c] EXCEPT !.to = @ \ {r}]
<1>1. call[c] # NoCall /\ call[c] \in Call
  BY DEF Send, TypeOK
<1>2. n \in Call /\ n.step = "fan"
  BY <1>1 DEF Call, Send
<1>3. call' = [call EXCEPT ![c] = n]
  BY DEF Send, TypeOK
<1>4. outbox' \in [Conns -> Seq(Message)]
  <2>1. [kind |-> k, users |-> {Who(c)}] \in Message
    BY WhoIsUser, MessagesAre
  <2> QED
    BY <2>1, PostType DEF Send
<1>5. excused' \subseteq Tabs \X Users
  BY WhoIsUser, MisplacedType DEF Send, TypeOK
<1>6. UNCHANGED <<status, boardsOf, group, goodbye, asked, link, seen>>
  BY DEF Send
<1> HIDE DEF n
<1> QED
  BY <1>1, <1>2, <1>3, <1>4, <1>5, <1>6, CallStepKeeps

LEMMA FinishKeeps ==
  ASSUME PresenceInductive, NEW c \in Conns, Finish(c)
  PROVE  PresenceInductive'
<1> USE DEF PresenceInductive
<1>1. TypeOK'
  BY DEF Finish, TypeOK
<1>2. CallsHold'
  BY DEF Finish, CallsHold, At, TypeOK
<1>3. Ends'
  BY DEF Finish, Ends, TypeOK
<1> QED
  BY <1>1, <1>2, <1>3

-----------------------------------------------------------------------------
(* The end of a connection.                                                *)

(* The handler of a lost connection touches no open one.                   *)
LEMMA RemoveConnectionKeeps ==
  ASSUME PresenceInductive, NEW c \in Conns, RemoveConnection(c)
  PROVE  PresenceInductive'
<1> USE DEF PresenceInductive
<1> DEFINE bye == [boards |-> boardsOf[c], now |-> {}, to |-> {}]
<1>1. bye \in Goodbye /\ status[c] = "lost"
  BY DEF RemoveConnection, TypeOK, Goodbye
<1>2. goodbye' = [goodbye EXCEPT ![c] = bye]
  BY DEF RemoveConnection
<1>3. /\ boardsOf' = [boardsOf EXCEPT ![c] = {}]
      /\ UNCHANGED <<status, group, call, outbox, asked, link, seen>>
  BY DEF RemoveConnection
<1> HIDE DEF bye
<1>4. TypeOK'
  <2>1. excused' \subseteq Tabs \X Users
    BY ExcuseType DEF RemoveConnection
  <2>2. boardsOf' \in [Conns -> SUBSET Boards] /\ goodbye' \in [Conns -> Goodbye \cup {NoCall}]
    BY <1>1, <1>2, <1>3 DEF TypeOK
  <2> QED
    BY <1>3, <2>1, <2>2 DEF TypeOK
<1>5. CallsHold'
  <2>1. status' = status /\ group' = group /\ call' = call
    BY <1>3
  <2>2. \A d \in Conns : d # c => boardsOf'[d] = boardsOf[d]
    BY <1>3 DEF TypeOK
  <2>3. \A d \in Conns : status[d] = "open" => d # c
    BY <1>1
  <2> QED
    BY <2>1, <2>2, <2>3 DEF CallsHold, At
<1>6. Ends'
  BY <1>1, <1>2, <1>3 DEF Ends, TypeOK
<1> QED
  BY <1>4, <1>5, <1>6

LEMMA GoodbyeCastKeeps ==
  ASSUME PresenceInductive, NEW c \in Conns, NEW b \in Boards, GoodbyeCast(c, b)
  PROVE  PresenceInductive'
<1> USE DEF PresenceInductive
<1> DEFINE bye == [boards |-> goodbye[c].boards \ {b}, now |-> {b}, to |-> Audience(b)]
<1>1. goodbye[c] \in Goodbye /\ goodbye[c] # NoCall
  BY DEF GoodbyeCast, TypeOK
<1>2. bye \in Goodbye
  BY <1>1, AudienceType DEF Goodbye
<1>3. goodbye' = [goodbye EXCEPT ![c] = bye]
  BY DEF GoodbyeCast, TypeOK
<1>4. UNCHANGED <<status, boardsOf, group, call, outbox, asked, link, seen, excused>>
  BY DEF GoodbyeCast
<1> HIDE DEF bye
<1>5. TypeOK'
  BY <1>2, <1>3, <1>4 DEF TypeOK
<1>6. CallsHold'
  BY <1>4 DEF CallsHold, At
<1>7. Ends'
  BY <1>1, <1>3, <1>4 DEF Ends, TypeOK
<1> QED
  BY <1>5, <1>6, <1>7

LEMMA GoodbyeSendKeeps ==
  ASSUME PresenceInductive, NEW c \in Conns, NEW r \in Conns, GoodbyeSend(c, r)
  PROVE  PresenceInductive'
<1> USE DEF PresenceInductive
<1> DEFINE bye == [goodbye[c] EXCEPT !.to = @ \ {r}]
<1>1. goodbye[c] \in Goodbye /\ goodbye[c] # NoCall
  BY DEF GoodbyeSend, TypeOK
<1>2. bye \in Goodbye
  BY <1>1 DEF Goodbye
<1>3. goodbye' = [goodbye EXCEPT ![c] = bye]
  BY DEF GoodbyeSend, TypeOK
<1>4. UNCHANGED <<status, boardsOf, group, call, asked, link, seen>>
  BY DEF GoodbyeSend
<1>5. outbox' \in [Conns -> Seq(Message)]
  <2>1. [kind |-> "left", users |-> {Who(c)}] \in Message
    BY WhoIsUser, MessagesAre
  <2> QED
    BY <2>1, PostType DEF GoodbyeSend
<1>6. excused' \subseteq Tabs \X Users
  BY WhoIsUser, MisplacedType DEF GoodbyeSend, TypeOK
<1> HIDE DEF bye
<1>7. TypeOK'
  BY <1>2, <1>3, <1>4, <1>5, <1>6 DEF TypeOK
<1>8. CallsHold'
  BY <1>4 DEF CallsHold, At
<1>9. Ends'
  BY <1>1, <1>3, <1>4 DEF Ends, TypeOK
<1> QED
  BY <1>7, <1>8, <1>9

LEMMA CloseKeeps ==
  ASSUME PresenceInductive, NEW c \in Conns, Close(c)
  PROVE  PresenceInductive'
<1> USE DEF PresenceInductive
<1>1. TypeOK'
  BY DEF Close, TypeOK
<1>2. CallsHold'
  BY DEF Close, CallsHold, Ends, At, TypeOK, Call
<1>3. Ends'
  BY DEF Close, Ends, TypeOK
<1> QED
  BY <1>1, <1>2, <1>3

-----------------------------------------------------------------------------
(* A tab handles a message.                                                *)

LEMMA HandleKeeps ==
  ASSUME PresenceInductive, NEW t \in Tabs, Handle(t)
  PROVE  PresenceInductive'
<1> USE DEF PresenceInductive
<1> DEFINE c == link[t]
<1>1. c \in Conns /\ outbox[c] # <<>> /\ outbox[c] \in Seq(Message)
  BY DEF Handle, TypeOK
<1>2. Head(outbox[c]) \in Message /\ Tail(outbox[c]) \in Seq(Message)
  BY <1>1, HeadTailProperties
<1>3. Listed(seen[t], Head(outbox[c])) \in SUBSET Users
  <2> DEFINE m == Head(outbox[c])
  <2>1. m.users \in SUBSET Users /\ seen[t] \in SUBSET Users
        /\ m.kind \in {"snapshot", "joined", "left"}
    BY <1>2 DEF Message, TypeOK
  <2> HIDE DEF m
  <2>2. Listed(seen[t], m) \in {m.users, seen[t] \cup m.users, seen[t] \ m.users}
    <3>1. CASE m.kind = "snapshot"
      <4>1. Listed(seen[t], m) = m.users
        BY <3>1 DEF Listed
      <4> QED
        BY <4>1
    <3>2. CASE m.kind = "joined"
      <4>1. Listed(seen[t], m) = seen[t] \cup m.users
        BY <3>2 DEF Listed
      <4> QED
        BY <4>1
    <3>3. CASE m.kind = "left"
      <4>1. Listed(seen[t], m) = seen[t] \ m.users
        BY <3>3 DEF Listed
      <4> QED
        BY <4>1
    <3> QED
      BY <2>1, <3>1, <3>2, <3>3
  <2> QED
    BY <2>1, <2>2 DEF m
<1>4. /\ UNCHANGED <<status, boardsOf, group, call, goodbye, asked, link, excused>>
      /\ seen' = [seen EXCEPT ![t] = Listed(seen[t], Head(outbox[c]))]
      /\ outbox' = [outbox EXCEPT ![c] = Tail(outbox[c])]
  BY DEF Handle, serverVars, TypeOK
<1> HIDE DEF c
<1>5. TypeOK'
  BY <1>1, <1>2, <1>3, <1>4 DEF TypeOK
<1>6. CallsHold' /\ Ends'
  BY <1>4 DEF CallsHold, Ends, At
<1> QED
  BY <1>5, <1>6

-----------------------------------------------------------------------------
(* Together.                                                               *)

LEMMA InitInductive ==
  ASSUME Init
  PROVE  PresenceInductive
<1>1. TypeOK
  <2>1. outbox \in [Conns -> Seq(Message)]
    BY EmptySeq DEF Init
  <2>2. link \in [Tabs -> Conns \cup {NoConn}]
    BY PresenceAssumption DEF Init
  <2>3. seen \in [Tabs -> SUBSET Users]
    BY PresenceAssumption, WhoIsUser DEF Init
  <2>4. asked \in 0 .. MaxCalls
    BY PresenceAssumption DEF Init
  <2>5. boardsOf \in [Conns -> SUBSET Boards] /\ group \in [Boards -> SUBSET Conns]
    BY PresenceAssumption DEF Init
  <2> QED
    BY <2>1, <2>2, <2>3, <2>4, <2>5 DEF Init, TypeOK
<1>2. CallsHold
  <2>1. \A c \in Conns : call[c] = NoCall
    BY DEF Init
  <2>2. \A c \in Conns : status[c] = "open" => \A b \in boardsOf[c] : c \in group[b]
    BY PresenceAssumption DEF Init
  <2> QED
    BY <2>1, <2>2 DEF CallsHold, At
<1>3. Ends
  BY DEF Init, Ends
<1> QED
  BY <1>1, <1>2, <1>3 DEF PresenceInductive

LEMMA NextInductive ==
  ASSUME PresenceInductive, [Next]_vars
  PROVE  PresenceInductive'
<1>1. ASSUME NEW c \in Conns, HubStep(c)
      PROVE  PresenceInductive'
  BY <1>1, JoinStoreKeeps, SendSnapshotKeeps, RemoveFromGroupKeeps, CastKeeps, SendKeeps,
     FinishKeeps DEF HubStep
<1>2. ASSUME NEW c \in Conns, GoodbyeStep(c)
      PROVE  PresenceInductive'
  BY <1>2, RemoveConnectionKeeps, GoodbyeCastKeeps, GoodbyeSendKeeps, CloseKeeps DEF GoodbyeStep
<1>3. CASE UNCHANGED vars
  BY <1>3 DEF PresenceInductive, TypeOK, CallsHold, Ends, At, vars
<1> QED
  BY <1>1, <1>2, <1>3, ConnectKeeps, LoseKeeps, AbandonKeeps, AddToGroupKeeps, LeaveStoreKeeps,
     HandleKeeps DEF Next

THEOREM PresenceInductiveHolds == Spec => []PresenceInductive
<1>1. Init => PresenceInductive
  BY InitInductive
<1>2. PresenceInductive /\ [Next]_vars => PresenceInductive'
  BY NextInductive
<1> QED
  BY <1>1, <1>2, PTL DEF Spec

(* The type invariant of the hub's presence and of the tabs' lists.        *)
THEOREM PresenceTypeCorrect == Spec => []TypeOK
<1>1. PresenceInductive => TypeOK
  BY DEF PresenceInductive
<1> QED
  BY <1>1, PresenceInductiveHolds, PTL

(* Whoever the store lists on a board while the connection lives is in the *)
(* board's group: who is shown also hears (JoinBoard enters the group      *)
(* before the store, LeaveBoard leaves the store before the group).        *)
THEOREM PresentAlwaysHear == Spec => []PresentHear
<1>1. PresenceInductive => PresentHear
  BY DEF PresenceInductive, CallsHold, PresentHear, Present
<1> QED
  BY <1>1, PresenceInductiveHolds, PTL
-----------------------------------------------------------------------------
(* The lists of the tabs.                                                  *)
(*                                                                         *)
(* A list is right in the end because every change of the store is on its  *)
(* way to every tab on the board, and nothing that contradicts it is.      *)

(* The entry of user u in every list may be wrong.                         *)
Tainted(u) == \A t \in Tabs : <<t, u>> \in excused

(* The disconnect handler of c has taken it out of the store.              *)
Gone(c) == goodbye[c] # NoCall \/ status[c] = "closed"

Joins(c) == call[c] # NoCall /\ call[c].op = "join"
Leaves(c) == call[c] # NoCall /\ call[c].op = "leave"

(* What a message says of a user.                                          *)
Adds(m, u) == m.kind \in {"snapshot", "joined"} /\ u \in m.users
Drops(m, u) == IF m.kind = "snapshot" THEN u \notin m.users ELSE m.kind = "left" /\ u \in m.users

(* Whether a list that had u, or had not, has it after these messages.     *)
Told(s, u, had) ==
  \/ \E i \in DOMAIN s : Adds(s[i], u) /\ \A j \in DOMAIN s : j > i => ~Drops(s[j], u)
  \/ had /\ \A j \in DOMAIN s : ~Drops(s[j], u)

(* Whether u will be in the list of tab t, when it has handled what it was *)
(* sent and the snapshot that its connection r is about to send.           *)
Shown(t, r, u) ==
  IF At(r, "join", "snap") THEN u \in call[r].users
  ELSE Told(outbox[r], u, u \in seen[t])

(* Connection r is still to hear from c that its user has come to board b, *)
(* or has left it.                                                         *)
ComesFrom(c, b, r) ==
  /\ Joins(c) /\ call[c].board = b
  /\ call[c].step \in {"snap", "cast"} \/ (call[c].step = "fan" /\ r \in call[c].to)
GoesFrom(c, b, r) ==
  \/ Leaves(c) /\ call[c].board = b /\ (call[c].step = "fan" => r \in call[c].to)
  \/ /\ goodbye[c] # NoCall
     /\ b \in goodbye[c].boards \/ (b \in goodbye[c].now /\ r \in goodbye[c].to)

Coming(u, b, r) == \E c \in Conns : Who(c) = u /\ ComesFrom(c, b, r)
Going(u, b, r) == \E c \in Conns : Who(c) = u /\ GoesFrom(c, b, r)

(* A connection of u was lost on board b, and its handler is still to run. *)
Ailing(u, b) == \E c \in Conns : Who(c) = u /\ b \in boardsOf[c] /\ status[c] = "lost"

(* A tab listens to an open connection of its own.                         *)
LinksSound ==
  \A t \in Tabs : link[t] # NoConn => TabOf[link[t]] = t /\ status[link[t]] = "open"

(* A connection is on one board.                                           *)
OneBoard == \A c \in Conns : \A b, o \in boardsOf[c] : b = o

(* A join enters the store at its first await.                             *)
JoinsEnter ==
  \A c \in Conns : Joins(c) =>
    IF call[c].step = "store" THEN boardsOf[c] = {}
    ELSE call[c].step # "remove" /\ (call[c].board \in boardsOf[c] \/ Gone(c))

(* Only a join that outlives its connection puts it back.                  *)
GoneForGood ==
  \A c \in Conns : Gone(c) => Tainted(Who(c)) \/ (boardsOf[c] = {} /\ ~Joins(c))

(* Nobody announces the departure of who is there.                         *)
NoneLeaveWhoStay ==
  \A c \in Conns : \A b \in boardsOf[c] : Leaving(Who(c), b) => Tainted(Who(c))

(* A disconnect handler that has recipients has a board.                   *)
GoodbyesOfBoards == \A c \in Conns : goodbye[c] # NoCall /\ goodbye[c].to # {} => goodbye[c].now # {}

StoreSound == OneBoard /\ JoinsEnter /\ GoneForGood /\ NoneLeaveWhoStay /\ GoodbyesOfBoards

(* The list of a tab has, or is about to have, just the users that are on  *)
(* its board.                                                              *)
ListSound(t, r, b, u) ==
  IF u \in Snapshot(b) THEN Shown(t, r, u) \/ Coming(u, b, r) \/ Ailing(u, b)
  ELSE Shown(t, r, u) => Going(u, b, r)

ListsSound ==
  \A t \in Tabs : link[t] # NoConn =>
    \A b \in boardsOf[link[t]] : \A u \in Users :
      <<t, u>> \in excused \/ ListSound(t, link[t], b, u)

ListsInductive == LinksSound /\ StoreSound /\ ListsSound

(* A message at the end of a queue, or at its head, and what it says.      *)
LEMMA ToldAtEnd ==
  ASSUME NEW s \in Seq(Message), NEW m \in Message, NEW u, NEW had \in BOOLEAN
  PROVE  Told(Append(s, m), u, had) <=> Adds(m, u) \/ (~Drops(m, u) /\ Told(s, u, had))
<1> DEFINE n == Len(s)  a == Append(s, m)
<1>1. /\ n \in Nat /\ DOMAIN s = 1 .. n /\ DOMAIN a = 1 .. n + 1 /\ a[n + 1] = m
      /\ \A i \in 1 .. n : a[i] = s[i]
  OBVIOUS
<1>2. Adds(m, u) => ~Drops(m, u)
  BY DEF Adds, Drops
<1> HIDE DEF n, a
<1>3. Adds(m, u) => Told(a, u, had)
  BY <1>1 DEF Told
<1>4. ASSUME Drops(m, u) PROVE ~Told(a, u, had)
  BY <1>1, <1>2, <1>4 DEF Told
<1>5. ASSUME ~Drops(m, u), Told(s, u, had) PROVE Told(a, u, had)
  BY <1>1, <1>5 DEF Told
<1>6. ASSUME ~Drops(m, u), ~Adds(m, u), Told(a, u, had) PROVE Told(s, u, had)
  <2>1. CASE had /\ \A j \in DOMAIN a : ~Drops(a[j], u)
    BY <1>1, <2>1 DEF Told
  <2>2. ASSUME NEW i \in DOMAIN a, Adds(a[i], u), \A j \in DOMAIN a : j > i => ~Drops(a[j], u)
        PROVE  Told(s, u, had)
    <3>1. i \in 1 .. n
      BY <1>1, <1>6, <2>2
    <3> QED
      BY <1>1, <2>2, <3>1 DEF Told
  <2> QED
    BY <1>6, <2>1, <2>2 DEF Told
<1> QED
  BY <1>3, <1>4, <1>5, <1>6 DEF a

LEMMA ToldAtHead ==
  ASSUME NEW s \in Seq(Message), s # <<>>, NEW u, NEW had \in BOOLEAN
  PROVE  Told(s, u, had) <=> Told(Tail(s), u, Adds(Head(s), u) \/ (had /\ ~Drops(Head(s), u)))
<1> DEFINE n == Len(s)  a == Tail(s)
           now == Adds(Head(s), u) \/ (had /\ ~Drops(Head(s), u))
<1>1. /\ n \in Nat /\ n >= 1 /\ DOMAIN s = 1 .. n /\ Head(s) = s[1]
      /\ a \in Seq(Message) /\ Len(a) = n - 1
      /\ \A i \in 1 .. n - 1 : a[i] = s[i + 1]
  OBVIOUS
<1>2. DOMAIN a = 1 .. n - 1
  BY <1>1
<1>3. \A j \in DOMAIN a : j + 1 \in DOMAIN s /\ j + 1 # 1 /\ a[j] = s[j + 1]
  BY <1>1, <1>2
<1>4. \A j \in DOMAIN s : j # 1 => j > 1 /\ j - 1 \in DOMAIN a /\ a[j - 1] = s[j]
  BY <1>1, <1>2
<1>5. 1 \in DOMAIN s /\ DOMAIN s \subseteq Nat /\ DOMAIN a \subseteq Nat
  BY <1>1, <1>2
<1> HIDE DEF n, a
<1>6. ASSUME Told(s, u, had) PROVE Told(a, u, now)
  <2>1. CASE had /\ \A j \in DOMAIN s : ~Drops(s[j], u)
    <3>1. now
      BY <1>1, <2>1
    <3>2. \A j \in DOMAIN a : ~Drops(a[j], u)
      BY <1>3, <2>1
    <3> QED
      BY <3>1, <3>2 DEF Told
  <2>2. ASSUME NEW i \in DOMAIN s, Adds(s[i], u), \A j \in DOMAIN s : j > i => ~Drops(s[j], u)
        PROVE  Told(a, u, now)
    <3>1. CASE i = 1
      <4>1. now
        BY <1>1, <2>2, <3>1
      <4>2. \A j \in DOMAIN a : j + 1 > i
        BY <1>5, <3>1
      <4>3. \A j \in DOMAIN a : ~Drops(a[j], u)
        BY <1>3, <2>2, <4>2
      <4> QED
        BY <4>1, <4>3 DEF Told
    <3>2. CASE i # 1
      <4>1. i - 1 \in DOMAIN a /\ a[i - 1] = s[i]
        BY <1>4, <3>2
      <4>2. \A j \in DOMAIN a : j > i - 1 => j + 1 > i
        BY <1>5
      <4>3. \A j \in DOMAIN a : j > i - 1 => ~Drops(a[j], u)
        BY <1>3, <2>2, <4>2
      <4> QED
        BY <2>2, <4>1, <4>3 DEF Told
    <3> QED
      BY <3>1, <3>2
  <2> QED
    BY <1>6, <2>1, <2>2 DEF Told
<1>7. ASSUME Told(a, u, now) PROVE Told(s, u, had)
  <2>1. ASSUME now, \A j \in DOMAIN a : ~Drops(a[j], u) PROVE Told(s, u, had)
    <3>1. ASSUME NEW j \in DOMAIN s, j > 1 PROVE ~Drops(s[j], u)
      <4>1. j - 1 \in DOMAIN a /\ a[j - 1] = s[j]
        BY <1>4, <1>5, <3>1
      <4> QED
        BY <2>1, <4>1
    <3>2. 1 \in DOMAIN s /\ \A j \in DOMAIN s : j = 1 \/ j > 1
      BY <1>4, <1>5
    <3>3. CASE Adds(Head(s), u)
      BY <1>1, <3>1, <3>2, <3>3 DEF Told
    <3>4. CASE had /\ ~Drops(Head(s), u)
      BY <1>1, <3>1, <3>2, <3>4 DEF Told
    <3> QED
      BY <2>1, <3>3, <3>4
  <2>2. ASSUME NEW i \in DOMAIN a, Adds(a[i], u), \A j \in DOMAIN a : j > i => ~Drops(a[j], u)
        PROVE  Told(s, u, had)
    <3>1. i + 1 \in DOMAIN s /\ s[i + 1] = a[i]
      BY <1>3
    <3>2. ASSUME NEW j \in DOMAIN s, j > i + 1 PROVE ~Drops(s[j], u)
      <4>1. j - 1 \in DOMAIN a /\ a[j - 1] = s[j] /\ j - 1 > i
        BY <1>4, <1>5, <3>2
      <4> QED
        BY <2>2, <4>1
    <3> QED
      BY <2>2, <3>1, <3>2 DEF Told
  <2> QED
    BY <1>7, <2>1, <2>2 DEF Told
<1> QED
  BY <1>6, <1>7 DEF a, now

LEMMA ListedSays ==
  ASSUME NEW users, NEW m \in Message, NEW u
  PROVE  u \in Listed(users, m) <=> Adds(m, u) \/ (u \in users /\ ~Drops(m, u))
<1>1. m.kind \in {"snapshot", "joined", "left"}
  BY DEF Message
<1>2. CASE m.kind = "snapshot"
  BY <1>2 DEF Listed, Adds, Drops
<1>3. CASE m.kind = "joined"
  BY <1>3 DEF Listed, Adds, Drops
<1>4. CASE m.kind = "left"
  BY <1>4 DEF Listed, Adds, Drops
<1> QED
  BY <1>1, <1>2, <1>3, <1>4

-----------------------------------------------------------------------------
(* What stays of the lists, the links and the store.                       *)

LEMMA TaintStays ==
  ASSUME excused \subseteq excused', NEW u, Tainted(u)
  PROVE  Tainted(u)'
BY DEF Tainted

LEMMA TaintComes ==
  ASSUME NEW u, Excuse(Tabs, {u})
  PROVE  Tainted(u)' /\ excused \subseteq excused'
BY DEF Tainted, Excuse

(* A tab on a board: its list, and its connection.                         *)
LEMMA OnBoard ==
  ASSUME PresenceInductive, ListsInductive, NEW t \in Tabs, NEW r \in Conns, link[t] = r,
         NEW b \in boardsOf[r]
  PROVE  /\ b \in Boards /\ TabOf[r] = t /\ status[r] = "open" /\ Heard(r)
         /\ r \in group[b] /\ ~Gone(r)
         /\ \A o \in boardsOf[r] : o = b
         /\ \A u \in Users : <<t, u>> \notin excused => ListSound(t, r, b, u) /\ ~Tainted(u)
<1>1. r # NoConn /\ boardsOf[r] \subseteq Boards
  BY MarkersDiffer DEF PresenceInductive, TypeOK
<1>2. TabOf[r] = t /\ status[r] = "open"
  BY <1>1 DEF ListsInductive, LinksSound
<1>3. r \in group[b] /\ ~Gone(r)
  BY <1>2 DEF PresenceInductive, CallsHold, Ends, Gone
<1> QED
  BY <1>1, <1>2, <1>3 DEF ListsInductive, ListsSound, Heard, StoreSound, OneBoard, Tainted

LEMMA ListsShown ==
  ASSUME TypeOK', \A t \in Tabs : \A r \in Conns : link'[t] = r =>
           \A b \in boardsOf'[r] : \A u \in Users : <<t, u>> \notin excused' => ListSound(t, r, b, u)'
  PROVE  ListsSound'
<1> SUFFICES ASSUME NEW t \in Tabs, link'[t] # NoConn, NEW b \in boardsOf'[link'[t]], NEW u \in Users,
                    <<t, u>> \notin excused'
             PROVE  ListSound(t, link[t], b, u)'
  BY DEF ListsSound
<1>1. PICK r \in Conns : link'[t] = r
  BY DEF TypeOK
<1>2. ListSound(t, r, b, u)'
  BY <1>1
<1> QED
  BY <1>1, <1>2 DEF ListSound, Shown, Coming, Going, ComesFrom, GoesFrom, At

LEMMA ListStays ==
  ASSUME NEW t, NEW r, NEW b, NEW u, ListSound(t, r, b, u),
         (u \in Snapshot(b))' <=> u \in Snapshot(b), Shown(t, r, u)' <=> Shown(t, r, u),
         Coming(u, b, r) => Coming(u, b, r)' \/ Ailing(u, b)', Going(u, b, r) => Going(u, b, r)',
         Ailing(u, b) => Ailing(u, b)'
  PROVE  ListSound(t, r, b, u)'
BY DEF ListSound

LEMMA ShownStays ==
  ASSUME NEW t \in Tabs, NEW r \in Conns, NEW u,
         call'[r] = call[r] \/ (~At(r, "join", "snap") /\ ~At(r, "join", "snap")'),
         outbox'[r] = outbox[r], seen'[t] = seen[t]
  PROVE  Shown(t, r, u)' <=> Shown(t, r, u)
BY DEF Shown, At

(* The other calls go on announcing what they announced.                   *)
LEMMA ComingStays ==
  ASSUME NEW c \in Conns, NEW b, NEW r, NEW u, \A d \in Conns : d # c => call'[d] = call[d],
         ComesFrom(c, b, r) /\ Who(c) = u => ComesFrom(c, b, r)' \/ Ailing(u, b)'
  PROVE  Coming(u, b, r) => Coming(u, b, r)' \/ Ailing(u, b)'
BY DEF Coming, ComesFrom, Joins, Who

LEMMA GoingStays ==
  ASSUME NEW c \in Conns, NEW b, NEW r, NEW u,
         \A d \in Conns : d # c => call'[d] = call[d] /\ goodbye'[d] = goodbye[d],
         GoesFrom(c, b, r) /\ Who(c) = u => GoesFrom(c, b, r)'
  PROVE  Going(u, b, r) => Going(u, b, r)'
BY DEF Going, GoesFrom, Leaves, Who

LEMMA StoreStays ==
  ASSUME boardsOf' = boardsOf, NEW b
  PROVE  Snapshot(b)' = Snapshot(b)
BY DEF Snapshot, Present, Who

(* The store stays, and the calls go on with what they were made for.      *)
LEMMA StoreSoundStays ==
  ASSUME StoreSound, boardsOf' = boardsOf, excused \subseteq excused',
         \A c \in Conns :
           \/ ~Joins(c)'
           \/ Joins(c) /\ call'[c].board = call[c].board /\ call'[c].step # "store"
              /\ call'[c].step # "remove" /\ call[c].step # "store"
           \/ call'[c] = call[c]
           \/ boardsOf[c] = {} /\ call'[c].step = "store" /\ ~Gone(c)',
         \A c \in Conns : Gone(c)' <=> Gone(c),
         \A u \in Users : \A b \in Boards : Leaving(u, b)' => Leaving(u, b),
         boardsOf \in [Conns -> SUBSET Boards], GoodbyesOfBoards'
  PROVE  StoreSound'
<1>1. OneBoard'
  BY DEF StoreSound, OneBoard
<1>2. JoinsEnter'
  <2> SUFFICES ASSUME NEW c \in Conns, Joins(c)'
               PROVE  IF call'[c].step = "store" THEN boardsOf'[c] = {}
                      ELSE call'[c].step # "remove" /\ (call'[c].board \in boardsOf'[c] \/ Gone(c)')
    BY DEF JoinsEnter
  <2>1. CASE call'[c] = call[c]
    BY <2>1 DEF StoreSound, JoinsEnter, Joins
  <2>2. CASE call'[c] # call[c]
    BY <2>2 DEF StoreSound, JoinsEnter
  <2> QED
    BY <2>1, <2>2
<1>3. GoneForGood'
  <2> SUFFICES ASSUME NEW c \in Conns, Gone(c)'
               PROVE  Tainted(Who(c))' \/ (boardsOf'[c] = {} /\ ~Joins(c)')
    BY DEF GoneForGood, Who, Tainted
  <2>1. Tainted(Who(c)) \/ (boardsOf[c] = {} /\ ~Joins(c))
    BY DEF StoreSound, GoneForGood
  <2>2. Joins(c)' => Joins(c)
    BY DEF Joins
  <2> QED
    BY <2>1, <2>2, TaintStays
<1>4. NoneLeaveWhoStay'
  <2> SUFFICES ASSUME NEW c \in Conns, NEW b \in boardsOf[c], Leaving(Who(c), b)'
               PROVE  Tainted(Who(c))'
    BY DEF NoneLeaveWhoStay, Who, Tainted, Leaving
  <2>1. Who(c) \in Users /\ b \in Boards
    BY WhoIsUser
  <2>2. Leaving(Who(c), b)
    BY <2>1
  <2> QED
    BY <2>2, TaintStays DEF StoreSound, NoneLeaveWhoStay
<1> QED
  BY <1>1, <1>2, <1>3, <1>4 DEF StoreSound

(* The calls keep their purpose, and the disconnect handlers their boards. *)
LEMMA LeaversStay ==
  ASSUME \A c \in Conns : Leaves(c)' => Leaves(c) /\ call'[c].board = call[c].board,
         \A c \in Conns : goodbye'[c] # NoCall =>
           goodbye[c] # NoCall
           /\ goodbye'[c].boards \cup goodbye'[c].now \subseteq goodbye[c].boards \cup goodbye[c].now,
         NEW u, NEW b
  PROVE  Leaving(u, b)' => Leaving(u, b)
BY DEF Leaving, Leaves, Who

-----------------------------------------------------------------------------
(* The steps of connections and tabs keep the lists.                       *)

(* Steps that leave the store, the calls and the announcements alone.      *)
LEMMA ListsStay ==
  ASSUME PresenceInductive, ListsInductive, TypeOK',
         UNCHANGED <<boardsOf, call, goodbye, excused>>,
         \A c \in Conns : status[c] = "lost" => status'[c] = "lost",
         \A c \in Conns : status'[c] = "closed" <=> status[c] = "closed",
         LinksSound',
         \A t \in Tabs : \A r \in Conns : link'[t] = r /\ boardsOf[r] # {} =>
           link[t] = r /\ \A u \in Users : Shown(t, r, u)' <=> Shown(t, r, u)
  PROVE  ListsInductive'
<1>1. StoreSound'
  <2>1. boardsOf \in [Conns -> SUBSET Boards]
    BY DEF PresenceInductive, TypeOK
  <2>2. \A u \in Users : \A b \in Boards : Leaving(u, b)' => Leaving(u, b)
    BY DEF Leaving, Who
  <2>3. GoodbyesOfBoards'
    BY DEF ListsInductive, StoreSound, GoodbyesOfBoards
  <2>4. \A c \in Conns : Gone(c)' <=> Gone(c)
    BY DEF Gone
  <2>5. excused \subseteq excused' /\ boardsOf' = boardsOf /\ StoreSound
    BY DEF ListsInductive
  <2>6. \A c \in Conns :
          \/ ~Joins(c)'
          \/ Joins(c) /\ call'[c].board = call[c].board /\ call'[c].step # "store"
             /\ call'[c].step # "remove" /\ call[c].step # "store"
          \/ call'[c] = call[c]
          \/ boardsOf[c] = {} /\ call'[c].step = "store" /\ ~Gone(c)'
    OBVIOUS
  <2> QED
    BY <2>1, <2>2, <2>3, <2>4, <2>5, <2>6, StoreSoundStays
<1>2. ListsSound'
  <2> SUFFICES ASSUME NEW t \in Tabs, NEW r \in Conns, link'[t] = r, NEW b \in boardsOf'[r],
                      NEW u \in Users, <<t, u>> \notin excused'
               PROVE  ListSound(t, r, b, u)'
    BY ListsShown
  <2>1. link[t] = r /\ b \in boardsOf[r] /\ (Shown(t, r, u)' <=> Shown(t, r, u))
    OBVIOUS
  <2>2. ListSound(t, r, b, u)
    BY <2>1, OnBoard
  <2>3. /\ Coming(u, b, r) => Coming(u, b, r)'
        /\ Going(u, b, r) => Going(u, b, r)'
        /\ Ailing(u, b) => Ailing(u, b)'
    BY DEF Coming, Going, ComesFrom, GoesFrom, Ailing, Joins, Leaves, Who
  <2>4. (u \in Snapshot(b))' <=> u \in Snapshot(b)
    BY StoreStays
  <2> QED
    BY <2>1, <2>2, <2>3, <2>4, ListStays
<1> QED
  BY <1>1, <1>2 DEF ListsInductive

LEMMA ConnectKeepsLists ==
  ASSUME PresenceInductive, ListsInductive, NEW c \in Conns, Connect(c)
  PROVE  ListsInductive'
<1>1. TypeOK'
  BY ConnectKeeps DEF PresenceInductive
<1>2. /\ status[c] = "new" /\ status' = [status EXCEPT ![c] = "open"]
      /\ link' = [link EXCEPT ![TabOf[c]] = c] /\ TabOf[c] \in Tabs
      /\ UNCHANGED <<boardsOf, group, call, goodbye, asked, seen, excused>>
  BY PresenceAssumption DEF Connect
<1>3. /\ \A d \in Conns : status'[d] = IF d = c THEN "open" ELSE status[d]
      /\ \A t \in Tabs : link'[t] = IF t = TabOf[c] THEN c ELSE link[t]
  BY <1>2 DEF PresenceInductive, TypeOK
<1>4. LinksSound'
  BY <1>2, <1>3, PresenceAssumption DEF ListsInductive, LinksSound, PresenceInductive, TypeOK
<1>5. ASSUME NEW t \in Tabs, NEW r \in Conns, link'[t] = r, boardsOf[r] # {}
      PROVE  link[t] = r /\ \A u \in Users : Shown(t, r, u)' <=> Shown(t, r, u)
  <2>1. r # c
    BY <1>2, <1>5 DEF PresenceInductive, Ends
  <2>2. link[t] = r /\ t # TabOf[c]
    BY <1>3, <1>5, <2>1
  <2>3. r # NoConn /\ TabOf[r] = t
    BY <2>2, MarkersDiffer DEF ListsInductive, LinksSound
  <2>4. link[TabOf[c]] # r
    BY <1>2, <2>2, <2>3, MarkersDiffer DEF ListsInductive, LinksSound
  <2>5. outbox'[r] = outbox[r]
    BY <2>4 DEF Connect
  <2> QED
    BY <1>2, <2>2, <2>5, ShownStays
<1> QED
  BY <1>1, <1>2, <1>3, <1>4, <1>5, ListsStay

LEMMA LoseKeepsLists ==
  ASSUME PresenceInductive, ListsInductive, NEW c \in Conns, Lose(c)
  PROVE  ListsInductive'
<1>1. TypeOK'
  BY LoseKeeps DEF PresenceInductive
<1>2. /\ status[c] = "open" /\ status' = [status EXCEPT ![c] = "lost"]
      /\ outbox' = [outbox EXCEPT ![c] = <<>>]
      /\ link' = [t \in Tabs |-> IF link[t] = c THEN NoConn ELSE link[t]]
      /\ UNCHANGED <<boardsOf, group, call, goodbye, asked, seen, excused>>
  BY DEF Lose
<1>3. /\ \A d \in Conns : status'[d] = IF d = c THEN "lost" ELSE status[d]
      /\ \A d \in Conns : d # c => outbox'[d] = outbox[d]
  BY <1>2 DEF PresenceInductive, TypeOK
<1>4. LinksSound'
  BY <1>2, <1>3 DEF ListsInductive, LinksSound, PresenceInductive, TypeOK
<1>5. ASSUME NEW t \in Tabs, NEW r \in Conns, link'[t] = r, boardsOf[r] # {}
      PROVE  link[t] = r /\ \A u \in Users : Shown(t, r, u)' <=> Shown(t, r, u)
  <2>1. r # c /\ link[t] = r
    BY <1>2, <1>5, MarkersDiffer
  <2> QED
    BY <1>2, <1>3, <2>1, ShownStays
<1> QED
  BY <1>1, <1>2, <1>3, <1>4, <1>5, ListsStay

LEMMA HandleKeepsLists ==
  ASSUME PresenceInductive, ListsInductive, NEW o \in Tabs, Handle(o)
  PROVE  ListsInductive'
<1>1. TypeOK'
  BY HandleKeeps DEF PresenceInductive
<1> DEFINE c == link[o]
<1>2. /\ c \in Conns /\ outbox[c] # <<>> /\ outbox[c] \in Seq(Message)
      /\ UNCHANGED <<status, boardsOf, group, call, goodbye, asked, link, excused>>
      /\ seen' = [seen EXCEPT ![o] = Listed(seen[o], Head(outbox[c]))]
      /\ outbox' = [outbox EXCEPT ![c] = Tail(outbox[c])]
  BY DEF Handle, serverVars, PresenceInductive, TypeOK
<1>3. Head(outbox[c]) \in Message
  BY <1>2, HeadTailProperties
<1>4. TabOf[c] = o
  BY <1>2, MarkersDiffer DEF ListsInductive, LinksSound
<1>5. LinksSound'
  BY <1>2 DEF ListsInductive, LinksSound
<1>6. ASSUME NEW t \in Tabs, NEW r \in Conns, link'[t] = r, boardsOf[r] # {}
      PROVE  link[t] = r /\ \A u \in Users : Shown(t, r, u)' <=> Shown(t, r, u)
  <2>1. link[t] = r /\ TabOf[r] = t
    BY <1>2, <1>6, MarkersDiffer DEF ListsInductive, LinksSound
  <2>2. CASE t # o
    <3>1. r # c /\ outbox'[r] = outbox[r] /\ seen'[t] = seen[t]
      BY <1>2, <1>4, <2>1, <2>2 DEF PresenceInductive, TypeOK
    <3> QED
      BY <1>2, <2>1, <3>1, ShownStays
  <2>3. CASE t = o
    <3>1. r = c /\ outbox'[r] = Tail(outbox[r]) /\ seen'[t] = Listed(seen[t], Head(outbox[r]))
      BY <1>2, <2>1, <2>3 DEF PresenceInductive, TypeOK
    <3>2. ASSUME NEW u \in Users
          PROVE  Told(outbox'[r], u, u \in seen'[t]) <=> Told(outbox[r], u, u \in seen[t])
      <4>1. u \in seen'[t] <=> Adds(Head(outbox[r]), u) \/ (u \in seen[t] /\ ~Drops(Head(outbox[r]), u))
        BY <1>3, <3>1, ListedSays
      <4>2. (u \in seen'[t]) = (Adds(Head(outbox[r]), u) \/ (u \in seen[t] /\ ~Drops(Head(outbox[r]), u)))
        BY <4>1 DEF Adds, Drops
      <4>3. Told(outbox[r], u, u \in seen[t])
              <=> Told(Tail(outbox[r]), u,
                       Adds(Head(outbox[r]), u) \/ (u \in seen[t] /\ ~Drops(Head(outbox[r]), u)))
        <5> DEFINE had == u \in seen[t]
        <5>1. had \in BOOLEAN
          OBVIOUS
        <5> HIDE DEF had
        <5>2. Told(outbox[r], u, had)
                <=> Told(Tail(outbox[r]), u, Adds(Head(outbox[r]), u) \/ (had /\ ~Drops(Head(outbox[r]), u)))
          BY <1>2, <3>1, <5>1, ToldAtHead
        <5> QED
          BY <5>2 DEF had
      <4> QED
        BY <3>1, <4>2, <4>3
    <3> QED
      BY <1>2, <2>1, <3>2 DEF Shown, At
  <2> QED
    BY <2>2, <2>3
<1> QED
  BY <1>1, <1>2, <1>5, <1>6, ListsStay

-----------------------------------------------------------------------------
(* The steps of calls keep the lists.                                      *)

LEMMA CallTyped ==
  ASSUME PresenceInductive, NEW c \in Conns, call[c] # NoCall
  PROVE  /\ call[c] \in Call /\ call[c].board \in Boards /\ call[c].op \in {"join", "leave"}
         /\ call[c].step \in {"store", "snap", "remove", "cast", "fan"}
         /\ call[c].to \in SUBSET Conns /\ call[c].users \in SUBSET Users
         /\ Joins(c) \/ Leaves(c)
BY DEF PresenceInductive, TypeOK, Call, Joins, Leaves

(* A connection that is linked stays so while the links and the states of  *)
(* the connections stay.                                                   *)
LEMMA LinksStay ==
  ASSUME LinksSound, UNCHANGED <<status, link>>
  PROVE  LinksSound'
BY DEF LinksSound

(* Steps of one call while the store, the handlers and the lists stay.     *)
LEMMA CallKeepsLists ==
  ASSUME PresenceInductive, ListsInductive, TypeOK', NEW c \in Conns,
         UNCHANGED <<status, boardsOf, goodbye, link, seen>>, excused \subseteq excused',
         \A d \in Conns : d # c => call'[d] = call[d],
         Leaves(c)' => Leaves(c) /\ call'[c].board = call[c].board,
         \/ ~Joins(c)'
         \/ Joins(c) /\ call'[c].board = call[c].board /\ call'[c].step # "store"
              /\ call'[c].step # "remove" /\ call[c].step # "store"
         \/ boardsOf[c] = {} /\ call'[c].step = "store" /\ ~Gone(c)',
         \A t \in Tabs : \A r \in Conns : link[t] = r => \A b \in boardsOf[r] : \A u \in Users :
           \/ <<t, u>> \in excused'
           \/ ListSound(t, r, b, u)'
           \/ /\ Shown(t, r, u)' <=> Shown(t, r, u)
              /\ ComesFrom(c, b, r) /\ Who(c) = u => ComesFrom(c, b, r)' \/ Ailing(u, b)
              /\ GoesFrom(c, b, r) /\ Who(c) = u => GoesFrom(c, b, r)'
  PROVE  ListsInductive'
<1>1. StoreSound'
  <2>1. boardsOf \in [Conns -> SUBSET Boards]
    BY DEF PresenceInductive, TypeOK
  <2>2. ASSUME NEW u \in Users, NEW b \in Boards PROVE Leaving(u, b)' => Leaving(u, b)
    <3>1. \A d \in Conns : Leaves(d)' => Leaves(d) /\ call'[d].board = call[d].board
      BY DEF Leaves
    <3> QED
      BY <3>1 DEF Leaving, Leaves, Who
  <2>3. GoodbyesOfBoards'
    BY DEF ListsInductive, StoreSound, GoodbyesOfBoards
  <2>4. \A d \in Conns : Gone(d)' <=> Gone(d)
    BY DEF Gone
  <2>5. excused \subseteq excused' /\ boardsOf' = boardsOf /\ StoreSound
    BY DEF ListsInductive
  <2>6. \A d \in Conns :
          \/ ~Joins(d)'
          \/ Joins(d) /\ call'[d].board = call[d].board /\ call'[d].step # "store"
             /\ call'[d].step # "remove" /\ call[d].step # "store"
          \/ call'[d] = call[d]
          \/ boardsOf[d] = {} /\ call'[d].step = "store" /\ ~Gone(d)'
    OBVIOUS
  <2> QED
    BY <2>1, <2>2, <2>3, <2>4, <2>5, <2>6, StoreSoundStays
<1>2. ListsSound'
  <2> SUFFICES ASSUME NEW t \in Tabs, NEW r \in Conns, link'[t] = r, NEW b \in boardsOf'[r],
                      NEW u \in Users, <<t, u>> \notin excused', ~ListSound(t, r, b, u)'
               PROVE  FALSE
    BY ListsShown
  <2>1. link[t] = r /\ b \in boardsOf[r]
    OBVIOUS
  <2>2. ListSound(t, r, b, u)
    BY <2>1, OnBoard
  <2>3. /\ Shown(t, r, u)' <=> Shown(t, r, u)
        /\ ComesFrom(c, b, r) /\ Who(c) = u => ComesFrom(c, b, r)' \/ Ailing(u, b)
        /\ GoesFrom(c, b, r) /\ Who(c) = u => GoesFrom(c, b, r)'
    BY <2>1
  <2>4. Ailing(u, b) <=> Ailing(u, b)'
    BY DEF Ailing, Who
  <2>5. Coming(u, b, r) => Coming(u, b, r)' \/ Ailing(u, b)'
    BY <2>3, <2>4, ComingStays
  <2>6. Going(u, b, r) => Going(u, b, r)'
    BY <2>3, GoingStays
  <2>7. (u \in Snapshot(b))' <=> u \in Snapshot(b)
    BY StoreStays
  <2> QED
    BY <2>2, <2>3, <2>4, <2>5, <2>6, <2>7, ListStays
<1> QED
  BY <1>1, <1>2, LinksStay DEF ListsInductive

LEMMA AddToGroupKeepsLists ==
  ASSUME PresenceInductive, ListsInductive, NEW c \in Conns, NEW o \in Boards, AddToGroup(c, o)
  PROVE  ListsInductive'
<1>1. TypeOK'
  BY AddToGroupKeeps DEF PresenceInductive
<1>2. /\ call'[c] # NoCall /\ call'[c].op = "join" /\ call'[c].board = o /\ call'[c].step = "store"
      /\ \A d \in Conns : d # c => call'[d] = call[d]
  BY BeginType DEF AddToGroup, PresenceInductive
<1>3. /\ boardsOf[c] = {} /\ status[c] = "open" /\ call[c] = NoCall
      /\ UNCHANGED <<status, boardsOf, goodbye, outbox, link, seen, excused>>
  BY DEF AddToGroup, Begin
<1>4. ~Gone(c)' /\ ~Leaves(c)'
  BY <1>2, <1>3 DEF PresenceInductive, Ends, Gone, Leaves
<1>5. ASSUME NEW t \in Tabs, NEW r \in Conns, link[t] = r, NEW b \in boardsOf[r], NEW u \in Users
      PROVE  /\ Shown(t, r, u)' <=> Shown(t, r, u)
             /\ ComesFrom(c, b, r) => ComesFrom(c, b, r)'
             /\ GoesFrom(c, b, r) => GoesFrom(c, b, r)'
  <2>1. call'[r] = call[r] \/ (~At(r, "join", "snap") /\ ~At(r, "join", "snap")')
    BY <1>2, <1>3 DEF At
  <2> QED
    BY <1>2, <1>3, <2>1, ShownStays DEF ComesFrom, GoesFrom, Joins, Leaves
<1> QED
  BY <1>1, <1>2, <1>3, <1>4, <1>5, CallKeepsLists

LEMMA SendSnapshotKeepsLists ==
  ASSUME PresenceInductive, ListsInductive, NEW c \in Conns, SendSnapshot(c)
  PROVE  ListsInductive'
<1>1. TypeOK'
  BY SendSnapshotKeeps DEF PresenceInductive
<1>2. call[c] # NoCall /\ call[c].op = "join" /\ call[c].step = "snap"
  BY DEF SendSnapshot, At
<1>3. call[c] \in Call /\ call[c].users \in SUBSET Users
  BY <1>2, CallTyped
<1>4. /\ call'[c] = [call[c] EXCEPT !.step = "cast"]
      /\ \A d \in Conns : d # c => call'[d] = call[d]
      /\ UNCHANGED <<status, boardsOf, group, goodbye, asked, link, seen, excused>>
  BY DEF SendSnapshot, PresenceInductive, TypeOK
<1>5. /\ call'[c].op = "join" /\ call'[c].step = "cast" /\ call'[c].board = call[c].board
      /\ call'[c] \in Call /\ call'[c] # NoCall
  <2> DEFINE n == [call[c] EXCEPT !.step = "cast"]
  <2>1. n \in Call /\ n.op = "join" /\ n.step = "cast" /\ n.board = call[c].board
    BY <1>2, <1>3 DEF Call
  <2>2. call'[c] = n
    BY <1>4
  <2> HIDE DEF n
  <2> QED
    BY <2>1, <2>2, MarkersDiffer
<1>6. ~Leaves(c)' /\ Joins(c)
  BY <1>2, <1>5 DEF Leaves, Joins
<1>7. ASSUME NEW t \in Tabs, NEW r \in Conns, link[t] = r, NEW b \in boardsOf[r], NEW u \in Users
      PROVE  /\ Shown(t, r, u)' <=> Shown(t, r, u)
             /\ ComesFrom(c, b, r) => ComesFrom(c, b, r)'
             /\ GoesFrom(c, b, r) => GoesFrom(c, b, r)'
  <2>1. CASE r # c
    <3>1. outbox'[r] = outbox[r] /\ call'[r] = call[r] /\ seen'[t] = seen[t]
      BY <1>4, <2>1 DEF SendSnapshot, Post, PresenceInductive, TypeOK
    <3> QED
      BY <1>2, <1>4, <1>5, <3>1, ShownStays DEF ComesFrom, GoesFrom, Joins, Leaves
  <2>2. CASE r = c
    <3> DEFINE m == [kind |-> "snapshot", users |-> call[c].users]
               had == u \in seen[t]
    <3>1. Heard(c) /\ outbox[c] \in Seq(Message)
      BY <1>7, <2>2, OnBoard DEF PresenceInductive, TypeOK
    <3>2. outbox'[c] = Append(outbox[c], m)
      BY <3>1 DEF SendSnapshot, Post, PresenceInductive, TypeOK
    <3>3. m \in Message /\ m.kind = "snapshot" /\ m.users = call[c].users
      BY <1>3, MessagesAre
    <3>4. had \in BOOLEAN
      OBVIOUS
    <3> HIDE DEF m, had
    <3>5. Told(outbox'[c], u, had) <=> u \in call[c].users
      BY <3>1, <3>2, <3>3, <3>4, ToldAtEnd DEF Adds, Drops
    <3>6. Shown(t, r, u)' <=> Told(outbox'[c], u, u \in seen[t])
      BY <1>4, <1>5, <2>2 DEF Shown, At
    <3>7. Shown(t, r, u) <=> u \in call[c].users
      BY <1>2, <2>2 DEF Shown, At
    <3>8. Shown(t, r, u)' <=> Shown(t, r, u)
      BY <3>5, <3>6, <3>7 DEF had
    <3> QED
      BY <1>2, <1>4, <1>5, <3>8 DEF ComesFrom, GoesFrom, Joins, Leaves
  <2> QED
    BY <2>1, <2>2
<1> QED
  BY <1>1, <1>2, <1>4, <1>5, <1>6, <1>7, CallKeepsLists

LEMMA RemoveFromGroupKeepsLists ==
  ASSUME PresenceInductive, ListsInductive, NEW c \in Conns, RemoveFromGroup(c)
  PROVE  ListsInductive'
<1>1. TypeOK'
  BY RemoveFromGroupKeeps DEF PresenceInductive
<1>2. call[c] # NoCall /\ call[c].op = "leave" /\ call[c].step = "remove"
  BY DEF RemoveFromGroup, At
<1>3. call[c] \in Call
  BY <1>2, CallTyped
<1>4. /\ call'[c] = [call[c] EXCEPT !.step = "cast"]
      /\ \A d \in Conns : d # c => call'[d] = call[d]
      /\ UNCHANGED <<status, boardsOf, goodbye, outbox, asked, link, seen, excused>>
  BY DEF RemoveFromGroup, PresenceInductive, TypeOK
<1>5. /\ call'[c].op = "leave" /\ call'[c].step = "cast" /\ call'[c].board = call[c].board
      /\ call'[c] # NoCall
  <2> DEFINE n == [call[c] EXCEPT !.step = "cast"]
  <2>1. n \in Call /\ n.op = "leave" /\ n.step = "cast" /\ n.board = call[c].board
    BY <1>2, <1>3 DEF Call
  <2>2. call'[c] = n
    BY <1>4
  <2> HIDE DEF n
  <2> QED
    BY <2>1, <2>2, MarkersDiffer
<1>6. Leaves(c) /\ ~Joins(c)'
  BY <1>2, <1>5 DEF Leaves, Joins
<1>7. ASSUME NEW t \in Tabs, NEW r \in Conns, link[t] = r, NEW b \in boardsOf[r], NEW u \in Users
      PROVE  /\ Shown(t, r, u)' <=> Shown(t, r, u)
             /\ ComesFrom(c, b, r) => ComesFrom(c, b, r)'
             /\ GoesFrom(c, b, r) => GoesFrom(c, b, r)'
  <2>1. call'[r] = call[r] \/ (~At(r, "join", "snap") /\ ~At(r, "join", "snap")')
    BY <1>2, <1>4, <1>5 DEF At
  <2> QED
    BY <1>2, <1>4, <1>5, <2>1, ShownStays DEF ComesFrom, GoesFrom, Joins, Leaves
<1> QED
  BY <1>1, <1>4, <1>5, <1>6, <1>7, CallKeepsLists

(* The recipients of a broadcast are all tabs on the board.                *)
LEMMA CastKeepsLists ==
  ASSUME PresenceInductive, ListsInductive, NEW c \in Conns, Cast(c)
  PROVE  ListsInductive'
<1>1. TypeOK'
  BY CastKeeps DEF PresenceInductive
<1>2. call[c] # NoCall /\ call[c].step = "cast"
  BY DEF Cast
<1>3. call[c] \in Call /\ call[c].board \in Boards
  BY <1>2, CallTyped
<1> DEFINE n == [call[c] EXCEPT !.step = "fan", !.to = Audience(call[c].board)]
<1>4. /\ call'[c] = n /\ \A d \in Conns : d # c => call'[d] = call[d]
      /\ UNCHANGED <<status, boardsOf, group, goodbye, outbox, asked, link, seen, excused>>
  BY DEF Cast, PresenceInductive, TypeOK
<1>5. Audience(call[c].board) \in SUBSET Conns
  BY <1>3, AudienceType DEF PresenceInductive
<1>6. /\ n \in Call /\ n.op = call[c].op /\ n.step = "fan" /\ n.board = call[c].board
      /\ n.to = Audience(call[c].board)
  BY <1>3, <1>5 DEF Call
<1> HIDE DEF n
<1>7. n # NoCall
  BY <1>6, MarkersDiffer
<1>8. /\ Leaves(c)' => Leaves(c) /\ call'[c].board = call[c].board
      /\ ~Joins(c)' \/ (Joins(c) /\ call'[c].board = call[c].board /\ call'[c].step = "fan")
  BY <1>2, <1>4, <1>6, <1>7 DEF Leaves, Joins
<1>9. ASSUME NEW t \in Tabs, NEW r \in Conns, link[t] = r, NEW b \in boardsOf[r], NEW u \in Users
      PROVE  /\ Shown(t, r, u)' <=> Shown(t, r, u)
             /\ ComesFrom(c, b, r) => ComesFrom(c, b, r)'
             /\ GoesFrom(c, b, r) => GoesFrom(c, b, r)'
  <2>1. call'[r] = call[r] \/ (~At(r, "join", "snap") /\ ~At(r, "join", "snap")')
    BY <1>2, <1>4, <1>6 DEF At
  <2>2. r \in Audience(b)
    BY <1>9, OnBoard DEF Audience
  <2> QED
    BY <1>2, <1>4, <1>6, <1>7, <2>1, <2>2, ShownStays DEF ComesFrom, GoesFrom, Joins, Leaves
<1> QED
  BY <1>1, <1>2, <1>4, <1>6, <1>8, <1>9, CallKeepsLists

LEMMA FinishKeepsLists ==
  ASSUME PresenceInductive, ListsInductive, NEW c \in Conns, Finish(c)
  PROVE  ListsInductive'
<1>1. TypeOK'
  BY FinishKeeps DEF PresenceInductive
<1>2. /\ call[c].step = "fan" /\ call[c].to = {} /\ call'[c] = NoCall
      /\ \A d \in Conns : d # c => call'[d] = call[d]
      /\ UNCHANGED <<status, boardsOf, group, goodbye, outbox, asked, link, seen, excused>>
  BY DEF Finish, PresenceInductive, TypeOK
<1>3. ~Leaves(c)' /\ ~Joins(c)'
  BY <1>2 DEF Leaves, Joins
<1>4. ASSUME NEW t \in Tabs, NEW r \in Conns, link[t] = r, NEW b \in boardsOf[r], NEW u \in Users
      PROVE  /\ Shown(t, r, u)' <=> Shown(t, r, u)
             /\ ~ComesFrom(c, b, r)
             /\ GoesFrom(c, b, r) => GoesFrom(c, b, r)'
  <2>1. call'[r] = call[r] \/ (~At(r, "join", "snap") /\ ~At(r, "join", "snap")')
    BY <1>2 DEF At
  <2> QED
    BY <1>2, <2>1, ShownStays DEF ComesFrom, GoesFrom, Joins, Leaves
<1> QED
  BY <1>1, <1>2, <1>3, <1>4, CallKeepsLists

(* A leave that is cut off excuses its user; a join leaves its user to the *)
(* disconnect handler, or has outlived it.                                 *)
LEMMA AbandonKeepsLists ==
  ASSUME PresenceInductive, ListsInductive, NEW c \in Conns, Abandon(c)
  PROVE  ListsInductive'
<1>1. TypeOK'
  BY AbandonKeeps DEF PresenceInductive
<1>2. /\ call[c] # NoCall /\ status[c] \in {"lost", "closed"} /\ call'[c] = NoCall
      /\ \A d \in Conns : d # c => call'[d] = call[d]
      /\ UNCHANGED <<status, boardsOf, group, goodbye, outbox, asked, link, seen>>
  BY DEF Abandon, PresenceInductive, TypeOK
<1>3. ~Leaves(c)' /\ ~Joins(c)' /\ call[c].op \in {"join", "leave"}
  BY <1>2, CallTyped DEF Leaves, Joins
<1>4. excused \subseteq excused' /\ (call[c].op = "leave" => Tainted(Who(c))')
  BY <1>3, TaintComes DEF Abandon
<1>5. ASSUME NEW t \in Tabs, NEW r \in Conns, link[t] = r, NEW b \in boardsOf[r], NEW u \in Users,
             <<t, u>> \notin excused'
      PROVE  /\ Shown(t, r, u)' <=> Shown(t, r, u)
             /\ ComesFrom(c, b, r) /\ Who(c) = u => Ailing(u, b)
             /\ GoesFrom(c, b, r) /\ Who(c) = u => GoesFrom(c, b, r)'
  <2>1. status[r] = "open" /\ ~Tainted(u) /\ ~Tainted(u)'
    BY <1>4, <1>5, OnBoard DEF Tainted
  <2>2. r # c /\ call'[r] = call[r]
    BY <1>2, <2>1
  <2>3. ASSUME ComesFrom(c, b, r), Who(c) = u PROVE Ailing(u, b)
    <3>1. Joins(c) /\ call[c].board = b /\ call[c].step # "store"
      BY <2>3 DEF ComesFrom
    <3>2. ~Gone(c)
      BY <2>1, <2>3, <3>1 DEF ListsInductive, StoreSound, GoneForGood
    <3>3. b \in boardsOf[c] /\ status[c] = "lost"
      BY <1>2, <3>1, <3>2 DEF ListsInductive, StoreSound, JoinsEnter, Gone
    <3> QED
      BY <2>3, <3>3 DEF Ailing
  <2>4. GoesFrom(c, b, r) /\ Who(c) = u => GoesFrom(c, b, r)'
    BY <1>2, <1>4, <2>1 DEF GoesFrom, Leaves, Who
  <2> QED
    BY <1>2, <2>2, <2>3, <2>4, ShownStays
<1> QED
  BY <1>1, <1>2, <1>3, <1>4, <1>5, CallKeepsLists

(* A user who joins is about to be announced, and the one who joins has    *)
(* taken the store as it is.                                               *)
LEMMA JoinStoreKeepsLists ==
  ASSUME PresenceInductive, ListsInductive, NEW c \in Conns, JoinStore(c)
  PROVE  ListsInductive'
<1>1. TypeOK'
  BY JoinStoreKeeps DEF PresenceInductive
<1>2. call[c] # NoCall /\ call[c].op = "join" /\ call[c].step = "store" /\ Joins(c)
  BY DEF JoinStore, At, Joins
<1>3. PICK o \in Boards : o = call[c].board
  BY <1>2, CallTyped
<1> DEFINE n == [call[c] EXCEPT !.step = "snap", !.users = Snapshot(o) \cup {Who(c)}]
<1>4. call[c] \in Call /\ Snapshot(o) \cup {Who(c)} \in SUBSET Users
  BY <1>2, CallTyped, SnapshotType, WhoIsUser
<1>5. boardsOf[c] = {}
  BY <1>2 DEF ListsInductive, StoreSound, JoinsEnter
<1>6. /\ n \in Call /\ n.op = "join" /\ n.step = "snap" /\ n.board = o
      /\ n.users = Snapshot(o) \cup {Who(c)}
  BY <1>3, <1>2, <1>4 DEF Call
<1>7. call'[c] = n /\ \A d \in Conns : d # c => call'[d] = call[d]
  BY <1>3 DEF JoinStore, PresenceInductive, TypeOK
<1>8. /\ boardsOf'[c] = {o} /\ \A d \in Conns : d # c => boardsOf'[d] = boardsOf[d]
      /\ UNCHANGED <<status, group, goodbye, outbox, asked, link, seen>>
  BY <1>3, <1>5 DEF JoinStore, PresenceInductive, TypeOK
<1>9. excused \subseteq excused' /\ (Leaving(Who(c), o) => Tainted(Who(c))')
  BY <1>3, TaintComes DEF JoinStore
<1> HIDE DEF n
<1>10. call'[c] # NoCall /\ Joins(c)' /\ ~Leaves(c) /\ ~Leaves(c)'
  BY <1>2, <1>6, <1>7, MarkersDiffer DEF Joins, Leaves
<1>11. LinksSound'
  BY <1>8, LinksStay DEF ListsInductive
<1>12. StoreSound'
  <2>1. OneBoard'
    BY <1>8 DEF ListsInductive, StoreSound, OneBoard
  <2>2. JoinsEnter'
    <3> SUFFICES ASSUME NEW d \in Conns, Joins(d)'
                 PROVE  IF call'[d].step = "store" THEN boardsOf'[d] = {}
                        ELSE call'[d].step # "remove" /\ (call'[d].board \in boardsOf'[d] \/ Gone(d)')
      BY DEF JoinsEnter
    <3>1. CASE d = c
      BY <1>6, <1>7, <1>8, <3>1
    <3>2. CASE d # c
      <4>1. Joins(d) /\ (Gone(d) => Gone(d)')
        BY <1>7, <1>8, <3>2 DEF Joins, Gone
      <4> QED
        BY <1>7, <1>8, <3>2, <4>1 DEF ListsInductive, StoreSound, JoinsEnter
    <3> QED
      BY <3>1, <3>2
  <2>3. GoneForGood'
    <3> SUFFICES ASSUME NEW d \in Conns, Gone(d)'
                 PROVE  Tainted(Who(d))' \/ (boardsOf'[d] = {} /\ ~Joins(d)')
      BY DEF GoneForGood, Tainted, Who
    <3>1. Gone(d)
      BY <1>8 DEF Gone
    <3>2. Tainted(Who(d)) \/ (boardsOf[d] = {} /\ ~Joins(d))
      BY <3>1 DEF ListsInductive, StoreSound, GoneForGood
    <3>3. CASE Tainted(Who(d))
      BY <1>9, <3>3, TaintStays
    <3>4. CASE boardsOf[d] = {} /\ ~Joins(d)
      BY <1>2, <1>7, <1>8, <3>4 DEF Joins
    <3> QED
      BY <3>2, <3>3, <3>4
  <2>4. \A u \in Users : \A b \in Boards : Leaving(u, b)' => Leaving(u, b)
    BY <1>7, <1>8, <1>10 DEF Leaving, Leaves, Who
  <2>5. NoneLeaveWhoStay'
    <3> SUFFICES ASSUME NEW d \in Conns, NEW b \in boardsOf'[d], Leaving(Who(d), b)'
                 PROVE  Tainted(Who(d))'
      BY DEF NoneLeaveWhoStay, Tainted, Who, Leaving
    <3>1. b \in Boards /\ Who(d) \in Users
      BY <1>1, WhoIsUser DEF TypeOK
    <3>2. Leaving(Who(d), b)
      BY <2>4, <3>1
    <3>3. CASE d = c
      BY <1>8, <1>9, <3>2, <3>3
    <3>4. CASE d # c
      <4>1. Tainted(Who(d))
        BY <1>8, <3>2, <3>4 DEF ListsInductive, StoreSound, NoneLeaveWhoStay
      <4> QED
        BY <1>9, <4>1, TaintStays
    <3> QED
      BY <3>3, <3>4
  <2>6. GoodbyesOfBoards'
    BY <1>8 DEF ListsInductive, StoreSound, GoodbyesOfBoards
  <2> QED
    BY <2>1, <2>2, <2>3, <2>5, <2>6 DEF StoreSound
<1>13. ListsSound'
  <2> SUFFICES ASSUME NEW t \in Tabs, NEW r \in Conns, link'[t] = r, NEW b \in boardsOf'[r],
                      NEW u \in Users, <<t, u>> \notin excused'
               PROVE  ListSound(t, r, b, u)'
    BY <1>1, ListsShown
  <2>1. \A v \in Users : (v \in Snapshot(o))' <=> v \in Snapshot(o) \cup {Who(c)}
    BY <1>8 DEF Snapshot, Present, Who
  <2>2. \A p \in Boards : p # o => \A v : (v \in Snapshot(p))' <=> v \in Snapshot(p)
    BY <1>5, <1>8 DEF Snapshot, Present, Who
  <2>3. CASE r = c
    <3>1. b = o /\ (Shown(t, r, u)' <=> u \in Snapshot(o) \cup {Who(c)})
      BY <1>6, <1>7, <1>8, <1>10, <2>3 DEF Shown, At
    <3> QED
      BY <2>1, <3>1 DEF ListSound
  <2>4. CASE r # c
    <3>1. b \in boardsOf[r] /\ link[t] = r /\ <<t, u>> \notin excused
      BY <1>8, <1>9, <2>4
    <3>2. ListSound(t, r, b, u) /\ b \in Boards
      BY <3>1, OnBoard
    <3>3. CASE b = o /\ u = Who(c)
      <4>1. ComesFrom(c, b, r)'
        BY <1>6, <1>7, <1>10, <3>3 DEF ComesFrom
      <4>2. Coming(u, b, r)' /\ (u \in Snapshot(b))'
        BY <2>1, <3>3, <4>1 DEF Coming, Who
      <4> QED
        BY <4>2 DEF ListSound
    <3>4. CASE ~(b = o /\ u = Who(c))
      <4>1. (u \in Snapshot(b))' <=> u \in Snapshot(b)
        BY <2>1, <2>2, <3>2, <3>4
      <4>2. Shown(t, r, u)' <=> Shown(t, r, u)
        BY <1>7, <1>8, <2>4, ShownStays
      <4>3. Coming(u, b, r) => Coming(u, b, r)' \/ Ailing(u, b)'
        <5>1. ~ComesFrom(c, b, r)
          BY <1>2 DEF ComesFrom
        <5> QED
          BY <1>7, <5>1, ComingStays
      <4>4. Going(u, b, r) => Going(u, b, r)'
        BY <1>7, <1>8, <1>10, GoingStays DEF GoesFrom
      <4>5. Ailing(u, b) => Ailing(u, b)'
        BY <1>5, <1>8 DEF Ailing, Who
      <4> QED
        BY <3>2, <4>1, <4>2, <4>3, <4>4, <4>5, ListStays
    <3> QED
      BY <3>3, <3>4
  <2> QED
    BY <2>3, <2>4
<1> QED
  BY <1>11, <1>12, <1>13 DEF ListsInductive

(* A user who leaves is about to be announced; who stays on the board with *)
(* another connection is excused.                                          *)
LEMMA LeaveStoreKeepsLists ==
  ASSUME PresenceInductive, ListsInductive, NEW c \in Conns, NEW o \in Boards, LeaveStore(c, o)
  PROVE  ListsInductive'
<1>1. TypeOK'
  BY LeaveStoreKeeps DEF PresenceInductive
<1>2. /\ call'[c] # NoCall /\ call'[c].op = "leave" /\ call'[c].board = o
      /\ call'[c].step = "remove" /\ \A d \in Conns : d # c => call'[d] = call[d]
  BY BeginType DEF LeaveStore, PresenceInductive
<1>3. /\ o \in boardsOf[c] /\ status[c] = "open" /\ call[c] = NoCall
      /\ UNCHANGED <<status, group, goodbye, outbox, link, seen>>
  BY DEF LeaveStore, Begin
<1>4. boardsOf[c] = {o} /\ ~Gone(c) /\ ~Gone(c)'
  BY <1>3 DEF PresenceInductive, Ends, Gone, ListsInductive, StoreSound, OneBoard
<1>5. boardsOf'[c] = {} /\ \A d \in Conns : d # c => boardsOf'[d] = boardsOf[d]
  BY <1>4 DEF LeaveStore, PresenceInductive, TypeOK
<1>6. excused \subseteq excused' /\ (Elsewhere(c, o) => Tainted(Who(c))')
  BY TaintComes DEF LeaveStore
<1>7. ~Joins(c) /\ ~Joins(c)' /\ ~Leaves(c) /\ Leaves(c)'
  BY <1>2, <1>3 DEF Joins, Leaves
<1>8. LinksSound'
  BY <1>3, LinksStay DEF ListsInductive
<1>9. StoreSound'
  <2>1. OneBoard'
    BY <1>5 DEF ListsInductive, StoreSound, OneBoard
  <2>2. JoinsEnter'
    <3> SUFFICES ASSUME NEW d \in Conns, Joins(d)'
                 PROVE  IF call'[d].step = "store" THEN boardsOf'[d] = {}
                        ELSE call'[d].step # "remove" /\ (call'[d].board \in boardsOf'[d] \/ Gone(d)')
      BY DEF JoinsEnter
    <3>1. d # c /\ Joins(d) /\ (Gone(d) => Gone(d)')
      BY <1>2, <1>3, <1>7 DEF Joins, Gone
    <3> QED
      BY <1>2, <1>5, <3>1 DEF ListsInductive, StoreSound, JoinsEnter
  <2>3. GoneForGood'
    <3> SUFFICES ASSUME NEW d \in Conns, Gone(d)'
                 PROVE  Tainted(Who(d))' \/ (boardsOf'[d] = {} /\ ~Joins(d)')
      BY DEF GoneForGood, Tainted, Who
    <3>1. Gone(d) /\ d # c
      BY <1>3, <1>4 DEF Gone
    <3>2. Tainted(Who(d)) \/ (boardsOf[d] = {} /\ ~Joins(d))
      BY <3>1 DEF ListsInductive, StoreSound, GoneForGood
    <3>3. CASE Tainted(Who(d))
      BY <1>6, <3>3, TaintStays
    <3>4. CASE boardsOf[d] = {} /\ ~Joins(d)
      BY <1>2, <1>5, <3>1, <3>4 DEF Joins
    <3> QED
      BY <3>2, <3>3, <3>4
  <2>4. NoneLeaveWhoStay'
    <3> SUFFICES ASSUME NEW d \in Conns, NEW b \in boardsOf'[d], Leaving(Who(d), b)'
                 PROVE  Tainted(Who(d))'
      BY DEF NoneLeaveWhoStay, Tainted, Who, Leaving
    <3>1. d # c /\ b \in boardsOf[d]
      BY <1>5
    <3>2. CASE Leaving(Who(d), b)
      BY <1>6, <3>1, <3>2, TaintStays DEF ListsInductive, StoreSound, NoneLeaveWhoStay
    <3>3. CASE Who(d) = Who(c) /\ b = o
      BY <1>6, <3>1, <3>3 DEF Elsewhere, Present
    <3>4. Leaving(Who(d), b) \/ (Who(d) = Who(c) /\ b = o)
      BY <1>2, <1>3 DEF Leaving, Who
    <3> QED
      BY <3>2, <3>3, <3>4
  <2>5. GoodbyesOfBoards'
    BY <1>3 DEF ListsInductive, StoreSound, GoodbyesOfBoards
  <2> QED
    BY <2>1, <2>2, <2>3, <2>4, <2>5 DEF StoreSound
<1>10. ListsSound'
  <2> SUFFICES ASSUME NEW t \in Tabs, NEW r \in Conns, link'[t] = r, NEW b \in boardsOf'[r],
                      NEW u \in Users, <<t, u>> \notin excused'
               PROVE  ListSound(t, r, b, u)'
    BY <1>1, ListsShown
  <2>1. r # c /\ b \in boardsOf[r] /\ link[t] = r /\ <<t, u>> \notin excused
    BY <1>3, <1>5, <1>6
  <2>2. ListSound(t, r, b, u)
    BY <2>1, OnBoard
  <2>3. CASE b = o /\ u = Who(c)
    <3>1. ~Elsewhere(c, o)
      BY <1>6, <2>3 DEF Tainted
    <3>2. ~(u \in Snapshot(b))'
      BY <1>5, <2>3, <3>1 DEF Snapshot, Present, Elsewhere, Who
    <3>3. GoesFrom(c, b, r)'
      BY <1>2, <1>7, <2>3 DEF GoesFrom
    <3>4. Going(u, b, r)'
      BY <2>3, <3>3 DEF Going, Who
    <3> QED
      BY <3>2, <3>4 DEF ListSound
  <2>4. CASE ~(b = o /\ u = Who(c))
    <3>1. (u \in Snapshot(b))' <=> u \in Snapshot(b)
      BY <1>4, <1>5, <2>4 DEF Snapshot, Present, Who
    <3>2. Shown(t, r, u)' <=> Shown(t, r, u)
      BY <1>2, <1>3, <2>1, ShownStays
    <3>3. Coming(u, b, r) => Coming(u, b, r)' \/ Ailing(u, b)'
      <4>1. ~ComesFrom(c, b, r)
        BY <1>7 DEF ComesFrom
      <4> QED
        BY <1>2, <4>1, ComingStays
    <3>4. Going(u, b, r) => Going(u, b, r)'
      <4>1. GoesFrom(c, b, r) => GoesFrom(c, b, r)'
        BY <1>3, <1>7 DEF GoesFrom
      <4>2. \A d \in Conns : d # c => call'[d] = call[d] /\ goodbye'[d] = goodbye[d]
        BY <1>2, <1>3
      <4> QED
        BY <4>1, <4>2, GoingStays
    <3>5. Ailing(u, b) => Ailing(u, b)'
      BY <1>3, <1>5 DEF Ailing, Who
    <3> QED
      BY <2>2, <3>1, <3>2, <3>3, <3>4, <3>5, ListStays
  <2> QED
    BY <2>3, <2>4
<1> QED
  BY <1>8, <1>9, <1>10 DEF ListsInductive

(* A broadcast to connection x that user v joined or left, k; and that the *)
(* answer that a join of connection r will show stays what it is.          *)
Tells(x, k, v) == Post(x, [kind |-> k, users |-> {v}]) /\ UNCHANGED <<link, seen>>

AnswerStays(r) ==
  /\ At(r, "join", "snap")' <=> At(r, "join", "snap")
  /\ At(r, "join", "snap") => call'[r].users = call[r].users

(* What a broadcast about user v adds to the queue of connection x.        *)
LEMMA PostShows ==
  ASSUME PresenceInductive, NEW x \in Conns, NEW v \in Users,
         NEW k \in {"joined", "left"}, Tells(x, k, v), NEW t \in Tabs, NEW r \in Conns,
         link[t] = r, NEW u \in Users, AnswerStays(r), ListsInductive, boardsOf[r] # {}
  PROVE  /\ r # x \/ u # v => (Shown(t, r, u)' <=> Shown(t, r, u))
         /\ r = x /\ u = v /\ ~At(r, "join", "snap") => (Shown(t, r, u)' <=> k = "joined")
<1>0. /\ Post(x, [kind |-> k, users |-> {v}]) /\ UNCHANGED <<link, seen>>
      /\ At(r, "join", "snap")' <=> At(r, "join", "snap")
      /\ At(r, "join", "snap") => call'[r].users = call[r].users
  BY DEF Tells, AnswerStays
<1> DEFINE m == [kind |-> k, users |-> {v}]
           had == u \in seen[t]
<1>1. m \in Message /\ m.kind = k /\ m.users = {v}
  BY MessagesAre
<1>2. had \in BOOLEAN /\ outbox \in [Conns -> Seq(Message)]
  BY DEF PresenceInductive, TypeOK
<1>3. outbox'[r] = IF r = x THEN Append(outbox[r], m) ELSE outbox[r]
  BY <1>0, <1>2, OnBoard DEF Post
<1>4. CASE At(r, "join", "snap")
  BY <1>0, <1>4 DEF Shown
<1>5. CASE ~At(r, "join", "snap")
  <2>1. Shown(t, r, u)' <=> Told(outbox'[r], u, had)
    BY <1>0, <1>5 DEF Shown
  <2>2. Shown(t, r, u) <=> Told(outbox[r], u, had)
    BY <1>5 DEF Shown
  <2> HIDE DEF m, had
  <2>3. CASE r # x
    BY <1>3, <1>5, <2>1, <2>2, <2>3
  <2>4. CASE r = x
    <3>1. Told(outbox'[r], u, had) <=> Adds(m, u) \/ (~Drops(m, u) /\ Told(outbox[r], u, had))
      BY <1>1, <1>2, <1>3, <2>4, ToldAtEnd
    <3>2. /\ Adds(m, u) <=> k = "joined" /\ u = v
          /\ Drops(m, u) <=> k = "left" /\ u = v
      BY <1>1 DEF Adds, Drops
    <3> QED
      BY <1>5, <2>1, <2>2, <2>4, <3>1, <3>2
  <2> QED
    BY <2>3, <2>4
<1> QED
  BY <1>4, <1>5

(* A broadcast tells a tab nothing that the store contradicts, unless the  *)
(* entry is excused.                                                       *)
LEMMA SendKeepsLists ==
  ASSUME PresenceInductive, ListsInductive, NEW c \in Conns, NEW x \in Conns, Send(c, x)
  PROVE  ListsInductive'
<1>1. TypeOK'
  BY SendKeeps DEF PresenceInductive
<1> DEFINE k == IF call[c].op = "join" THEN "joined" ELSE "left"
           n == [call[c] EXCEPT !.to = @ \ {x}]
<1>2. call[c] # NoCall /\ call[c].step = "fan" /\ x \in call[c].to
  BY DEF Send
<1>3. call[c] \in Call /\ call[c].op \in {"join", "leave"}
  BY <1>2, CallTyped
<1>4. /\ n \in Call /\ n.op = call[c].op /\ n.step = "fan" /\ n.board = call[c].board
      /\ n.to = call[c].to \ {x} /\ n # NoCall
  BY <1>2, <1>3, MarkersDiffer DEF Call
<1>5. /\ call'[c] = n /\ \A d \in Conns : d # c => call'[d] = call[d]
      /\ UNCHANGED <<status, boardsOf, group, goodbye, asked, link, seen>>
      /\ Post(x, [kind |-> k, users |-> {Who(c)}])
      /\ excused' = excused \cup Misplaced(x, Who(c), call[c].board)
  BY DEF Send, PresenceInductive, TypeOK
<1>6. k \in {"joined", "left"} /\ (k = "joined" <=> call[c].op = "join") /\ Who(c) \in Users
  BY WhoIsUser
<1> HIDE DEF n, k
<1>7. /\ Leaves(c)' => Leaves(c) /\ call'[c].board = call[c].board
      /\ ~Joins(c)' \/ (Joins(c) /\ call'[c].board = call[c].board /\ call'[c].step = "fan")
  BY <1>2, <1>4, <1>5 DEF Leaves, Joins
<1>8. ASSUME NEW t \in Tabs, NEW r \in Conns, link[t] = r, NEW b \in boardsOf[r], NEW u \in Users,
             <<t, u>> \notin excused'
      PROVE  \/ ListSound(t, r, b, u)'
             \/ /\ Shown(t, r, u)' <=> Shown(t, r, u)
                /\ ComesFrom(c, b, r) /\ Who(c) = u => ComesFrom(c, b, r)' \/ Ailing(u, b)
                /\ GoesFrom(c, b, r) /\ Who(c) = u => GoesFrom(c, b, r)'
  <2>1. AnswerStays(r) /\ boardsOf[r] # {}
    BY <1>2, <1>4, <1>5, <1>8 DEF At, AnswerStays
  <2>2. /\ r # x \/ u # Who(c) => (Shown(t, r, u)' <=> Shown(t, r, u))
        /\ r = x /\ u = Who(c) /\ ~At(r, "join", "snap") => (Shown(t, r, u)' <=> k = "joined")
    <3>1. Tells(x, k, Who(c))
      BY <1>5 DEF Tells
    <3> QED
      BY <1>6, <1>8, <2>1, <3>1, PostShows
  <2>3. CASE r # x \/ u # Who(c)
    <3>1. ComesFrom(c, b, r) /\ Who(c) = u => ComesFrom(c, b, r)'
      BY <1>2, <1>4, <1>5, <2>3 DEF ComesFrom, Joins
    <3>2. GoesFrom(c, b, r) /\ Who(c) = u => GoesFrom(c, b, r)'
      BY <1>2, <1>4, <1>5, <2>3 DEF GoesFrom, Leaves
    <3> QED
      BY <2>2, <2>3, <3>1, <3>2
  <2>4. CASE r = x /\ u = Who(c)
    <3>1. TabOf[r] = t /\ \A o \in boardsOf[r] : o = b
      BY <1>8, OnBoard
    <3>2. ~At(r, "join", "snap") /\ call[c].board = b
      BY <1>5, <1>8, <2>4, <3>1 DEF Misplaced
    <3>3. ~Tainted(u)
      BY <1>5, <1>8 DEF Tainted
    <3>4. b \in Boards
      BY <1>8, OnBoard
    <3>5. (u \in Snapshot(b))' <=> u \in Snapshot(b)
      BY <1>5, StoreStays
    <3>6. CASE call[c].op = "join"
      <4>1. Joins(c) /\ ~Gone(c)
        BY <1>2, <2>4, <3>3, <3>6 DEF Joins, ListsInductive, StoreSound, GoneForGood
      <4>2. b \in boardsOf[c]
        BY <1>2, <3>2, <4>1 DEF ListsInductive, StoreSound, JoinsEnter
      <4>3. u \in Snapshot(b)
        BY <2>4, <4>2 DEF Snapshot, Present
      <4> QED
        BY <1>6, <2>2, <2>4, <3>2, <3>5, <3>6, <4>3 DEF ListSound
    <3>7. CASE call[c].op = "leave"
      <4>1. Leaving(u, b)
        BY <1>2, <2>4, <3>2, <3>7 DEF Leaving
      <4>2. u \notin Snapshot(b)
        BY <3>3, <4>1 DEF Snapshot, Present, ListsInductive, StoreSound, NoneLeaveWhoStay
      <4> QED
        BY <1>6, <2>2, <2>4, <3>2, <3>5, <3>7, <4>2 DEF ListSound
    <3> QED
      BY <1>3, <3>6, <3>7
  <2> QED
    BY <2>3, <2>4
<1>9. excused \subseteq excused'
  BY <1>5
<1> QED
  BY <1>1, <1>2, <1>5, <1>7, <1>8, <1>9, CallKeepsLists

-----------------------------------------------------------------------------
(* The disconnect handlers keep the lists.                                 *)

(* The connection c is off the store, and its announcements go on or end.  *)
LEMMA ByeKeepsLists ==
  ASSUME PresenceInductive, ListsInductive, TypeOK', NEW c \in Conns, goodbye[c] # NoCall,
         UNCHANGED <<boardsOf, call, link, seen>>, excused \subseteq excused',
         \A d \in Conns : d # c => status'[d] = status[d] /\ goodbye'[d] = goodbye[d],
         IF goodbye'[c] = NoCall THEN status'[c] = "closed"
         ELSE /\ status'[c] = status[c]
              /\ goodbye'[c].to # {} => goodbye'[c].now # {}
              /\ goodbye'[c].boards \cup goodbye'[c].now \subseteq goodbye[c].boards \cup goodbye[c].now,
         \A t \in Tabs : \A r \in Conns : link[t] = r => \A b \in boardsOf[r] : \A u \in Users :
           \/ <<t, u>> \in excused'
           \/ ListSound(t, r, b, u)'
           \/ /\ Shown(t, r, u)' <=> Shown(t, r, u)
              /\ GoesFrom(c, b, r) /\ Who(c) = u => GoesFrom(c, b, r)'
  PROVE  ListsInductive'
<1>1. status[c] = "lost" /\ Gone(c) /\ Gone(c)'
  BY DEF PresenceInductive, Ends, Gone
<1>2. LinksSound'
  BY <1>1 DEF ListsInductive, LinksSound, TypeOK
<1>3. StoreSound'
  <2>1. boardsOf \in [Conns -> SUBSET Boards]
    BY DEF PresenceInductive, TypeOK
  <2>2. \A u \in Users : \A b \in Boards : Leaving(u, b)' => Leaving(u, b)
    <3>1. \A d \in Conns : Leaves(d)' => Leaves(d) /\ call'[d].board = call[d].board
      BY DEF Leaves
    <3>2. \A d \in Conns : goodbye'[d] # NoCall =>
            goodbye[d] # NoCall
            /\ goodbye'[d].boards \cup goodbye'[d].now \subseteq goodbye[d].boards \cup goodbye[d].now
      OBVIOUS
    <3> QED
      BY <3>1, <3>2, LeaversStay
  <2>3. GoodbyesOfBoards'
    BY DEF ListsInductive, StoreSound, GoodbyesOfBoards
  <2>4. \A d \in Conns : Gone(d)' <=> Gone(d)
    BY <1>1 DEF Gone
  <2>5. excused \subseteq excused' /\ boardsOf' = boardsOf /\ StoreSound
    BY DEF ListsInductive
  <2>6. \A d \in Conns :
          \/ ~Joins(d)'
          \/ Joins(d) /\ call'[d].board = call[d].board /\ call'[d].step # "store"
             /\ call'[d].step # "remove" /\ call[d].step # "store"
          \/ call'[d] = call[d]
          \/ boardsOf[d] = {} /\ call'[d].step = "store" /\ ~Gone(d)'
    OBVIOUS
  <2> QED
    BY <2>1, <2>2, <2>3, <2>4, <2>5, <2>6, StoreSoundStays
<1>4. ListsSound'
  <2> SUFFICES ASSUME NEW t \in Tabs, NEW r \in Conns, link'[t] = r, NEW b \in boardsOf'[r],
                      NEW u \in Users, <<t, u>> \notin excused', ~ListSound(t, r, b, u)'
               PROVE  FALSE
    BY ListsShown
  <2>1. link[t] = r /\ b \in boardsOf[r] /\ <<t, u>> \notin excused
    OBVIOUS
  <2>2. ListSound(t, r, b, u) /\ ~Tainted(u)
    BY <2>1, OnBoard
  <2>3. /\ Shown(t, r, u)' <=> Shown(t, r, u)
        /\ GoesFrom(c, b, r) /\ Who(c) = u => GoesFrom(c, b, r)'
    BY <2>1
  <2>4. Ailing(u, b) => Ailing(u, b)'
    <3>1. Who(c) = u => boardsOf[c] = {}
      BY <1>1, <2>2 DEF ListsInductive, StoreSound, GoneForGood
    <3> QED
      BY <3>1 DEF Ailing, Who
  <2>5. Coming(u, b, r) => Coming(u, b, r)' \/ Ailing(u, b)'
    BY DEF Coming, ComesFrom, Joins, Who
  <2>6. Going(u, b, r) => Going(u, b, r)'
    BY <2>3, GoingStays
  <2>7. (u \in Snapshot(b))' <=> u \in Snapshot(b)
    BY StoreStays
  <2> QED
    BY <2>2, <2>3, <2>4, <2>5, <2>6, <2>7, ListStays
<1> QED
  BY <1>2, <1>3, <1>4 DEF ListsInductive

LEMMA GoodbyeTyped ==
  ASSUME PresenceInductive, NEW c \in Conns, goodbye[c] # NoCall
  PROVE  /\ goodbye[c] \in Goodbye /\ goodbye[c].boards \in SUBSET Boards
         /\ goodbye[c].now \in SUBSET Boards /\ goodbye[c].to \in SUBSET Conns
BY DEF PresenceInductive, TypeOK, Goodbye

LEMMA GoodbyeCastKeepsLists ==
  ASSUME PresenceInductive, ListsInductive, NEW c \in Conns, NEW o \in Boards, GoodbyeCast(c, o)
  PROVE  ListsInductive'
<1>1. TypeOK'
  BY GoodbyeCastKeeps DEF PresenceInductive
<1> DEFINE bye == [boards |-> goodbye[c].boards \ {o}, now |-> {o}, to |-> Audience(o)]
<1>2. goodbye[c] # NoCall /\ goodbye[c].to = {} /\ o \in goodbye[c].boards
  BY DEF GoodbyeCast
<1>3. /\ goodbye'[c] = bye /\ \A d \in Conns : d # c => goodbye'[d] = goodbye[d]
      /\ UNCHANGED <<status, boardsOf, group, call, outbox, asked, link, seen, excused>>
  BY DEF GoodbyeCast, PresenceInductive, TypeOK
<1>4. bye \in Goodbye
  BY <1>2, GoodbyeTyped, AudienceType DEF Goodbye, PresenceInductive
<1>5. /\ bye.boards = goodbye[c].boards \ {o} /\ bye.now = {o} /\ bye.to = Audience(o)
      /\ bye # NoCall
  BY <1>4, MarkersDiffer
<1> HIDE DEF bye
<1>6. ASSUME NEW t \in Tabs, NEW r \in Conns, link[t] = r, NEW b \in boardsOf[r], NEW u \in Users
      PROVE  /\ Shown(t, r, u)' <=> Shown(t, r, u)
             /\ GoesFrom(c, b, r) => GoesFrom(c, b, r)'
  <2>1. r \in Audience(b)
    BY <1>6, OnBoard DEF Audience
  <2>2. GoesFrom(c, b, r) => GoesFrom(c, b, r)'
    BY <1>2, <1>3, <1>5, <2>1 DEF GoesFrom, Leaves
  <2> QED
    BY <1>3, <2>2, ShownStays
<1>7. /\ goodbye'[c] # NoCall
      /\ goodbye'[c].to # {} => goodbye'[c].now # {}
      /\ goodbye'[c].boards \cup goodbye'[c].now \subseteq goodbye[c].boards \cup goodbye[c].now
  BY <1>2, <1>3, <1>5
<1> QED
  BY <1>1, <1>2, <1>3, <1>6, <1>7, ByeKeepsLists

LEMMA GoodbyeSendKeepsLists ==
  ASSUME PresenceInductive, ListsInductive, NEW c \in Conns, NEW x \in Conns, GoodbyeSend(c, x)
  PROVE  ListsInductive'
<1>1. TypeOK'
  BY GoodbyeSendKeeps DEF PresenceInductive
<1> DEFINE bye == [goodbye[c] EXCEPT !.to = @ \ {x}]
<1>2. goodbye[c] # NoCall /\ x \in goodbye[c].to
  BY DEF GoodbyeSend
<1>3. /\ goodbye'[c] = bye /\ \A d \in Conns : d # c => goodbye'[d] = goodbye[d]
      /\ UNCHANGED <<status, boardsOf, group, call, asked, link, seen>>
      /\ Post(x, [kind |-> "left", users |-> {Who(c)}])
      /\ excused' = excused \cup UNION {Misplaced(x, Who(c), b) : b \in goodbye[c].now}
  BY DEF GoodbyeSend, PresenceInductive, TypeOK
<1>4. /\ bye \in Goodbye /\ bye.boards = goodbye[c].boards /\ bye.now = goodbye[c].now
      /\ bye.to = goodbye[c].to \ {x} /\ bye # NoCall
  BY <1>2, GoodbyeTyped, MarkersDiffer DEF Goodbye
<1>5. goodbye[c].now # {} /\ Who(c) \in Users
  BY <1>2, WhoIsUser DEF ListsInductive, StoreSound, GoodbyesOfBoards
<1> HIDE DEF bye
<1>6. ASSUME NEW t \in Tabs, NEW r \in Conns, link[t] = r, NEW b \in boardsOf[r], NEW u \in Users,
             <<t, u>> \notin excused'
      PROVE  \/ ListSound(t, r, b, u)'
             \/ /\ Shown(t, r, u)' <=> Shown(t, r, u)
                /\ GoesFrom(c, b, r) /\ Who(c) = u => GoesFrom(c, b, r)'
  <2>1. AnswerStays(r) /\ boardsOf[r] # {}
    BY <1>3, <1>6 DEF At, AnswerStays
  <2>2. /\ r # x \/ u # Who(c) => (Shown(t, r, u)' <=> Shown(t, r, u))
        /\ r = x /\ u = Who(c) /\ ~At(r, "join", "snap") => ~Shown(t, r, u)'
    <3>1. Tells(x, "left", Who(c))
      BY <1>3 DEF Tells
    <3>2. /\ r # x \/ u # Who(c) => (Shown(t, r, u)' <=> Shown(t, r, u))
          /\ r = x /\ u = Who(c) /\ ~At(r, "join", "snap") => (Shown(t, r, u)' <=> "left" = "joined")
      BY <1>5, <1>6, <2>1, <3>1, PostShows
    <3> QED
      BY <3>2
  <2>3. CASE r # x \/ u # Who(c)
    <3>1. GoesFrom(c, b, r) /\ Who(c) = u => GoesFrom(c, b, r)'
      BY <1>3, <1>4, <2>3 DEF GoesFrom, Leaves
    <3> QED
      BY <2>2, <2>3, <3>1
  <2>4. CASE r = x /\ u = Who(c)
    <3>1. TabOf[r] = t /\ (\A o \in boardsOf[r] : o = b) /\ ~Tainted(u)
      BY <1>3, <1>6, OnBoard DEF Tainted
    <3>2. PICK o \in goodbye[c].now : TRUE
      BY <1>5
    <3>3. <<t, u>> \notin Misplaced(x, Who(c), o)
      BY <1>3, <1>6, <3>2
    <3>4. ~At(r, "join", "snap") /\ o = b
      BY <1>6, <2>4, <3>1, <3>3 DEF Misplaced
    <3>5. Leaving(u, b)
      BY <1>2, <2>4, <3>2, <3>4 DEF Leaving
    <3>6. u \notin Snapshot(b)
      BY <3>1, <3>5 DEF Snapshot, Present, ListsInductive, StoreSound, NoneLeaveWhoStay
    <3>7. (u \in Snapshot(b))' <=> u \in Snapshot(b)
      BY <1>3, StoreStays
    <3> QED
      BY <2>2, <2>4, <3>4, <3>6, <3>7 DEF ListSound
  <2> QED
    BY <2>3, <2>4
<1>7. /\ goodbye'[c] # NoCall
      /\ goodbye'[c].to # {} => goodbye'[c].now # {}
      /\ goodbye'[c].boards \cup goodbye'[c].now \subseteq goodbye[c].boards \cup goodbye[c].now
  BY <1>3, <1>4, <1>5
<1>8. excused \subseteq excused'
  BY <1>3
<1> QED
  BY <1>1, <1>2, <1>3, <1>6, <1>7, <1>8, ByeKeepsLists

LEMMA CloseKeepsLists ==
  ASSUME PresenceInductive, ListsInductive, NEW c \in Conns, Close(c)
  PROVE  ListsInductive'
<1>1. TypeOK'
  BY CloseKeeps DEF PresenceInductive
<1>2. /\ goodbye[c] # NoCall /\ goodbye[c].boards = {} /\ goodbye[c].to = {}
      /\ goodbye'[c] = NoCall /\ status'[c] = "closed"
      /\ \A d \in Conns : d # c => status'[d] = status[d] /\ goodbye'[d] = goodbye[d]
      /\ UNCHANGED <<boardsOf, call, outbox, asked, link, seen, excused>>
  BY DEF Close, PresenceInductive, TypeOK
<1>3. ASSUME NEW t \in Tabs, NEW r \in Conns, link[t] = r, NEW b \in boardsOf[r], NEW u \in Users
      PROVE  /\ Shown(t, r, u)' <=> Shown(t, r, u)
             /\ GoesFrom(c, b, r) => GoesFrom(c, b, r)'
  BY <1>2, ShownStays DEF GoesFrom, Leaves
<1> QED
  BY <1>1, <1>2, <1>3, ByeKeepsLists

(* A user who is taken out of the store is about to be announced; who      *)
(* stays on the board with another connection, or whose join is under way, *)
(* is excused.                                                             *)
LEMMA RemoveConnectionKeepsLists ==
  ASSUME PresenceInductive, ListsInductive, NEW c \in Conns, RemoveConnection(c)
  PROVE  ListsInductive'
<1>1. TypeOK'
  BY RemoveConnectionKeeps DEF PresenceInductive
<1> DEFINE bye == [boards |-> boardsOf[c], now |-> {}, to |-> {}]
<1>2. /\ status[c] = "lost" /\ goodbye[c] = NoCall /\ goodbye'[c] = bye
      /\ boardsOf'[c] = {} /\ \A d \in Conns : d # c => boardsOf'[d] = boardsOf[d]
      /\ \A d \in Conns : d # c => goodbye'[d] = goodbye[d]
      /\ UNCHANGED <<status, group, call, outbox, asked, link, seen>>
  BY DEF RemoveConnection, PresenceInductive, TypeOK
<1>3. bye \in Goodbye
  BY DEF Goodbye, PresenceInductive, TypeOK
<1>4. bye.boards = boardsOf[c] /\ bye.now = {} /\ bye.to = {} /\ bye # NoCall
  BY <1>3, MarkersDiffer
<1>5. /\ excused \subseteq excused'
      /\ (\E b \in boardsOf[c] : Elsewhere(c, b)) \/ Joins(c) => Tainted(Who(c))'
  BY TaintComes DEF RemoveConnection, Joins
<1> HIDE DEF bye
<1>6. Gone(c)' /\ ~Gone(c) /\ \A d \in Conns : d # c => (Gone(d)' <=> Gone(d))
  BY <1>2, <1>4 DEF Gone
<1>7. LinksSound'
  BY <1>2, LinksStay DEF ListsInductive
<1>8. StoreSound'
  <2>1. OneBoard'
    BY <1>2 DEF ListsInductive, StoreSound, OneBoard
  <2>2. JoinsEnter'
    <3> SUFFICES ASSUME NEW d \in Conns, Joins(d)'
                 PROVE  IF call'[d].step = "store" THEN boardsOf'[d] = {}
                        ELSE call'[d].step # "remove" /\ (call'[d].board \in boardsOf'[d] \/ Gone(d)')
      BY DEF JoinsEnter
    <3>1. Joins(d)
      BY <1>2 DEF Joins
    <3> QED
      BY <1>2, <1>6, <3>1 DEF ListsInductive, StoreSound, JoinsEnter
  <2>3. GoneForGood'
    <3> SUFFICES ASSUME NEW d \in Conns, Gone(d)'
                 PROVE  Tainted(Who(d))' \/ (boardsOf'[d] = {} /\ ~Joins(d)')
      BY DEF GoneForGood, Tainted, Who
    <3>1. Joins(d)' <=> Joins(d)
      BY <1>2 DEF Joins
    <3>2. CASE d = c
      BY <1>2, <1>5, <3>1, <3>2
    <3>3. CASE d # c
      <4>1. Tainted(Who(d)) \/ (boardsOf[d] = {} /\ ~Joins(d))
        BY <1>6, <3>3 DEF ListsInductive, StoreSound, GoneForGood
      <4> QED
        BY <1>2, <1>5, <3>1, <3>3, <4>1, TaintStays
    <3> QED
      BY <3>2, <3>3
  <2>4. NoneLeaveWhoStay'
    <3> SUFFICES ASSUME NEW d \in Conns, NEW b \in boardsOf'[d], Leaving(Who(d), b)'
                 PROVE  Tainted(Who(d))'
      BY DEF NoneLeaveWhoStay, Tainted, Who, Leaving
    <3>1. d # c /\ b \in boardsOf[d]
      BY <1>2
    <3>2. CASE Leaving(Who(d), b)
      BY <1>5, <3>1, <3>2, TaintStays DEF ListsInductive, StoreSound, NoneLeaveWhoStay
    <3>3. CASE Who(d) = Who(c) /\ b \in boardsOf[c]
      BY <1>5, <3>1, <3>3 DEF Elsewhere, Present
    <3>4. Leaving(Who(d), b) \/ (Who(d) = Who(c) /\ b \in boardsOf[c])
      BY <1>2, <1>4 DEF Leaving, Who
    <3> QED
      BY <3>2, <3>3, <3>4
  <2>5. GoodbyesOfBoards'
    BY <1>2, <1>4 DEF ListsInductive, StoreSound, GoodbyesOfBoards
  <2> QED
    BY <2>1, <2>2, <2>3, <2>4, <2>5 DEF StoreSound
<1>9. ListsSound'
  <2> SUFFICES ASSUME NEW t \in Tabs, NEW r \in Conns, link'[t] = r, NEW b \in boardsOf'[r],
                      NEW u \in Users, <<t, u>> \notin excused'
               PROVE  ListSound(t, r, b, u)'
    BY <1>1, ListsShown
  <2>1. r # c /\ b \in boardsOf[r] /\ link[t] = r /\ <<t, u>> \notin excused
    BY <1>2, <1>5
  <2>2. ListSound(t, r, b, u)
    BY <2>1, OnBoard
  <2>3. CASE b \in boardsOf[c] /\ u = Who(c)
    <3>1. ~Elsewhere(c, b)
      BY <1>5, <2>3 DEF Tainted
    <3>2. ~(u \in Snapshot(b))'
      BY <1>2, <2>3, <3>1 DEF Snapshot, Present, Elsewhere, Who
    <3>3. GoesFrom(c, b, r)'
      BY <1>2, <1>4, <2>3 DEF GoesFrom
    <3>4. Going(u, b, r)'
      BY <2>3, <3>3 DEF Going, Who
    <3> QED
      BY <3>2, <3>4 DEF ListSound
  <2>4. CASE ~(b \in boardsOf[c] /\ u = Who(c))
    <3>1. (u \in Snapshot(b))' <=> u \in Snapshot(b)
      BY <1>2, <2>4 DEF Snapshot, Present, Who
    <3>2. Shown(t, r, u)' <=> Shown(t, r, u)
      BY <1>2, <2>1, ShownStays
    <3>3. Coming(u, b, r) => Coming(u, b, r)' \/ Ailing(u, b)'
      BY <1>2 DEF Coming, ComesFrom, Joins, Who
    <3>4. Going(u, b, r) => Going(u, b, r)'
      <4>1. GoesFrom(c, b, r) => GoesFrom(c, b, r)'
        BY <1>2 DEF GoesFrom, Leaves
      <4>2. \A d \in Conns : d # c => call'[d] = call[d] /\ goodbye'[d] = goodbye[d]
        BY <1>2
      <4> QED
        BY <4>1, <4>2, GoingStays
    <3>5. Ailing(u, b) => Ailing(u, b)'
      BY <1>2, <2>4 DEF Ailing, Who
    <3> QED
      BY <2>2, <3>1, <3>2, <3>3, <3>4, <3>5, ListStays
  <2> QED
    BY <2>3, <2>4
<1> QED
  BY <1>7, <1>8, <1>9 DEF ListsInductive

-----------------------------------------------------------------------------
LEMMA InitLists ==
  ASSUME Init, TypeOK
  PROVE  ListsInductive
<1>1. \A c \in Conns : ~Joins(c) /\ ~Gone(c) /\ call[c] = NoCall /\ goodbye[c] = NoCall
  BY DEF Init, Joins, Gone
<1>2. \A t \in Tabs : link[t] # NoConn => link[t] \in Settled /\ TabOf[link[t]] = t
  BY DEF Init
<1>3. LinksSound
  BY <1>2, PresenceAssumption DEF LinksSound, Init
<1>4. StoreSound
  BY <1>1 DEF StoreSound, OneBoard, JoinsEnter, GoneForGood, NoneLeaveWhoStay, GoodbyesOfBoards,
              Leaving, Init
<1>5. Snapshot(Home) = {Who(c) : c \in Settled}
  BY PresenceAssumption DEF Init, Snapshot, Present
<1>6. ASSUME NEW t \in Tabs, link[t] # NoConn, NEW b \in boardsOf[link[t]], NEW u \in Users
      PROVE  ListSound(t, link[t], b, u)
  <2>1. link[t] \in Conns /\ b = Home /\ outbox[link[t]] = <<>> /\ seen[t] = {Who(c) : c \in Settled}
    BY <1>2, <1>6, PresenceAssumption DEF Init
  <2>2. Shown(t, link[t], u) <=> u \in seen[t]
    BY <1>1, <2>1 DEF Shown, At, Told
  <2> QED
    BY <1>5, <2>1, <2>2 DEF ListSound
<1> QED
  BY <1>3, <1>4, <1>6 DEF ListsInductive, ListsSound

LEMMA NextLists ==
  ASSUME PresenceInductive, ListsInductive, [Next]_vars
  PROVE  ListsInductive'
<1>1. ASSUME NEW c \in Conns, HubStep(c)
      PROVE  ListsInductive'
  BY <1>1, JoinStoreKeepsLists, SendSnapshotKeepsLists, RemoveFromGroupKeepsLists,
     CastKeepsLists, SendKeepsLists, FinishKeepsLists DEF HubStep
<1>2. ASSUME NEW c \in Conns, GoodbyeStep(c)
      PROVE  ListsInductive'
  BY <1>2, RemoveConnectionKeepsLists, GoodbyeCastKeepsLists, GoodbyeSendKeepsLists,
     CloseKeepsLists DEF GoodbyeStep
<1>3. CASE UNCHANGED vars
  <2>1. TypeOK' /\ LinksSound'
    BY <1>3 DEF PresenceInductive, TypeOK, ListsInductive, LinksSound, vars
  <2>2. \A t \in Tabs : \A r \in Conns : \A u \in Users : Shown(t, r, u)' <=> Shown(t, r, u)
    BY <1>3, ShownStays DEF vars
  <2> QED
    BY <1>3, <2>1, <2>2, ListsStay DEF vars
<1> QED
  BY <1>1, <1>2, <1>3, ConnectKeepsLists, LoseKeepsLists, AbandonKeepsLists,
     AddToGroupKeepsLists, LeaveStoreKeepsLists, HandleKeepsLists DEF Next

(* Once the server and the tabs have settled, every tab on a board lists   *)
(* the users that the presence store has there, but for the races named by *)
(* the steps: for any boards, tabs, connections, calls and losses.         *)
THEOREM ListsComeToMatch == Spec => []ListsMatchStoreUnlessExcused
<1>1. Init => PresenceInductive /\ ListsInductive
  BY InitInductive, InitLists DEF PresenceInductive
<1>2. PresenceInductive /\ ListsInductive /\ [Next]_vars => (PresenceInductive /\ ListsInductive)'
  BY NextInductive, NextLists
<1>3. PresenceInductive /\ ListsInductive => ListsMatchStoreUnlessExcused
  <2> SUFFICES ASSUME PresenceInductive, ListsInductive, Quiet, NEW b \in Boards,
                      NEW t \in Members(b), NEW u \in Users, <<t, u>> \notin excused
               PROVE  u \in seen[t] <=> u \in Snapshot(b)
    BY DEF ListsMatchStoreUnlessExcused
  <2>1. /\ t \in Tabs /\ link[t] \in Conns /\ b \in boardsOf[link[t]]
        /\ outbox[link[t]] = <<>>
    BY DEF Members, Quiet, PresenceInductive, TypeOK
  <2>2. ListSound(t, link[t], b, u)
    BY <2>1, OnBoard
  <2>3. /\ \A c \in Conns : call[c] = NoCall /\ goodbye[c] = NoCall /\ status[c] # "lost"
    BY DEF Quiet
  <2>4. ~Coming(u, b, link[t]) /\ ~Going(u, b, link[t]) /\ ~Ailing(u, b)
    BY <2>3 DEF Coming, ComesFrom, Joins, Going, GoesFrom, Leaves, Ailing
  <2>5. Shown(t, link[t], u) <=> u \in seen[t]
    BY <2>1, <2>3 DEF Shown, At, Told
  <2> QED
    BY <2>2, <2>4, <2>5 DEF ListSound
<1> QED
  BY <1>1, <1>2, <1>3, PTL DEF Spec
=============================================================================
