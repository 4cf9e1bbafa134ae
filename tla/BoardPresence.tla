---------------------------- MODULE BoardPresence ---------------------------
(***************************************************************************)
(* Who is on a board: BoardHub's JoinBoard, LeaveBoard and                 *)
(* OnDisconnectedAsync, cut at their awaits, over BoardPresenceStore       *)
(* (whose operations are atomic under its lock) and the SignalR groups,    *)
(* with the presence list that each browser tab keeps from the events.     *)
(*                                                                         *)
(* The calls of one connection run one after the other, but its            *)
(* OnDisconnectedAsync does not wait for the call in flight.  A tab that   *)
(* reconnects gets a new connection; the server may notice the loss of the *)
(* old one only later.  The server knows presence by connection, the tabs  *)
(* know it by user.                                                        *)
(***************************************************************************)
EXTENDS Naturals, Sequences, FiniteSets

CONSTANTS
  Boards,      \* board ids
  Tabs,        \* browser tabs
  Users,       \* user ids
  Conns,       \* SignalR connection ids
  TabOf,       \* the tab that opens each connection
  UserOf,      \* the identity of each tab; tabs of one browser share theirs
  NoCall,      \* no handler is running
  NoConn,      \* the tab has no connection
  Home,        \* a board that is in use at the start
  Settled,     \* the connections that have joined it
  MaxCalls,    \* bound on the number of hub calls
  MaxLosses    \* bound on the number of connections that are lost

Who(c) == UserOf[TabOf[c]]

(* A call in flight.  users: the snapshot taken; to: who is still to be    *)
(* sent the broadcast.                                                     *)
Call ==
  [op    : {"join", "leave"},
   board : Boards,
   step  : {"store", "snap", "remove", "cast", "fan"},
   users : SUBSET Users,
   to    : SUBSET Conns]

(* OnDisconnectedAsync at work: the boards it has still to announce, and   *)
(* the board and the recipients of the announcement under way.             *)
Goodbye == [boards : SUBSET Boards, now : SUBSET Boards, to : SUBSET Conns]

Message ==
  [kind : {"snapshot", "joined", "left"}, users : SUBSET Users]

ASSUME PresenceAssumption ==
  /\ TabOf \in [Conns -> Tabs]
  /\ UserOf \in [Tabs -> Users]
  /\ NoCall \notin Call \cup Goodbye
  /\ NoConn \notin Conns
  /\ Home \in Boards /\ Settled \subseteq Conns
  /\ \A c, d \in Settled : TabOf[c] = TabOf[d] => c = d
  /\ MaxCalls \in Nat /\ MaxLosses \in Nat

VARIABLES
  status,      \* "new", "open", "lost" (aborted) or "closed" for each connection
  boardsOf,    \* the presence store: the boards each connection is on
  group,       \* the SignalR group of each board
  call,        \* the hub call each connection has in flight
  goodbye,     \* its OnDisconnectedAsync, when that is running
  outbox,      \* messages written to each connection, not yet handled
  asked,       \* how many hub calls were made (bounded by MaxCalls)
  link,        \* the connection each tab listens to
  seen,        \* the presence list of each tab, by user id
  excused      \* history: <<tab, user>> pairs whose entry may be wrong

serverVars == <<status, boardsOf, group, call, goodbye>>
vars == <<status, boardsOf, group, call, goodbye, outbox, asked, link, seen, excused>>

TypeOK ==
  /\ status \in [Conns -> {"new", "open", "lost", "closed"}]
  /\ boardsOf \in [Conns -> SUBSET Boards]
  /\ group \in [Boards -> SUBSET Conns]
  /\ call \in [Conns -> Call \cup {NoCall}]
  /\ goodbye \in [Conns -> Goodbye \cup {NoCall}]
  /\ outbox \in [Conns -> Seq(Message)]
  /\ asked \in 0 .. MaxCalls
  /\ link \in [Tabs -> Conns \cup {NoConn}]
  /\ seen \in [Tabs -> SUBSET Users]
  /\ excused \subseteq Tabs \X Users

Present(b) == {c \in Conns : b \in boardsOf[c]}

(* Faulty variants are named after their fault, and stand before the       *)
(* definition they would replace.  The model does not use them.            *)

(* Fault: the snapshot lists connections.                                  *)
SnapshotOfConnections(b) == Present(b)

(* Snapshot: the users of the connections on a board.                      *)
Snapshot(b) == {Who(c) : c \in Present(b)}

At(c, op, step) == call[c] # NoCall /\ call[c].op = op /\ call[c].step = step

(* A tab listens to its last connection, until that is lost.  What is      *)
(* written to the others is heard by nobody.                               *)
Heard(c) == link[TabOf[c]] = c

Post(c, m) ==
  outbox' = [outbox EXCEPT ![c] = IF Heard(c) THEN Append(@, m) ELSE @]

(* The recipients of a broadcast to a board.                               *)
Audience(b) == {c \in group[b] : Heard(c)}

Init ==
  /\ status = [c \in Conns |-> IF c \in Settled THEN "open" ELSE "new"]
  /\ boardsOf = [c \in Conns |-> IF c \in Settled THEN {Home} ELSE {}]
  /\ group = [b \in Boards |-> IF b = Home THEN Settled ELSE {}]
  /\ call = [c \in Conns |-> NoCall]
  /\ goodbye = [c \in Conns |-> NoCall]
  /\ outbox = [c \in Conns |-> <<>>]
  /\ asked = 0
  /\ link \in [Tabs -> Settled \cup {NoConn}]
  /\ \A t \in Tabs : IF \E c \in Settled : TabOf[c] = t
                      THEN link[t] # NoConn /\ TabOf[link[t]] = t
                      ELSE link[t] = NoConn
  /\ seen = [t \in Tabs |-> IF link[t] # NoConn THEN {Who(c) : c \in Settled} ELSE {}]
  /\ excused = {}

-----------------------------------------------------------------------------
(* What can make the entry of user u wrong in the tabs' lists.             *)

Excuse(tabs, users) == excused' = excused \cup (tabs \X users)

(* Somebody is announcing that u has left board b, or is about to.         *)
Leaving(u, b) ==
  \E c \in Conns :
    /\ Who(c) = u
    /\ \/ /\ call[c] # NoCall /\ call[c].op = "leave" /\ call[c].board = b
       \/ goodbye[c] # NoCall /\ b \in goodbye[c].boards \cup goodbye[c].now

(* Another connection of the same user is on board b.                      *)
Elsewhere(c, b) == \E d \in Present(b) \ {c} : Who(d) = Who(c)

-----------------------------------------------------------------------------
(* Connections.                                                            *)

(* The tab connects, or reconnects without the server knowing yet that the *)
(* previous connection is lost.                                            *)
Connect(c) ==
  /\ status[c] = "new"
  /\ status' = [status EXCEPT ![c] = "open"]
  /\ link' = [link EXCEPT ![TabOf[c]] = c]
  /\ outbox' = [d \in Conns |-> IF d = link[TabOf[c]] THEN <<>> ELSE outbox[d]]
  /\ UNCHANGED <<boardsOf, group, call, goodbye, asked, seen, excused>>

(* The server notices that a connection is gone.                           *)
Lose(c) ==
  /\ status[c] = "open"
  /\ Cardinality({d \in Conns : status[d] \in {"lost", "closed"}}) < MaxLosses
  /\ status' = [status EXCEPT ![c] = "lost"]
  /\ outbox' = [outbox EXCEPT ![c] = <<>>]
  /\ link' = [t \in Tabs |-> IF link[t] = c THEN NoConn ELSE link[t]]
  /\ UNCHANGED <<boardsOf, group, call, goodbye, asked, seen, excused>>

(* The hub starts the next call of a connection, up to its first await.  A *)
(* page joins a board when it connects, leaves it when it goes away, and   *)
(* may have joined again, or another board, before the connection stops.   *)
(* (The hub would let a connection be on several boards; no page does it.) *)
Begin(c, op, b) ==
  /\ status[c] = "open"
  /\ call[c] = NoCall
  /\ asked < MaxCalls
  /\ asked' = asked + 1
  /\ call' = [call EXCEPT ![c] =
                [op |-> op, board |-> b, step |-> IF op = "join" THEN "store" ELSE "remove",
                 users |-> {}, to |-> {}]]

(* A call whose token is cancelled may end at any await.                   *)
Abandon(c) ==
  /\ call[c] # NoCall
  /\ status[c] \in {"lost", "closed"}
  /\ call' = [call EXCEPT ![c] = NoCall]
  /\ IF call[c].op = "leave"
       THEN Excuse(Tabs, {Who(c)})
       ELSE UNCHANGED excused
  /\ UNCHANGED <<status, boardsOf, group, goodbye, outbox, asked, link, seen>>

-----------------------------------------------------------------------------
(* JoinBoard.                                                              *)

(* Fault: a connection is not added to the group.                          *)
AddToNoGroup(c, b) ==
  /\ boardsOf[c] = {}
  /\ Begin(c, "join", b)
  /\ UNCHANGED <<status, boardsOf, group, goodbye, outbox, link, seen, excused>>

AddToGroup(c, b) ==
  /\ boardsOf[c] = {}
  /\ Begin(c, "join", b)
  /\ group' = [group EXCEPT ![b] = @ \cup {c}]
  /\ UNCHANGED <<status, boardsOf, goodbye, outbox, link, seen, excused>>

(* presenceStore.Join: the entry and the snapshot, under the lock.         *)
JoinStore(c) ==
  LET b == call[c].board IN
  /\ At(c, "join", "store")
  /\ boardsOf' = [boardsOf EXCEPT ![c] = @ \cup {b}]
  /\ call' = [call EXCEPT ![c].step = "snap", ![c].users = Snapshot(b) \cup {Who(c)}]
  /\ IF Leaving(Who(c), b) THEN Excuse(Tabs, {Who(c)}) ELSE UNCHANGED excused
  /\ UNCHANGED <<status, group, goodbye, outbox, asked, link, seen>>

SendSnapshot(c) ==
  /\ At(c, "join", "snap")
  /\ Post(c, [kind |-> "snapshot", users |-> call[c].users])
  /\ call' = [call EXCEPT ![c].step = "cast"]
  /\ UNCHANGED <<status, boardsOf, group, goodbye, asked, link, seen, excused>>

-----------------------------------------------------------------------------
(* LeaveBoard.                                                             *)

(* presenceStore.Leave.                                                    *)
LeaveStore(c, b) ==
  /\ b \in boardsOf[c]
  /\ Begin(c, "leave", b)
  /\ boardsOf' = [boardsOf EXCEPT ![c] = @ \ {b}]
  /\ IF Elsewhere(c, b) THEN Excuse(Tabs, {Who(c)}) ELSE UNCHANGED excused
  /\ UNCHANGED <<status, group, goodbye, outbox, link, seen>>

RemoveFromGroup(c) ==
  /\ At(c, "leave", "remove")
  /\ group' = [group EXCEPT ![call[c].board] = @ \ {c}]
  /\ call' = [call EXCEPT ![c].step = "cast"]
  /\ UNCHANGED <<status, boardsOf, goodbye, outbox, asked, link, seen, excused>>

-----------------------------------------------------------------------------
(* The broadcast of PresenceJoined or PresenceLeft, then the end.          *)

Cast(c) ==
  /\ call[c] # NoCall
  /\ call[c].step = "cast"
  /\ call' = [call EXCEPT ![c].step = "fan", ![c].to = Audience(call[c].board)]
  /\ UNCHANGED <<status, boardsOf, group, goodbye, outbox, asked, link, seen, excused>>

(* An event about user u written to connection r between the moment r's    *)
(* own snapshot is taken and the moment it is sent overtakes the snapshot; *)
(* one that comes late is about a board that r has exchanged for another.  *)
Misplaced(r, u, b) ==
  IF \/ At(r, "join", "snap")
     \/ boardsOf[r] # {} /\ b \notin boardsOf[r]
    THEN {<<TabOf[r], u>>} ELSE {}

Send(c, r) ==
  /\ call[c] # NoCall
  /\ call[c].step = "fan"
  /\ r \in call[c].to
  /\ Post(r, [kind |-> IF call[c].op = "join" THEN "joined" ELSE "left",
              users |-> {Who(c)}])
  /\ call' = [call EXCEPT ![c].to = @ \ {r}]
  /\ excused' = excused \cup Misplaced(r, Who(c), call[c].board)
  /\ UNCHANGED <<status, boardsOf, group, goodbye, asked, link, seen>>

Finish(c) ==
  /\ call[c] # NoCall
  /\ call[c].step = "fan"
  /\ call[c].to = {}
  /\ call' = [call EXCEPT ![c] = NoCall]
  /\ UNCHANGED <<status, boardsOf, group, goodbye, outbox, asked, link, seen, excused>>

-----------------------------------------------------------------------------
(* OnDisconnectedAsync.                                                    *)

(* Fault: the boards of a lost connection are forgotten, not announced.    *)
RemoveConnectionSilently(c) ==
  /\ status[c] = "lost"
  /\ goodbye[c] = NoCall
  /\ boardsOf' = [boardsOf EXCEPT ![c] = {}]
  /\ goodbye' = [goodbye EXCEPT ![c] = [boards |-> {}, now |-> {}, to |-> {}]]
  /\ UNCHANGED <<status, group, call, outbox, asked, link, seen, excused>>

(* presenceStore.RemoveConnection.                                         *)
RemoveConnection(c) ==
  /\ status[c] = "lost"
  /\ goodbye[c] = NoCall
  /\ boardsOf' = [boardsOf EXCEPT ![c] = {}]
  /\ goodbye' = [goodbye EXCEPT ![c] =
                   [boards |-> boardsOf[c], now |-> {}, to |-> {}]]
  /\ IF \/ \E b \in boardsOf[c] : Elsewhere(c, b)
        \/ call[c] # NoCall /\ call[c].op = "join"
       THEN Excuse(Tabs, {Who(c)})
       ELSE UNCHANGED excused
  /\ UNCHANGED <<status, group, call, outbox, asked, link, seen>>

(* PresenceLeft to one board after the other.                              *)
GoodbyeCast(c, b) ==
  /\ goodbye[c] # NoCall
  /\ goodbye[c].to = {}
  /\ b \in goodbye[c].boards
  /\ goodbye' = [goodbye EXCEPT ![c] =
                   [boards |-> @.boards \ {b}, now |-> {b}, to |-> Audience(b)]]
  /\ UNCHANGED <<status, boardsOf, group, call, outbox, asked, link, seen, excused>>

GoodbyeSend(c, r) ==
  /\ goodbye[c] # NoCall
  /\ r \in goodbye[c].to
  /\ Post(r, [kind |-> "left", users |-> {Who(c)}])
  /\ goodbye' = [goodbye EXCEPT ![c].to = @ \ {r}]
  /\ excused' = excused \cup UNION {Misplaced(r, Who(c), b) : b \in goodbye[c].now}
  /\ UNCHANGED <<status, boardsOf, group, call, asked, link, seen>>

(* Fault: the handler is cancelled with its connection.                    *)
CloseCancelled(c) ==
  /\ goodbye[c] # NoCall
  /\ goodbye' = [goodbye EXCEPT ![c] = NoCall]
  /\ status' = [status EXCEPT ![c] = "closed"]
  /\ group' = [b \in Boards |-> group[b] \ {c}]
  /\ UNCHANGED <<boardsOf, call, outbox, asked, link, seen, excused>>

(* SignalR then forgets the connection and its groups.                     *)
Close(c) ==
  /\ goodbye[c] # NoCall
  /\ goodbye[c].boards = {}
  /\ goodbye[c].to = {}
  /\ goodbye' = [goodbye EXCEPT ![c] = NoCall]
  /\ status' = [status EXCEPT ![c] = "closed"]
  /\ group' = [b \in Boards |-> group[b] \ {c}]
  /\ UNCHANGED <<boardsOf, call, outbox, asked, link, seen, excused>>

-----------------------------------------------------------------------------
(* The tab: setPresence, addPresence, removePresence.                      *)

Listed(users, m) ==
  CASE m.kind = "snapshot" -> m.users
    [] m.kind = "joined"   -> users \cup m.users
    [] m.kind = "left"     -> users \ m.users

Handle(t) ==
  LET c == link[t] IN
  /\ c # NoConn
  /\ outbox[c] # <<>>
  /\ seen' = [seen EXCEPT ![t] = Listed(@, Head(outbox[c]))]
  /\ outbox' = [outbox EXCEPT ![c] = Tail(@)]
  /\ UNCHANGED <<serverVars, asked, link, excused>>

-----------------------------------------------------------------------------
HubStep(c) ==
  \/ JoinStore(c)
  \/ SendSnapshot(c)
  \/ RemoveFromGroup(c)
  \/ Cast(c)
  \/ \E r \in Conns : Send(c, r)
  \/ Finish(c)

GoodbyeStep(c) ==
  \/ RemoveConnection(c)
  \/ \E b \in Boards : GoodbyeCast(c, b)
  \/ \E r \in Conns : GoodbyeSend(c, r)
  \/ Close(c)

Next ==
  \/ \E c \in Conns :
       \/ Connect(c)
       \/ Lose(c)
       \/ \E b \in Boards : AddToGroup(c, b) \/ LeaveStore(c, b)
       \/ Abandon(c)
       \/ HubStep(c)
       \/ GoodbyeStep(c)
  \/ \E t \in Tabs : Handle(t)

Spec == Init /\ [][Next]_vars

(* The server runs its handlers, and tabs handle what they are sent.       *)
FairSpec ==
  /\ Spec
  /\ \A c \in Conns : WF_vars(HubStep(c)) /\ WF_vars(GoodbyeStep(c))
  /\ \A t \in Tabs : WF_vars(Handle(t))

-----------------------------------------------------------------------------
(* Properties.                                                             *)

(* A live connection that the store lists on a board is in the board's     *)
(* SignalR group, at every step of joining and leaving: whoever is shown   *)
(* to the others also hears them.                                          *)
PresentHear ==
  \A b \in Boards : \A c \in Present(b) : status[c] = "open" => c \in group[b]

(* No handler is running, and every tab has handled what it was sent.      *)
Quiet ==
  /\ \A c \in Conns : call[c] = NoCall /\ goodbye[c] = NoCall /\ status[c] # "lost"
  /\ \A t \in Tabs : link[t] # NoConn => outbox[link[t]] = <<>>

Members(b) == {t \in Tabs : link[t] # NoConn /\ boardsOf[link[t]] = {b}}

(* Once joins, leaves and losses have settled, the list of every tab on a  *)
(* board is exactly the users the store has there, except for the entries  *)
(* that went through one of the races the steps above name: a snapshot     *)
(* overtaken by a later event, an event of the board the tab was on        *)
(* before, a user on the board twice, a join that outlives its connection, *)
(* a leave cut off before its announcement.                                *)
ListsMatchStoreUnlessExcused ==
  Quiet => \A b \in Boards : \A t \in Members(b) : \A u \in Users :
             <<t, u>> \notin excused => (u \in seen[t] <=> u \in Snapshot(b))

(* The store and the groups have forgotten connection c (unless a join has *)
(* outlived it, which is excused).                                         *)
Forgotten(c) ==
  /\ status[c] = "closed"
  /\ \A b \in Boards : c \notin group[b]
  /\ boardsOf[c] = {} \/ Tabs \X {Who(c)} \subseteq excused

(* A lost connection is forgotten, and every tab on a board has seen the   *)
(* user go, unless the user is there again or the entry is excused: the    *)
(* disconnect handler gets there although the token of the connection is   *)
(* cancelled, its last call may go on beside it and others are lost too.   *)
LossIsCleanedUp ==
  \A c \in Conns :
    status[c] = "lost"
      ~> /\ Forgotten(c)
         /\ \A b \in Boards : \A t \in Members(b) :
              <<t, Who(c)>> \notin excused /\ Who(c) \in seen[t] => Who(c) \in Snapshot(b)
=============================================================================
