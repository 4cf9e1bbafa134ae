----------------------------- MODULE BoardPage -----------------------------
(***************************************************************************)
(* One tab of the canvas client: WhiteboardPage opens a board, changes to  *)
(* another or is renamed, BoardHubClient starts and stops its connection,  *)
(* and both report to one connection status, which unlocks the tools.      *)
(*                                                                         *)
(* Each run of the page's effect is a load; leaving it is a clean-up that  *)
(* nobody awaits.  A page keeps one client while it is mounted: a change   *)
(* of board or of name runs the effect again with the same connection, a   *)
(* visit of the list makes a new one.  The connection is SignalR's, with   *)
(* automatic reconnection: calls of one connection are answered in order,  *)
(* and rejected when it closes.  `blame` names what may make the settled   *)
(* page wrong.  The churn scenario (s13) is left out.                      *)
(***************************************************************************)
EXTENDS Integers, Sequences

CONSTANTS
  Boards,
  NoBoard,
  MaxLoads,    \* bound: runs of the page's effect
  MaxClients,  \* bound: pages mounted
  MaxFaults    \* bound: failures of the network and of the server

ASSUME BoardPageAssumption ==
  NoBoard \notin Boards /\ {MaxLoads, MaxClients, MaxFaults} \subseteq Nat

VARIABLES
  view,      \* the board in view, or NoBoard: the list of boards
  loads,     \* runs of the effect: sequence of [client, board, pc, disposed]
  clients,   \* sequence of [conn, wanted, joined, calls]
  status,    \* connectionStatus of the store
  shapes,    \* whether the store has shapes to paint
  active,    \* the active board load context: a load, or 0
  timing,    \* whether the timers of the first and of the last shape run
  painted,   \* loads whose first paint was marked
  measured,  \* loads whose first paint was measured
  faults,
  blame

page == <<view, shapes>>
timers == <<active, timing, painted, measured>>
vars == <<page, loads, clients, status, timers, faults, blame>>

Init ==
  /\ view = NoBoard /\ loads = <<>> /\ clients = <<>>
  /\ status = "disconnected" /\ shapes = FALSE
  /\ active = 0 /\ timing = FALSE /\ painted = {} /\ measured = {}
  /\ faults = 0 /\ blame = {}

\* The client and the load of the page in view.
Here == Len(clients)
Now == Len(loads)
IsHere(c) == view # NoBoard /\ c = Here

At(l, pc) == loads[l].pc = pc
Fault == faults < MaxFaults /\ faults' = faults + 1
If(condition, cause) == IF condition THEN {cause} ELSE {}

JoinCall(l, b) == [op |-> "join", load |-> l, board |-> b]
OtherCall(op, b) == [op |-> op, load |-> 0, board |-> b]
Calls(c, op) == {i \in DOMAIN clients[c].calls : clients[c].calls[i].op = op}

-----------------------------------------------------------------------------
(* The page's effect *)

\* disconnect(): it leaves its board if it is connected, and stops the connection.
Disconnect(c) ==
  CASE clients[c].conn = "Disconnected" -> clients
    [] clients[c].conn = "Connected" ->
         [clients EXCEPT ![c].calls = Append(@, OtherCall("leave", clients[c].wanted))]
    [] OTHER -> [clients EXCEPT ![c].conn = "Disconnecting"]

Dispose == IF view = NoBoard THEN loads ELSE [loads EXCEPT ![Now].disposed = TRUE]

NewClient == [conn |-> "Disconnected", wanted |-> NoBoard, joined |-> {}, calls |-> <<>>]

\* A board is opened, changed for another (by the browser's history), or the user changes name,
\* which runs the effect again: first the clean-up, which nobody awaits, then a new load.
OpenBoard(b) ==
  /\ Now < MaxLoads
  /\ view = NoBoard => Here < MaxClients
  /\ clients' = IF view = NoBoard THEN Append(clients, NewClient) ELSE Disconnect(Here)
  /\ loads' = Append(Dispose, [client |-> Len(clients'), board |-> b, pc |-> "get", disposed |-> FALSE])
  /\ view' = b /\ shapes' = FALSE /\ status' = "connecting"
  /\ active' = Now + 1 /\ timing' = TRUE
  /\ UNCHANGED <<painted, measured, faults, blame>>

\* Back to the list of boards: the page unmounts.
Back ==
  /\ view # NoBoard /\ view' = NoBoard
  /\ clients' = Disconnect(Here) /\ loads' = Dispose
  /\ active' = 0 /\ timing' = FALSE
  /\ UNCHANGED <<status, shapes, painted, measured, faults, blame>>

\* The catch clause of load(), which does not ask whether the page has moved on: the timers and
\* the status are by then those of another load.
LoadFailed(l) ==
  /\ loads' = [loads EXCEPT ![l].pc = "failed"]
  /\ timing' = FALSE /\ status' = "error"
  /\ blame' = blame \cup If(loads[l].disposed, "stale failure")

Connect(l, conn, calls, pc) ==
  LET c == loads[l].client
  IN  /\ clients' = [clients EXCEPT ![c].conn = conn, ![c].wanted = loads[l].board, ![c].calls = calls]
      /\ loads' = [loads EXCEPT ![l].pc = pc]
      /\ status' = "connecting" /\ UNCHANGED <<timing, blame>>

\* Fault: whether the page has moved on is not asked after the fetch.
BoardFetchedUnchecked(l) ==
  /\ At(l, "get") /\ shapes' = TRUE
  /\ LET c == loads[l].client
     IN  \/ /\ clients[c].conn = "Disconnected"
            /\ Connect(l, "Connecting", <<>>, "start")
         \/ /\ clients[c].conn = "Connected"
            /\ Connect(l, "Connected", Append(clients[c].calls, JoinCall(l, loads[l].board)), "join")
         \/ /\ clients[c].conn \notin {"Disconnected", "Connected"}
            /\ clients' = [clients EXCEPT ![c].wanted = loads[l].board]
            /\ LoadFailed(l)
  /\ UNCHANGED <<view, active, painted, measured, faults>>

\* The board has come.  connect() takes a connection that is not disconnected for one to join with.
BoardFetched(l) ==
  /\ At(l, "get") /\ ~loads[l].disposed /\ shapes' = TRUE
  /\ LET c == loads[l].client
     IN  \/ /\ clients[c].conn = "Disconnected"
            /\ Connect(l, "Connecting", <<>>, "start")
         \/ /\ clients[c].conn = "Connected"
            /\ Connect(l, "Connected", Append(clients[c].calls, JoinCall(l, loads[l].board)), "join")
         \/ /\ clients[c].conn \notin {"Disconnected", "Connected"}
            /\ clients' = [clients EXCEPT ![c].wanted = loads[l].board]
            /\ LoadFailed(l)
  /\ UNCHANGED <<view, active, painted, measured, faults>>

\* Scenario s02 abandons the load: the board is shown, nothing measures it and nothing connects.
BoardAbandoned(l) ==
  /\ At(l, "get") /\ ~loads[l].disposed /\ shapes' = TRUE
  /\ loads' = [loads EXCEPT ![l].pc = "abandoned"]
  /\ timing' = FALSE
  /\ UNCHANGED <<view, clients, status, active, painted, measured, faults, blame>>

FetchedTooLate(l) ==
  /\ At(l, "get") /\ loads[l].disposed
  /\ loads' = [loads EXCEPT ![l].pc = "over"]
  /\ UNCHANGED <<page, clients, status, timers, faults, blame>>

FetchFails(l) ==
  /\ At(l, "get") /\ Fault
  /\ LoadFailed(l)
  /\ UNCHANGED <<page, clients, active, painted, measured>>

Started(l) ==
  /\ At(l, "start") /\ clients[loads[l].client].conn = "Connecting"
  /\ clients' = [clients EXCEPT ![loads[l].client].conn = "Connected",
                                 ![loads[l].client].calls = <<JoinCall(l, loads[l].board)>>]
  /\ loads' = [loads EXCEPT ![l].pc = "join"]
  /\ UNCHANGED <<page, status, timers, faults, blame>>

\* start() rejects: the server is not reached, or the connection was stopped meanwhile.
StartFails(l) ==
  /\ At(l, "start")
  /\ IF clients[loads[l].client].conn = "Disconnecting" THEN UNCHANGED faults ELSE Fault
  /\ clients' = [clients EXCEPT ![loads[l].client].conn = "Disconnected"]
  /\ LoadFailed(l)
  /\ UNCHANGED <<page, active, painted, measured>>

-----------------------------------------------------------------------------
(* The calls of a connection *)

\* What a client tells is taken for the status of the page in view.
Tell(c, s) == status' = s /\ blame' = blame \cup If(~IsHere(c), "another client")

\* The first call of a client, which is of this kind, is answered: field f of the client changes.
Answer(c, op) ==
  /\ clients[c].calls # <<>> /\ Head(clients[c].calls).op = op
  /\ UNCHANGED <<page, timers, faults>>

Joined(c) ==
  /\ Answer(c, "join")
  /\ LET call == Head(clients[c].calls)
     IN  /\ clients' = [clients EXCEPT ![c].calls = Tail(@), ![c].joined = @ \cup {call.board}]
         /\ loads' = [loads EXCEPT ![call.load].pc = "over"]
  /\ Tell(c, "connected")

Rejoined(c) ==
  /\ Answer(c, "rejoin")
  /\ clients' = [clients EXCEPT ![c].calls = Tail(@),
                                 ![c].joined = @ \cup {Head(clients[c].calls).board}]
  /\ UNCHANGED <<loads, status, blame>>

\* LeaveBoard of disconnect(), which then stops the connection.
Left(c) ==
  /\ Answer(c, "leave")
  /\ clients' = [clients EXCEPT ![c].calls = Tail(@), ![c].conn = "Disconnecting",
                                 ![c].joined = @ \ {Head(clients[c].calls).board}]
  /\ UNCHANGED <<loads, status, blame>>

\* The server refuses a call: disconnect() ends there and stops nothing, a reconnection ends
\* without the board, and nobody is told of either.
Refused(c) ==
  /\ clients[c].calls # <<>> /\ Fault
  /\ clients' = [clients EXCEPT ![c].calls = Tail(@)]
  /\ LET call == Head(clients[c].calls)
     IN  \/ call.op = "join" /\ LoadFailed(call.load)
         \/ /\ call.op # "join" /\ UNCHANGED <<loads, timing, status>>
            /\ blame' = blame \cup {IF call.op = "leave" THEN "never stopped" ELSE "not rejoined"}
  /\ UNCHANGED <<page, active, painted, measured>>

\* The connection closes: its client tells so, then its calls are rejected.
Closed(c, conn, s) ==
  LET joining == {l \in DOMAIN loads : \E i \in Calls(c, "join") : clients[c].calls[i].load = l}
  IN  /\ clients' = [clients EXCEPT ![c].conn = conn, ![c].calls = <<>>, ![c].joined = {}]
      /\ loads' = [l \in DOMAIN loads |-> IF l \in joining THEN [loads[l] EXCEPT !.pc = "failed"] ELSE loads[l]]
      /\ status' = IF joining = {} THEN s ELSE "error"
      /\ timing' = (timing /\ joining = {})
      /\ blame' = blame \cup If(~IsHere(c), "another client")
                        \cup If(\E l \in joining : loads[l].disposed, "stale failure")
                        \cup If(conn = "Reconnecting" /\ Calls(c, "leave") # {}, "never stopped")
      /\ UNCHANGED <<page, active, painted, measured>>

\* stop() is done.
Stopped(c) ==
  /\ clients[c].conn = "Disconnecting" /\ \A l \in DOMAIN loads : At(l, "start") => loads[l].client # c
  /\ Closed(c, "Disconnected", "disconnected")
  /\ UNCHANGED faults

Lost(c) ==
  /\ clients[c].conn = "Connected" /\ Fault
  /\ Closed(c, "Reconnecting", "connecting")

\* onreconnected: the status does not wait for JoinBoard.
Reconnected(c) ==
  /\ clients[c].conn = "Reconnecting"
  /\ clients' = [clients EXCEPT ![c].conn = "Connected",
                                 ![c].calls = <<OtherCall("rejoin", clients[c].wanted)>>]
  /\ Tell(c, "connected")
  /\ UNCHANGED <<page, loads, timers, faults>>

\* The attempts to reconnect have run out.
GivenUp(c) ==
  /\ clients[c].conn = "Reconnecting"
  /\ Closed(c, "Disconnected", "disconnected")
  /\ UNCHANGED faults

\* A call of the user (a shape, the cursor, the selection) fails.
CallFails ==
  /\ view # NoBoard /\ Fault
  /\ status' = "error" /\ blame' = blame \cup {"failed call"}
  /\ UNCHANGED <<page, loads, clients, timers>>

\* A frame with shapes is painted: the first of the active load ends the timers.
Paint ==
  /\ active # 0 /\ shapes /\ active \notin painted
  /\ painted' = painted \cup {active}
  /\ measured' = IF timing THEN measured \cup {active} ELSE measured
  /\ timing' = FALSE
  /\ UNCHANGED <<page, loads, clients, status, active, faults, blame>>

-----------------------------------------------------------------------------
LoadStep(l) ==
  BoardFetched(l) \/ BoardAbandoned(l) \/ FetchedTooLate(l) \/ FetchFails(l) \/ Started(l) \/ StartFails(l)

ClientStep(c) ==
  \/ Joined(c) \/ Rejoined(c) \/ Left(c) \/ Refused(c)
  \/ Stopped(c) \/ Lost(c) \/ Reconnected(c) \/ GivenUp(c)

Next ==
  \/ \E b \in Boards : OpenBoard(b)
  \/ Back \/ CallFails \/ Paint
  \/ \E l \in DOMAIN loads : LoadStep(l)
  \/ \E c \in DOMAIN clients : ClientStep(c)

Spec == Init /\ [][Next]_vars

-----------------------------------------------------------------------------
(* Properties *)

GaveUp(l) == At(l, "failed") \/ At(l, "abandoned")

Settled ==
  /\ \A l \in DOMAIN loads : loads[l].pc \in {"over", "failed", "abandoned"}
  /\ \A c \in DOMAIN clients : clients[c].calls = <<>> /\ clients[c].conn \in {"Connected", "Disconnected"}

\* Once loads, clean-ups, losses and reconnections have settled, in whatever order they ended:
\* the tools are unlocked exactly when the page in view hears its board, no page that was left
\* keeps a connection, and every first paint was measured unless its load failed or was
\* abandoned.  Known exceptions are those of `blame`: a load that fails after its page has moved
\* on, a client that reports for another page, a LeaveBoard or a JoinBoard of a reconnection that
\* fails unheard, and the status "error" of a failed call.
SettledPageIsTrue ==
  (Settled /\ blame = {}) =>
    /\ view # NoBoard =>
         (status = "connected" <=> clients[Here].conn = "Connected" /\ clients[Here].joined = {view})
    /\ \A c \in DOMAIN clients : ~IsHere(c) => clients[c].conn = "Disconnected"
    /\ \A l \in painted \ measured : GaveUp(l)

=============================================================================
