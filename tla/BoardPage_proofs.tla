------------------------- MODULE BoardPage_proofs -------------------------
(***************************************************************************)
(* Theorems about BoardPage, for any boards and any bounds.                *)
(*                                                                         *)
(*   SettledPageIsAlwaysTrue   a page that has settled is what it shows    *)
(*                                                                         *)
(* It follows from PageInductive: while nothing is to blame, a page is     *)
(* sound.  What makes the settled page true is that a connection, once its *)
(* page has moved on, can only come to its end: a client is either the one *)
(* of the page in view and hears of its board alone, or it has stopped, or *)
(* it is leaving, and no step turns one that leaves into one that stays.   *)
(***************************************************************************)
EXTENDS BoardPage, SequenceTheorems, TLAPS

-----------------------------------------------------------------------------
(* The inductive invariant *)

Conns == {"Disconnected", "Connecting", "Connected", "Reconnecting", "Disconnecting"}
PCs == {"get", "start", "join", "over", "failed", "abandoned"}

Load == [client : Nat, board : Boards, pc : PCs, disposed : BOOLEAN]
Call == [op : {"join", "rejoin", "leave"}, load : Nat, board : Boards \cup {NoBoard}]
Client == [conn : Conns, wanted : Boards \cup {NoBoard}, joined : SUBSET (Boards \cup {NoBoard}),
           calls : Seq(Call)]

PageTypeOK ==
  /\ view \in Boards \cup {NoBoard}
  /\ loads \in Seq(Load)
  /\ clients \in Seq(Client)
  /\ shapes \in BOOLEAN
  /\ active \in Nat /\ timing \in BOOLEAN
  /\ painted \subseteq DOMAIN loads

\* A client that leaves its board: it is stopping, or will when LeaveBoard is answered.
Leaving(c) ==
  \/ clients[c].conn = "Disconnecting"
  \/ clients[c].conn = "Connected" /\ Calls(c, "leave") # {}

Ended(l) == loads[l].pc \in {"over", "failed", "abandoned"}

\* Every load has its client; all but the load of the page in view are disposed of.
LoadsSound ==
  /\ \A l \in DOMAIN loads :
       /\ loads[l].client \in DOMAIN clients
       /\ loads[l].disposed <=> (view = NoBoard \/ l # Now)
  /\ view # NoBoard =>
       Now \in DOMAIN loads /\ loads[Now].client = Here /\ loads[Now].board = view

\* A load that starts the connection is that of the page in view, or the connection is stopping.
StartsSound ==
  \A l \in DOMAIN loads :
    At(l, "start") => clients[loads[l].client].conn =
                        (IF loads[l].disposed THEN "Disconnecting" ELSE "Connecting")

\* A client has calls and boards only while its connection is open, and its calls of JoinBoard
\* are each waited for by one load of its own.
ClientSound(c) ==
  /\ clients[c].conn \notin {"Connected", "Disconnecting"} =>
       clients[c].calls = <<>> /\ clients[c].joined = {}
  /\ \A i \in Calls(c, "join") :
       LET l == clients[c].calls[i].load
       IN  l \in DOMAIN loads /\ loads[l].client = c /\ At(l, "join")
  /\ \A i, j \in Calls(c, "join") :
       clients[c].calls[i].load = clients[c].calls[j].load => i = j
  /\ ~IsHere(c) => clients[c].conn = "Disconnected" \/ Leaving(c)

\* The connected client of the page in view: it joins its board, joins it again, or has done so
\* or failed to, as the status says.
HearsItsBoard ==
  \/ clients[Here].calls = <<JoinCall(Now, view)>> /\ clients[Here].joined = {}
  \/ /\ clients[Here].calls = <<OtherCall("rejoin", view)>> /\ clients[Here].joined = {}
     /\ status = "connected" /\ Ended(Now)
  \/ /\ clients[Here].calls = <<>> /\ clients[Here].joined \subseteq {view}
     /\ status = "connected" <=> clients[Here].joined = {view}
     /\ Ended(Now)

HereSound ==
  view # NoBoard =>
    /\ clients[Here].conn = "Disconnected" => status # "connected"
    /\ clients[Here].conn = "Connecting" => clients[Here].wanted = view /\ At(Now, "start")
    /\ clients[Here].conn = "Reconnecting" => clients[Here].wanted = view /\ Ended(Now)
    /\ (clients[Here].conn = "Connected" /\ ~Leaving(Here)) =>
         clients[Here].wanted = view /\ HearsItsBoard

\* The timers run until the active load has painted, failed or been abandoned.
TimersSound ==
  /\ active = IF view = NoBoard THEN 0 ELSE Now
  /\ (active # 0 /\ ~timing) => active \in painted \/ GaveUp(active)
  /\ \A l \in painted \ measured : GaveUp(l)

PageSound ==
  /\ PageTypeOK /\ LoadsSound /\ StartsSound
  /\ \A c \in DOMAIN clients : ClientSound(c)
  /\ HereSound /\ TimersSound

\* Nothing was to blame so far: only then is the page bound to be sound.
PageInductive == blame = {} => PageSound
-----------------------------------------------------------------------------
USE DEF Here, Now, GaveUp

(* Sequences with one element changed, and calls that are added or answered *)

WithPc(s, l, p) == [s EXCEPT ![l].pc = p]

LEMMA PcSet ==
  ASSUME NEW s \in Seq(Load), NEW l \in DOMAIN s, NEW p \in PCs,
         NEW t, t = WithPc(s, l, p)
  PROVE  /\ t \in Seq(Load) /\ DOMAIN t = DOMAIN s /\ Len(t) = Len(s)
         /\ \A m \in DOMAIN s :
              /\ t[m].client = s[m].client /\ t[m].board = s[m].board
              /\ t[m].disposed = s[m].disposed
              /\ t[m].pc = IF m = l THEN p ELSE s[m].pc
<1>1. \A m \in DOMAIN s : s[m] \in Load
  OBVIOUS
<1>2. [s[l] EXCEPT !.pc = p] \in Load
  BY <1>1 DEF Load
<1>3. t = [s EXCEPT ![l] = [s[l] EXCEPT !.pc = p]]
  BY DEF WithPc
<1>4. t \in Seq(Load) /\ DOMAIN t = DOMAIN s /\ Len(t) = Len(s)
  BY <1>2, <1>3
<1>5. ASSUME NEW m \in DOMAIN s
      PROVE  /\ t[m].client = s[m].client /\ t[m].board = s[m].board
             /\ t[m].disposed = s[m].disposed
             /\ t[m].pc = IF m = l THEN p ELSE s[m].pc
  BY <1>1, <1>3 DEF Load
<1> QED
  BY <1>4, <1>5

LEMMA ClientSet ==
  ASSUME NEW s \in Seq(Client), NEW c \in DOMAIN s, NEW k \in Client,
         NEW t, t = [s EXCEPT ![c] = k]
  PROVE  /\ t \in Seq(Client) /\ DOMAIN t = DOMAIN s /\ Len(t) = Len(s)
         /\ t[c] = k /\ \A d \in DOMAIN s : d # c => t[d] = s[d]
  OBVIOUS

(* The first call is answered: the others keep their order.                *)
LEMMA CallAnswered ==
  ASSUME NEW s \in Seq(Call), s # <<>>
  PROVE  /\ Tail(s) \in Seq(Call) /\ Head(s) = s[1] /\ Head(s) \in Call /\ 1 \in DOMAIN s
         /\ \A i \in DOMAIN Tail(s) : i + 1 \in DOMAIN s /\ i + 1 # 1 /\ Tail(s)[i] = s[i + 1]
         /\ \A i \in DOMAIN s : i # 1 => i - 1 \in DOMAIN Tail(s) /\ Tail(s)[i - 1] = s[i]
  OBVIOUS

LEMMA CallMade ==
  ASSUME NEW s \in Seq(Call), NEW call \in Call
  PROVE  /\ Append(s, call) \in Seq(Call) /\ Len(s) + 1 \in DOMAIN Append(s, call)
         /\ Append(s, call)[Len(s) + 1] = call
         /\ \A i \in DOMAIN s : i \in DOMAIN Append(s, call) /\ i # Len(s) + 1 /\ Append(s, call)[i] = s[i]
         /\ \A i \in DOMAIN Append(s, call) : i \in DOMAIN s \/ i = Len(s) + 1
  OBVIOUS

(* A client that no step touches stays sound, while its loads that join do. *)
LEMMA OtherClient ==
  ASSUME NEW d \in DOMAIN clients, ClientSound(d), clients'[d] = clients[d],
         IsHere(d)' => IsHere(d), IsHere(d) => IsHere(d)',
         \A l \in DOMAIN loads : loads[l].client = d /\ At(l, "join") =>
           l \in DOMAIN loads' /\ loads'[l].client = d /\ At(l, "join")'
  PROVE  ClientSound(d)'
<1>1. \A op : Calls(d, op)' = Calls(d, op)
  BY DEF Calls
<1>2. Leaving(d)' <=> Leaving(d)
  BY <1>1 DEF Leaving
<1> QED
  BY <1>1, <1>2 DEF ClientSound

-----------------------------------------------------------------------------
(* The initial state *)

LEMMA InitSound == Init => PageSound
<1> SUFFICES ASSUME Init PROVE PageSound
  OBVIOUS
<1>1. DOMAIN loads = {} /\ DOMAIN clients = {}
  BY DEF Init
<1>2. PageTypeOK
  <2>1. <<>> \in Seq(Load) /\ <<>> \in Seq(Client)
    OBVIOUS
  <2> QED
    BY <2>1 DEF Init, PageTypeOK
<1> QED
  BY <1>1, <1>2 DEF Init, PageSound, LoadsSound, StartsSound, HereSound, TimersSound

-----------------------------------------------------------------------------
(* The page's effect *)

(* disconnect() leaves or ends a connection of whatever state, and makes   *)
(* one that was at work a client that leaves.                              *)
LEMMA DisconnectSound ==
  ASSUME PageTypeOK, NEW c \in DOMAIN clients, ClientSound(c), clients[c].conn \in Conns,
         NEW t, t = Disconnect(c)
  PROVE  /\ t \in Seq(Client) /\ DOMAIN t = DOMAIN clients /\ Len(t) = Len(clients)
         /\ \A d \in DOMAIN clients : d # c => t[d] = clients[d]
         /\ t[c].joined = clients[c].joined
         /\ \A i \in DOMAIN clients[c].calls :
              i \in DOMAIN t[c].calls /\ t[c].calls[i] = clients[c].calls[i]
         /\ \A i \in DOMAIN t[c].calls :
              t[c].calls[i].op = "join" => i \in DOMAIN clients[c].calls
         /\ \/ clients[c].conn = "Disconnected" /\ t[c] = clients[c]
            \/ /\ clients[c].conn = "Connected" /\ t[c].conn = "Connected"
               /\ \E i \in DOMAIN t[c].calls : t[c].calls[i].op = "leave"
            \/ /\ clients[c].conn \notin {"Connected", "Disconnected"}
               /\ t[c].conn = "Disconnecting" /\ t[c].calls = clients[c].calls
<1>1. clients \in Seq(Client) /\ clients[c] \in Client
  BY DEF PageTypeOK
<1>2. CASE clients[c].conn = "Disconnected"
  BY <1>1, <1>2 DEF Disconnect
<1>3. CASE clients[c].conn = "Connected"
  <2> DEFINE call == OtherCall("leave", clients[c].wanted)
             calls == Append(clients[c].calls, call)
             k == [clients[c] EXCEPT !.calls = calls]
  <2>1. call \in Call /\ call.op = "leave"
    BY <1>1 DEF Client, Call, OtherCall
  <2>2. clients[c].calls \in Seq(Call)
    BY <1>1 DEF Client
  <2> HIDE DEF call
  <2>3. /\ calls \in Seq(Call) /\ Len(clients[c].calls) + 1 \in DOMAIN calls
        /\ calls[Len(clients[c].calls) + 1] = call
        /\ \A i \in DOMAIN clients[c].calls : i \in DOMAIN calls /\ calls[i] = clients[c].calls[i]
        /\ \A i \in DOMAIN calls : i \in DOMAIN clients[c].calls \/ i = Len(clients[c].calls) + 1
    BY <2>1, <2>2, CallMade
  <2> HIDE DEF calls
  <2>4. k \in Client
    BY <1>1, <2>3 DEF Client
  <2>5. k.conn = clients[c].conn /\ k.joined = clients[c].joined /\ k.calls = calls
    BY <1>1 DEF Client
  <2>6. t = [clients EXCEPT ![c] = k]
    BY <1>3 DEF Disconnect, calls, call
  <2> HIDE DEF k
  <2>7. /\ t \in Seq(Client) /\ DOMAIN t = DOMAIN clients /\ Len(t) = Len(clients)
        /\ t[c] = k /\ \A d \in DOMAIN clients : d # c => t[d] = clients[d]
    BY <1>1, <2>4, <2>6, ClientSet
  <2> QED
    BY <1>3, <2>1, <2>3, <2>5, <2>7
<1>4. CASE clients[c].conn \notin {"Connected", "Disconnected"}
  <2> DEFINE k == [clients[c] EXCEPT !.conn = "Disconnecting"]
  <2>1. k \in Client
    BY <1>1 DEF Client, Conns
  <2>2. k.conn = "Disconnecting" /\ k.joined = clients[c].joined /\ k.calls = clients[c].calls
    BY <1>1 DEF Client
  <2>3. t = [clients EXCEPT ![c] = k]
    BY <1>4 DEF Disconnect
  <2> HIDE DEF k
  <2>4. /\ t \in Seq(Client) /\ DOMAIN t = DOMAIN clients /\ Len(t) = Len(clients)
        /\ t[c] = k /\ \A d \in DOMAIN clients : d # c => t[d] = clients[d]
    BY <1>1, <2>1, <2>3, ClientSet
  <2> QED
    BY <1>4, <2>2, <2>4
<1> QED
  BY <1>2, <1>3, <1>4

LEMMA LeftClient ==
  ASSUME PageSound, view # NoBoard, NEW h, h = Here, clients' = Disconnect(Here),
         \A l \in DOMAIN loads : /\ l \in DOMAIN loads' /\ loads'[l].client = loads[l].client
                                 /\ loads'[l].pc = loads[l].pc
  PROVE  /\ h \in DOMAIN clients
         /\ clients' \in Seq(Client) /\ DOMAIN clients' = DOMAIN clients /\ Len(clients') = Len(clients)
         /\ \A d \in DOMAIN clients : d # h => clients'[d] = clients[d]
         /\ clients'[h].conn = "Disconnected" \/ Leaving(h)'
         /\ clients[h].conn = "Disconnected" <=> clients'[h].conn = "Disconnected"
         /\ clients[h].conn \in {"Connecting", "Disconnecting"} => clients'[h].conn = "Disconnecting"
         /\ ClientSound(h)'
<1>1. h \in DOMAIN clients /\ clients \in Seq(Client) /\ clients[h] \in Client
  BY DEF PageSound, LoadsSound, PageTypeOK
<1>2. ClientSound(h) /\ clients[h].conn \in Conns /\ PageTypeOK
  BY <1>1 DEF PageSound, Client
<1>3. /\ clients' \in Seq(Client) /\ DOMAIN clients' = DOMAIN clients /\ Len(clients') = Len(clients)
      /\ \A d \in DOMAIN clients : d # h => clients'[d] = clients[d]
      /\ clients'[h].joined = clients[h].joined
      /\ \A i \in DOMAIN clients[h].calls :
           i \in DOMAIN clients'[h].calls /\ clients'[h].calls[i] = clients[h].calls[i]
      /\ \A i \in DOMAIN clients'[h].calls :
           clients'[h].calls[i].op = "join" => i \in DOMAIN clients[h].calls
      /\ \/ clients[h].conn = "Disconnected" /\ clients'[h] = clients[h]
         \/ /\ clients[h].conn = "Connected" /\ clients'[h].conn = "Connected"
            /\ \E i \in DOMAIN clients'[h].calls : clients'[h].calls[i].op = "leave"
         \/ /\ clients[h].conn \notin {"Connected", "Disconnected"}
            /\ clients'[h].conn = "Disconnecting" /\ clients'[h].calls = clients[h].calls
  BY <1>1, <1>2, DisconnectSound
<1>4. clients'[h].conn = "Disconnected" \/ Leaving(h)'
  BY <1>3 DEF Leaving, Calls
<1>5. ClientSound(h)'
  <2>1. \A i \in Calls(h, "join")' :
          i \in Calls(h, "join") /\ clients'[h].calls[i] = clients[h].calls[i]
    BY <1>3 DEF Calls
  <2>2. clients'[h].conn \notin {"Connected", "Disconnecting"} =>
          clients'[h].calls = <<>> /\ clients'[h].joined = {}
    BY <1>2, <1>3 DEF ClientSound
  <2>3. ASSUME NEW i \in Calls(h, "join")'
        PROVE  LET l == clients'[h].calls[i].load
               IN  l \in DOMAIN loads' /\ loads'[l].client = h /\ loads'[l].pc = "join"
    <3>1. i \in Calls(h, "join") /\ clients'[h].calls[i] = clients[h].calls[i]
      BY <2>1
    <3>2. PICK l \in DOMAIN loads : l = clients[h].calls[i].load /\ loads[l].client = h /\ At(l, "join")
      BY <1>2, <3>1 DEF ClientSound
    <3> QED
      BY <3>1, <3>2 DEF At
  <2>4. \A i, j \in Calls(h, "join")' :
          clients'[h].calls[i].load = clients'[h].calls[j].load => i = j
    BY <1>2, <2>1 DEF ClientSound
  <2> QED
    BY <1>4, <2>2, <2>3, <2>4 DEF ClientSound, At
<1> QED
  BY <1>1, <1>3, <1>4, <1>5

(* The clean-up disposes of the load of the page in view and of no other.  *)
LEMMA DisposeSound ==
  ASSUME PageSound, NEW t, t = Dispose
  PROVE  /\ t \in Seq(Load) /\ DOMAIN t = DOMAIN loads /\ Len(t) = Len(loads)
         /\ \A l \in DOMAIN loads :
              /\ t[l].client = loads[l].client /\ t[l].board = loads[l].board
              /\ t[l].pc = loads[l].pc /\ t[l].disposed
<1>1. loads \in Seq(Load) /\ \A l \in DOMAIN loads : loads[l] \in Load
  BY DEF PageSound, PageTypeOK
<1>2. CASE view = NoBoard
  BY <1>1, <1>2 DEF Dispose, PageSound, LoadsSound
<1>3. CASE view # NoBoard
  <2> DEFINE k == [loads[Now] EXCEPT !.disposed = TRUE]
  <2>1. Now \in DOMAIN loads /\ \A l \in DOMAIN loads : l # Now => loads[l].disposed
    BY <1>3 DEF PageSound, LoadsSound
  <2>2. k \in Load
    BY <1>1, <2>1 DEF Load
  <2>3. /\ k.client = loads[Now].client /\ k.board = loads[Now].board
        /\ k.pc = loads[Now].pc /\ k.disposed
    BY <1>1, <2>1 DEF Load
  <2>4. t = [loads EXCEPT ![Now] = k]
    BY <1>3 DEF Dispose
  <2> HIDE DEF k
  <2> QED
    BY <1>1, <2>1, <2>2, <2>3, <2>4
<1> QED
  BY <1>2, <1>3

LEMMA ClientMade ==
  ASSUME NEW s \in Seq(Client), NEW client \in Client, NEW t, t = Append(s, client)
  PROVE  /\ t \in Seq(Client) /\ t[Len(t)] = client /\ Len(t) \in DOMAIN t /\ Len(t) \notin DOMAIN s
         /\ \A d \in DOMAIN s : d \in DOMAIN t /\ t[d] = s[d]
         /\ \A d \in DOMAIN t : d \in DOMAIN s \/ d = Len(t)
  OBVIOUS

LEMMA LoadMade ==
  ASSUME NEW s \in Seq(Load), NEW load \in Load, NEW t, t = Append(s, load)
  PROVE  /\ t \in Seq(Load) /\ Len(t) = Len(s) + 1 /\ t[Len(s) + 1] = load
         /\ Len(s) + 1 \in DOMAIN t /\ Len(s) + 1 \notin DOMAIN s
         /\ \A l \in DOMAIN s : l \in DOMAIN t /\ l # Len(s) + 1 /\ t[l] = s[l]
         /\ \A l \in DOMAIN t : l \in DOMAIN s \/ l = Len(s) + 1
  OBVIOUS

(* The client of the new load: a new one, or the one that is disconnected. *)
LEMMA OpenBoardClients ==
  ASSUME PageSound, NEW b \in Boards, OpenBoard(b)
  PROVE  /\ clients' \in Seq(Client) /\ Here' \in DOMAIN clients'
         /\ \A d \in DOMAIN clients : d \in DOMAIN clients'
         /\ \A d \in DOMAIN clients : d # Here' => clients'[d] = clients[d]
         /\ \A d \in DOMAIN clients' : d \in DOMAIN clients \/ d = Here'
         /\ view = NoBoard => Here' \notin DOMAIN clients /\ clients'[Here'] = NewClient
         /\ view # NoBoard => clients' = Disconnect(Here) /\ Here' = Here
<1>1. clients \in Seq(Client) /\ \A c \in DOMAIN clients : clients[c] \in Client
  BY DEF PageSound, PageTypeOK
<1>2. CASE view = NoBoard
  <2>1. NewClient \in Client
    <3>1. <<>> \in Seq(Call)
      OBVIOUS
    <3> QED
      BY <3>1 DEF NewClient, Client, Conns
  <2>2. clients' = Append(clients, NewClient)
    BY <1>2 DEF OpenBoard
  <2> QED
    BY <1>1, <1>2, <2>1, <2>2, ClientMade
<1>3. CASE view # NoBoard
  <2>1. clients' = Disconnect(Here) /\ Here \in DOMAIN clients
    BY <1>1, <1>3 DEF OpenBoard, PageSound, LoadsSound
  <2>2. ClientSound(Here) /\ clients[Here].conn \in Conns /\ PageTypeOK
    BY <1>1, <2>1 DEF PageSound, Client
  <2>3. /\ clients' \in Seq(Client) /\ DOMAIN clients' = DOMAIN clients /\ Len(clients') = Len(clients)
        /\ \A d \in DOMAIN clients : d # Here => clients'[d] = clients[d]
    BY <2>1, <2>2, DisconnectSound
  <2> QED
    BY <1>3, <2>1, <2>3
<1> QED
  BY <1>2, <1>3

LEMMA OpenBoardSound ==
  ASSUME BoardPageAssumption, PageSound, NEW b \in Boards, OpenBoard(b)
  PROVE  PageSound'
<1>1. PICK h \in Nat : h = Here'
  <2>1. clients' \in Seq(Client)
    BY OpenBoardClients
  <2> QED
    BY <2>1
<1>2. /\ clients' \in Seq(Client) /\ h \in DOMAIN clients'
      /\ \A d \in DOMAIN clients : d \in DOMAIN clients'
      /\ \A d \in DOMAIN clients : d # h => clients'[d] = clients[d]
      /\ \A d \in DOMAIN clients' : d \in DOMAIN clients \/ d = h
      /\ view = NoBoard => h \notin DOMAIN clients /\ clients'[h] = NewClient
      /\ view # NoBoard => clients' = Disconnect(Here) /\ h = Here
  BY <1>1, OpenBoardClients
<1>3. /\ loads \in Seq(Load) /\ painted \subseteq DOMAIN loads /\ b # NoBoard
      /\ view' = b /\ status' = "connecting" /\ active' = Now + 1 /\ timing'
      /\ painted' = painted /\ measured' = measured /\ shapes' = FALSE
  BY DEF PageSound, PageTypeOK, BoardPageAssumption, OpenBoard
<1> DEFINE load == [client |-> h, board |-> b, pc |-> "get", disposed |-> FALSE]
           s == Dispose
<1>4. load \in Load
  BY DEF Load, PCs
<1>5. load.client = h /\ load.board = b /\ load.pc = "get" /\ ~load.disposed
  OBVIOUS
<1>6. loads' = Append(s, load)
  BY <1>1 DEF OpenBoard
<1>7. /\ s \in Seq(Load) /\ DOMAIN s = DOMAIN loads /\ Len(s) = Now
      /\ \A l \in DOMAIN loads :
           s[l].client = loads[l].client /\ s[l].pc = loads[l].pc /\ s[l].disposed
  BY DisposeSound
<1> HIDE DEF load, s
<1>8. /\ loads' \in Seq(Load) /\ Len(loads') = Len(s) + 1 /\ loads'[Len(s) + 1] = load
      /\ Len(s) + 1 \in DOMAIN loads' /\ Len(s) + 1 \notin DOMAIN s
      /\ \A l \in DOMAIN s : l \in DOMAIN loads' /\ l # Len(s) + 1 /\ loads'[l] = s[l]
      /\ \A l \in DOMAIN loads' : l \in DOMAIN s \/ l = Len(s) + 1
  BY <1>4, <1>6, <1>7, LoadMade
<1>9. PICK n \in Nat : n = Now'
  BY <1>8
<1>10. /\ n \in DOMAIN loads' /\ n \notin DOMAIN loads /\ loads'[n] = load /\ active' = n
       /\ \A l \in DOMAIN loads : /\ l \in DOMAIN loads' /\ l # n /\ loads'[l].client = loads[l].client
                                  /\ loads'[l].pc = loads[l].pc /\ loads'[l].disposed
       /\ \A l \in DOMAIN loads' : l \in DOMAIN loads \/ l = n
  BY <1>3, <1>7, <1>8, <1>9
<1>11. PageTypeOK'
  <2>1. painted' \subseteq DOMAIN loads'
    BY <1>3, <1>10
  <2> QED
    BY <1>2, <1>3, <1>8, <1>9, <1>10, <2>1 DEF PageTypeOK
<1>12. LoadsSound'
  <2>1. \A l \in DOMAIN loads' : loads'[l].client \in DOMAIN clients'
    BY <1>2, <1>5, <1>10 DEF LoadsSound, PageSound
  <2>2. \A l \in DOMAIN loads' : loads'[l].disposed <=> (view' = NoBoard \/ l # n)
    BY <1>3, <1>5, <1>10
  <2> QED
    BY <1>1, <1>3, <1>5, <1>9, <1>10, <2>1, <2>2 DEF LoadsSound
<1>13. /\ ClientSound(h)'
       /\ clients'[h].conn = "Disconnected" \/ Leaving(h)'
       /\ h \in DOMAIN clients /\ clients[h].conn \in {"Connecting", "Disconnecting"} =>
            clients'[h].conn = "Disconnecting"
  <2>1. CASE view = NoBoard
    <3>1. /\ clients'[h].conn = "Disconnected" /\ clients'[h].calls = <<>>
          /\ clients'[h].joined = {}
      BY <1>2, <2>1 DEF NewClient
    <3>2. \A op : Calls(h, op)' = {}
      BY <3>1 DEF Calls
    <3> QED
      BY <1>2, <2>1, <3>1, <3>2 DEF ClientSound
  <2>2. CASE view # NoBoard
    <3>1. /\ clients'[h].conn = "Disconnected" \/ Leaving(h)'
          /\ clients[h].conn \in {"Connecting", "Disconnecting"} => clients'[h].conn = "Disconnecting"
          /\ ClientSound(h)'
      BY <1>2, <1>10, <2>2, LeftClient
    <3> QED
      BY <3>1
  <2> QED
    BY <2>1, <2>2
<1>14. ASSUME NEW d \in DOMAIN clients, d # h
       PROVE  ClientSound(d)' /\ clients'[d].conn # "Connecting"
  <2>1. ~IsHere(d)
    BY <1>2, <1>14 DEF IsHere
  <2>2. ~IsHere(d)'
    BY <1>1, <1>14 DEF IsHere
  <2>3. ClientSound(d) /\ clients'[d] = clients[d]
    BY <1>2, <1>14 DEF PageSound
  <2>4. ClientSound(d)'
    BY <1>10, <2>1, <2>2, <2>3, OtherClient DEF At
  <2> QED
    BY <2>1, <2>3, <2>4 DEF ClientSound, Leaving
<1>15. \A d \in DOMAIN clients' : ClientSound(d)'
  BY <1>2, <1>13, <1>14
<1>16. StartsSound'
  <2> SUFFICES ASSUME NEW l \in DOMAIN loads', At(l, "start")'
               PROVE  /\ loads'[l].disposed
                      /\ clients'[loads'[l].client].conn = "Disconnecting"
    BY DEF StartsSound
  <2>1. l \in DOMAIN loads /\ At(l, "start")
    BY <1>5, <1>10 DEF At
  <2>2. loads[l].client \in DOMAIN clients
    BY <2>1 DEF PageSound, LoadsSound
  <2>3. clients[loads[l].client].conn \in {"Connecting", "Disconnecting"}
    BY <2>1 DEF PageSound, StartsSound
  <2> QED
    BY <1>2, <1>10, <1>13, <1>14, <2>1, <2>2, <2>3
<1>17. HereSound'
  BY <1>1, <1>3, <1>13 DEF HereSound, Leaving
<1>18. TimersSound'
  <2>1. active' = Now' /\ view' # NoBoard /\ timing'
    BY <1>3, <1>9, <1>10
  <2>2. \A l \in painted' \ measured' : GaveUp(l)'
    BY <1>3, <1>10 DEF TimersSound, PageSound, At
  <2> QED
    BY <2>1, <2>2 DEF TimersSound
<1> QED
  BY <1>11, <1>12, <1>15, <1>16, <1>17, <1>18 DEF PageSound

LEMMA BackSound ==
  ASSUME BoardPageAssumption, PageSound, Back
  PROVE  PageSound'
<1>1. PICK h : h = Here
  OBVIOUS
<1>2. /\ view # NoBoard /\ view' = NoBoard /\ active' = 0 /\ ~timing' /\ shapes' = shapes
      /\ clients' = Disconnect(Here) /\ loads' = Dispose
      /\ painted' = painted /\ measured' = measured /\ status' = status
  BY DEF Back
<1>3. /\ loads' \in Seq(Load) /\ DOMAIN loads' = DOMAIN loads
      /\ \A l \in DOMAIN loads : /\ loads'[l].client = loads[l].client
                                 /\ loads'[l].pc = loads[l].pc /\ loads'[l].disposed
  BY <1>2, DisposeSound
<1>4. /\ h \in DOMAIN clients
      /\ clients' \in Seq(Client) /\ DOMAIN clients' = DOMAIN clients
      /\ \A d \in DOMAIN clients : d # h => clients'[d] = clients[d]
      /\ clients[h].conn \in {"Connecting", "Disconnecting"} => clients'[h].conn = "Disconnecting"
      /\ ClientSound(h)'
  BY <1>1, <1>2, <1>3, LeftClient
<1>5. PageTypeOK'
  <2>1. view' \in Boards \cup {NoBoard} /\ active' \in Nat /\ timing' = FALSE
    BY <1>2 DEF Back
  <2>2. shapes' \in BOOLEAN /\ painted' \subseteq DOMAIN loads'
    BY <1>2, <1>3 DEF PageTypeOK, PageSound
  <2> QED
    BY <1>3, <1>4, <2>1, <2>2 DEF PageTypeOK
<1>6. LoadsSound'
  BY <1>2, <1>3, <1>4 DEF LoadsSound, PageSound
<1>7. ASSUME NEW d \in DOMAIN clients, d # h
      PROVE  ClientSound(d)' /\ clients'[d].conn # "Connecting"
  <2>1. ~IsHere(d) /\ ~IsHere(d)'
    BY <1>1, <1>2, <1>7 DEF IsHere
  <2>2. ClientSound(d) /\ clients'[d] = clients[d]
    BY <1>4, <1>7 DEF PageSound
  <2>3. ClientSound(d)'
    BY <1>3, <2>1, <2>2, OtherClient DEF At
  <2> QED
    BY <2>1, <2>2, <2>3 DEF ClientSound, Leaving
<1>8. \A d \in DOMAIN clients' : ClientSound(d)'
  BY <1>4, <1>7
<1>9. StartsSound'
  <2> SUFFICES ASSUME NEW l \in DOMAIN loads', At(l, "start")'
               PROVE  /\ loads'[l].disposed
                      /\ clients'[loads'[l].client].conn = "Disconnecting"
    BY DEF StartsSound
  <2>1. l \in DOMAIN loads /\ At(l, "start")
    BY <1>3 DEF At
  <2>2. loads[l].client \in DOMAIN clients
    BY <2>1 DEF PageSound, LoadsSound
  <2>3. clients[loads[l].client].conn \in {"Connecting", "Disconnecting"}
    BY <2>1 DEF PageSound, StartsSound
  <2> QED
    BY <1>3, <1>4, <1>7, <2>1, <2>2, <2>3
<1>10. HereSound' /\ TimersSound'
  <2>1. \A l \in painted' \ measured' : GaveUp(l)'
    BY <1>2, <1>3 DEF TimersSound, PageSound, At, PageTypeOK
  <2> QED
    BY <1>2, <2>1 DEF HereSound, TimersSound
<1> QED
  BY <1>5, <1>6, <1>8, <1>9, <1>10 DEF PageSound

-----------------------------------------------------------------------------
(* Steps of a load *)

(* A step that leaves the page in view and moves one client and some loads. *)
LEMMA SamePage ==
  ASSUME PageSound, view' = view, shapes' \in BOOLEAN, active' = active, timing' \in BOOLEAN,
         painted' = painted,
         loads' \in Seq(Load), DOMAIN loads' = DOMAIN loads, Len(loads') = Len(loads),
         \A l \in DOMAIN loads :
           /\ loads'[l].client = loads[l].client /\ loads'[l].board = loads[l].board
           /\ loads'[l].disposed = loads[l].disposed,
         clients' \in Seq(Client), DOMAIN clients' = DOMAIN clients, Len(clients') = Len(clients)
  PROVE  /\ PageTypeOK' /\ LoadsSound' /\ Here' = Here /\ Now' = Now
         /\ \A c : IsHere(c)' <=> IsHere(c)
<1>1. PageTypeOK'
  BY DEF PageSound, PageTypeOK
<1>2. LoadsSound'
  BY DEF PageSound, LoadsSound
<1> QED
  BY <1>1, <1>2 DEF IsHere

LEMMA OtherClients ==
  ASSUME PageSound, \A c : IsHere(c)' <=> IsHere(c), NEW c,
         DOMAIN clients' = DOMAIN clients,
         \A d \in DOMAIN clients : d # c => clients'[d] = clients[d],
         DOMAIN loads' = DOMAIN loads,
         \A l \in DOMAIN loads :
           /\ loads'[l].client = loads[l].client
           /\ loads[l].client # c /\ At(l, "join") => At(l, "join")',
         c \in DOMAIN clients => ClientSound(c)'
  PROVE  \A d \in DOMAIN clients' : ClientSound(d)'
<1> SUFFICES ASSUME NEW d \in DOMAIN clients, d # c PROVE ClientSound(d)'
  OBVIOUS
<1>1. ClientSound(d)
  BY DEF PageSound
<1> QED
  BY <1>1, OtherClient

(* The load that is not disposed of is that of the page in view.           *)
LEMMA LoadInView ==
  ASSUME PageSound, NEW l \in DOMAIN loads, ~loads[l].disposed
  PROVE  /\ view # NoBoard /\ l = Now /\ loads[l].client = Here /\ loads[l].board = view
         /\ Here \in DOMAIN clients /\ clients[Here] \in Client /\ ClientSound(Here)
         /\ IsHere(Here) /\ view \in Boards
<1>1. /\ view # NoBoard /\ l = Now /\ loads[l].client = Here /\ loads[l].board = view
      /\ Here \in DOMAIN clients
  BY DEF PageSound, LoadsSound
<1> QED
  BY <1>1 DEF PageSound, PageTypeOK, IsHere

(* While the page in view fetches its board, its client is disconnected or *)
(* comes to its end.                                                       *)
LEMMA FetchingClient ==
  ASSUME PageSound, NEW l \in DOMAIN loads, ~loads[l].disposed, At(l, "get")
  PROVE  clients[Here].conn = "Disconnected" \/ Leaving(Here)
<1>1. /\ view # NoBoard /\ l = Now /\ ClientSound(Here) /\ clients[Here] \in Client
  BY LoadInView
<1>2. clients[Here].conn \notin {"Connecting", "Reconnecting"}
  BY <1>1 DEF PageSound, HereSound, At, Ended
<1>3. CASE clients[Here].conn = "Connected" /\ ~Leaving(Here)
  <2>1. HearsItsBoard /\ ~Ended(Now)
    BY <1>1, <1>3 DEF PageSound, HereSound, Ended, At
  <2>2. clients[Here].calls = <<JoinCall(Now, view)>>
    BY <2>1 DEF HearsItsBoard
  <2>3. 1 \in Calls(Here, "join") /\ clients[Here].calls[1].load = Now
    BY <2>2 DEF Calls, JoinCall
  <2>4. At(Now, "join")
    BY <1>1, <2>3 DEF ClientSound
  <2> QED
    BY <1>1, <2>4 DEF At
<1> QED
  BY <1>1, <1>2, <1>3 DEF Client, Conns, Leaving

(* The page in view is sound when its load has failed: the tools are       *)
(* locked.  Its client is disconnected or leaves.                          *)
LEMMA FetchFailsSound ==
  ASSUME PageSound, blame' = {}, NEW l \in DOMAIN loads, FetchFails(l)
  PROVE  PageSound'
<1>1. /\ At(l, "get") /\ loads' = WithPc(loads, l, "failed") /\ timing' = FALSE
      /\ status' = "error" /\ view' = view /\ shapes' = shapes /\ clients' = clients
      /\ active' = active /\ painted' = painted /\ measured' = measured
  BY DEF FetchFails, LoadFailed, page, WithPc
<1>2. ~loads[l].disposed
  BY DEF FetchFails, LoadFailed, If
<1>3. /\ view # NoBoard /\ l = Now /\ loads[l].client = Here
  BY <1>2, LoadInView
<1>4. clients[Here].conn = "Disconnected" \/ Leaving(Here)
  BY <1>1, <1>2, FetchingClient
<1>5. loads \in Seq(Load) /\ clients \in Seq(Client) /\ shapes \in BOOLEAN /\ "failed" \in PCs
  BY DEF PageSound, PageTypeOK, PCs
<1>6. /\ loads' \in Seq(Load) /\ DOMAIN loads' = DOMAIN loads /\ Len(loads') = Len(loads)
      /\ \A m \in DOMAIN loads :
           /\ loads'[m].client = loads[m].client /\ loads'[m].board = loads[m].board
           /\ loads'[m].disposed = loads[m].disposed
           /\ loads'[m].pc = IF m = l THEN "failed" ELSE loads[m].pc
  BY <1>1, <1>5, PcSet
<1>7. /\ PageTypeOK' /\ LoadsSound' /\ Here' = Here /\ Now' = Now
      /\ \A c : IsHere(c)' <=> IsHere(c)
  BY <1>1, <1>5, <1>6, SamePage
<1>8. \A d \in DOMAIN clients' : ClientSound(d)'
  <2>1. ASSUME NEW d \in DOMAIN clients PROVE ClientSound(d)'
    BY <1>1, <1>6, <1>7, OtherClient DEF PageSound, At
  <2> QED
    BY <1>1, <2>1
<1>9. StartsSound'
  BY <1>1, <1>6 DEF PageSound, StartsSound, At
<1>10. HereSound'
  <2>1. Leaving(Here)' <=> Leaving(Here)
    BY <1>1 DEF Leaving, Calls
  <2> QED
    BY <1>1, <1>4, <1>7, <2>1 DEF HereSound, Leaving
<1>11. TimersSound'
  <2>1. active' = IF view' = NoBoard THEN 0 ELSE Now'
    BY <1>1, <1>6 DEF PageSound, TimersSound
  <2>2. GaveUp(Now)'
    BY <1>3, <1>6 DEF At
  <2>3. \A m \in painted' \ measured' : GaveUp(m)'
    BY <1>1, <1>6 DEF PageSound, PageTypeOK, TimersSound, At
  <2> QED
    BY <1>1, <1>3, <1>6, <2>1, <2>2, <2>3 DEF TimersSound, At
<1> QED
  BY <1>7, <1>8, <1>9, <1>10, <1>11 DEF PageSound

(* An abandoned load locks the tools too: the status was not "connected".  *)
LEMMA BoardAbandonedSound ==
  ASSUME PageSound, NEW l \in DOMAIN loads, BoardAbandoned(l)
  PROVE  PageSound'
<1>1. /\ At(l, "get") /\ loads' = WithPc(loads, l, "abandoned") /\ timing' = FALSE
      /\ status' = status /\ view' = view /\ shapes' = TRUE /\ clients' = clients
      /\ active' = active /\ painted' = painted /\ measured' = measured
  BY DEF BoardAbandoned, WithPc
<1>2. ~loads[l].disposed
  BY DEF BoardAbandoned
<1>3. /\ view # NoBoard /\ l = Now /\ loads[l].client = Here
  BY <1>2, LoadInView
<1>4. clients[Here].conn = "Disconnected" \/ Leaving(Here)
  BY <1>1, <1>2, FetchingClient
<1>5. loads \in Seq(Load) /\ clients \in Seq(Client) /\ shapes \in BOOLEAN /\ "abandoned" \in PCs
  BY DEF PageSound, PageTypeOK, PCs
<1>6. /\ loads' \in Seq(Load) /\ DOMAIN loads' = DOMAIN loads /\ Len(loads') = Len(loads)
      /\ \A m \in DOMAIN loads :
           /\ loads'[m].client = loads[m].client /\ loads'[m].board = loads[m].board
           /\ loads'[m].disposed = loads[m].disposed
           /\ loads'[m].pc = IF m = l THEN "abandoned" ELSE loads[m].pc
  BY <1>1, <1>5, PcSet
<1>7. /\ PageTypeOK' /\ LoadsSound' /\ Here' = Here /\ Now' = Now
      /\ \A c : IsHere(c)' <=> IsHere(c)
  BY <1>1, <1>5, <1>6, SamePage
<1>8. \A d \in DOMAIN clients' : ClientSound(d)'
  <2>1. ASSUME NEW d \in DOMAIN clients PROVE ClientSound(d)'
    BY <1>1, <1>6, <1>7, OtherClient DEF PageSound, At
  <2> QED
    BY <1>1, <2>1
<1>9. StartsSound'
  BY <1>1, <1>6 DEF PageSound, StartsSound, At
<1>10. HereSound'
  <2>1. Leaving(Here)' <=> Leaving(Here)
    BY <1>1 DEF Leaving, Calls
  <2> QED
    BY <1>1, <1>3, <1>4, <1>7, <2>1 DEF PageSound, HereSound, Leaving
<1>11. TimersSound'
  <2>1. active' = IF view' = NoBoard THEN 0 ELSE Now'
    BY <1>1, <1>6 DEF PageSound, TimersSound
  <2>2. GaveUp(Now)'
    BY <1>3, <1>6 DEF At
  <2>3. \A m \in painted' \ measured' : GaveUp(m)'
    BY <1>1, <1>6 DEF PageSound, PageTypeOK, TimersSound, At
  <2> QED
    BY <1>1, <1>3, <1>6, <2>1, <2>2, <2>3 DEF TimersSound, At
<1> QED
  BY <1>7, <1>8, <1>9, <1>10, <1>11 DEF PageSound

LEMMA FetchedTooLateSound ==
  ASSUME PageSound, NEW l \in DOMAIN loads, FetchedTooLate(l)
  PROVE  PageSound'
<1>1. /\ At(l, "get") /\ loads[l].disposed /\ loads' = WithPc(loads, l, "over")
      /\ timing' = timing /\ status' = status /\ view' = view /\ shapes' = shapes
      /\ clients' = clients
      /\ active' = active /\ painted' = painted /\ measured' = measured
  BY DEF FetchedTooLate, page, timers, WithPc
<1>2. /\ loads \in Seq(Load) /\ clients \in Seq(Client) /\ shapes \in BOOLEAN
      /\ timing \in BOOLEAN /\ "over" \in PCs
  BY DEF PageSound, PageTypeOK, PCs
<1>3. /\ loads' \in Seq(Load) /\ DOMAIN loads' = DOMAIN loads /\ Len(loads') = Len(loads)
      /\ \A m \in DOMAIN loads :
           /\ loads'[m].client = loads[m].client /\ loads'[m].board = loads[m].board
           /\ loads'[m].disposed = loads[m].disposed
           /\ loads'[m].pc = IF m = l THEN "over" ELSE loads[m].pc
  BY <1>1, <1>2, PcSet
<1>4. /\ PageTypeOK' /\ LoadsSound' /\ Here' = Here /\ Now' = Now
      /\ \A c : IsHere(c)' <=> IsHere(c)
  BY <1>1, <1>2, <1>3, SamePage
<1>5. \A d \in DOMAIN clients' : ClientSound(d)'
  <2>1. ASSUME NEW d \in DOMAIN clients PROVE ClientSound(d)'
    BY <1>1, <1>3, <1>4, OtherClient DEF PageSound, At
  <2> QED
    BY <1>1, <2>1
<1>6. StartsSound'
  BY <1>1, <1>3 DEF PageSound, StartsSound, At
<1>7. view # NoBoard => l # Now /\ Now \in DOMAIN loads
  BY <1>1 DEF PageSound, LoadsSound
<1>8. HereSound'
  <2> SUFFICES ASSUME view # NoBoard PROVE HereSound'
    BY <1>1 DEF HereSound
  <2>1. Leaving(Here)' <=> Leaving(Here)
    BY <1>1 DEF Leaving, Calls
  <2>2. Ended(Now)' <=> Ended(Now)
    BY <1>3, <1>4, <1>7 DEF Ended
  <2>3. HearsItsBoard' <=> HearsItsBoard
    BY <1>1, <1>4, <2>2 DEF HearsItsBoard
  <2>4. At(Now, "start")' <=> At(Now, "start")
    BY <1>3, <1>4, <1>7 DEF At
  <2> QED
    BY <1>1, <1>4, <2>1, <2>2, <2>3, <2>4 DEF HereSound, PageSound
<1>9. TimersSound'
  <2>1. \A m \in painted' \ measured' : GaveUp(m)'
    <3>1. \A m \in painted \ measured : m \in DOMAIN loads /\ GaveUp(m)
      BY DEF PageSound, PageTypeOK, TimersSound
    <3> QED
      BY <3>1, <1>1, <1>3 DEF At
  <2> QED
    BY <1>1, <1>3, <1>4, <1>7, <2>1 DEF PageSound, TimersSound, At
<1> QED
  BY <1>4, <1>5, <1>6, <1>8, <1>9 DEF PageSound

(* The board has come and its client is disconnected: the connection       *)
(* starts.                                                                 *)
LEMMA BoardFetchedStarts ==
  ASSUME PageSound, NEW l \in DOMAIN loads, At(l, "get"), ~loads[l].disposed,
         clients[loads[l].client].conn = "Disconnected", shapes' = TRUE,
         Connect(l, "Connecting", <<>>, "start"),
         UNCHANGED <<view, active, painted, measured, faults>>
  PROVE  PageSound'
<1>1. PICK h \in DOMAIN clients : h = Here
  BY LoadInView
<1>2. /\ view # NoBoard /\ l = Now /\ loads[l].client = h /\ loads[l].board = view
      /\ clients[h] \in Client /\ ClientSound(h) /\ IsHere(h) /\ view \in Boards
  BY <1>1, LoadInView
<1> DEFINE k == [clients[h] EXCEPT !.conn = "Connecting", !.wanted = view, !.calls = <<>>]
<1>3. /\ clients' = [clients EXCEPT ![h] = k] /\ loads' = WithPc(loads, l, "start")
      /\ timing' = timing /\ view' = view
      /\ active' = active /\ painted' = painted /\ measured' = measured
  BY <1>2 DEF Connect, WithPc
<1>4. k \in Client
  <2>1. <<>> \in Seq(Call)
    OBVIOUS
  <2> QED
    BY <1>2, <2>1 DEF Client, Conns
<1>5. k.conn = "Connecting" /\ k.wanted = view /\ k.calls = <<>> /\ k.joined = {}
  BY <1>2 DEF Client, ClientSound
<1> HIDE DEF k
<1>6. /\ loads \in Seq(Load) /\ clients \in Seq(Client) /\ timing \in BOOLEAN /\ "start" \in PCs
  BY DEF PageSound, PageTypeOK, PCs
<1>7. /\ loads' \in Seq(Load) /\ DOMAIN loads' = DOMAIN loads /\ Len(loads') = Len(loads)
      /\ \A m \in DOMAIN loads :
           /\ loads'[m].client = loads[m].client /\ loads'[m].board = loads[m].board
           /\ loads'[m].disposed = loads[m].disposed
           /\ loads'[m].pc = IF m = l THEN "start" ELSE loads[m].pc
  BY <1>3, <1>6, PcSet
<1>8. /\ clients' \in Seq(Client) /\ DOMAIN clients' = DOMAIN clients /\ Len(clients') = Len(clients)
      /\ clients'[h] = k /\ \A d \in DOMAIN clients : d # h => clients'[d] = clients[d]
  BY <1>3, <1>4, <1>6, ClientSet
<1>9. /\ PageTypeOK' /\ LoadsSound' /\ Here' = Here /\ Now' = Now
      /\ \A c : IsHere(c)' <=> IsHere(c)
  BY <1>3, <1>6, <1>7, <1>8, SamePage
<1>10. \A d \in DOMAIN clients' : ClientSound(d)'
  <2>1. \A op : Calls(h, op)' = {}
    BY <1>5, <1>8 DEF Calls
  <2>2. ClientSound(h)'
    BY <1>2, <1>5, <1>8, <1>9, <2>1 DEF ClientSound
  <2>3. \A m \in DOMAIN loads :
           /\ loads'[m].client = loads[m].client
           /\ loads[m].client # h /\ At(m, "join") => At(m, "join")'
    BY <1>2, <1>7 DEF At
  <2> QED
    BY <1>7, <1>8, <1>9, <2>2, <2>3, OtherClients
<1>11. StartsSound'
  <2> SUFFICES ASSUME NEW m \in DOMAIN loads, At(m, "start")'
               PROVE  clients'[loads'[m].client].conn =
                        (IF loads'[m].disposed THEN "Disconnecting" ELSE "Connecting")
    BY <1>7 DEF StartsSound
  <2>1. CASE m = l
    BY <1>2, <1>5, <1>7, <1>8, <2>1
  <2>2. CASE m # l
    <3>1. At(m, "start") /\ loads[m].client \in DOMAIN clients
      BY <1>7, <2>2 DEF At, PageSound, LoadsSound
    <3>2. clients[loads[m].client].conn =
            (IF loads[m].disposed THEN "Disconnecting" ELSE "Connecting")
      BY <3>1 DEF PageSound, StartsSound
    <3>3. loads[m].client # h
      BY <1>2, <3>2
    <3> QED
      BY <1>7, <1>8, <3>1, <3>2, <3>3
  <2> QED
    BY <2>1, <2>2
<1>12. HereSound'
  BY <1>1, <1>2, <1>3, <1>5, <1>7, <1>8, <1>9 DEF HereSound, At
<1>13. TimersSound'
  <2>1. \A m \in painted' \ measured' : GaveUp(m)'
    <3>1. \A m \in painted \ measured : m \in DOMAIN loads /\ GaveUp(m)
      BY DEF PageSound, PageTypeOK, TimersSound
    <3> QED
      BY <3>1, <1>2, <1>3, <1>7 DEF At
  <2> QED
    BY <1>2, <1>3, <1>7, <1>9, <2>1 DEF PageSound, TimersSound, At
<1> QED
  BY <1>9, <1>10, <1>11, <1>12, <1>13 DEF PageSound

(* The board has come and its client is still connected: it leaves, so     *)
(* JoinBoard is called after LeaveBoard.                                   *)
LEMMA BoardFetchedJoins ==
  ASSUME PageSound, NEW l \in DOMAIN loads, At(l, "get"), ~loads[l].disposed,
         clients[loads[l].client].conn = "Connected", shapes' = TRUE,
         Connect(l, "Connected", Append(clients[loads[l].client].calls, JoinCall(l, loads[l].board)), "join"),
         UNCHANGED <<view, active, painted, measured, faults>>
  PROVE  PageSound'
<1>1. PICK h \in DOMAIN clients : h = Here
  BY LoadInView
<1>2. /\ view # NoBoard /\ l = Now /\ loads[l].client = h /\ loads[l].board = view
      /\ clients[h] \in Client /\ ClientSound(h) /\ IsHere(h) /\ view \in Boards
  BY <1>1, LoadInView
<1> DEFINE call == JoinCall(l, view)
           s == clients[h].calls
           calls == Append(s, call)
           k == [clients[h] EXCEPT !.conn = "Connected", !.wanted = view, !.calls = calls]
<1>3. /\ clients' = [clients EXCEPT ![h] = k] /\ loads' = WithPc(loads, l, "join")
      /\ timing' = timing /\ view' = view
      /\ active' = active /\ painted' = painted /\ measured' = measured
  BY <1>2 DEF Connect, WithPc
<1>4. s \in Seq(Call) /\ call \in Call /\ call.op = "join" /\ call.load = l
  BY <1>2 DEF Client, Call, JoinCall
<1> HIDE DEF s, call
<1>5. /\ calls \in Seq(Call) /\ Len(s) + 1 \in DOMAIN calls /\ calls[Len(s) + 1] = call
      /\ \A i \in DOMAIN s : i \in DOMAIN calls /\ i # Len(s) + 1 /\ calls[i] = s[i]
      /\ \A i \in DOMAIN calls : i \in DOMAIN s \/ i = Len(s) + 1
  BY <1>4, CallMade
<1> HIDE DEF calls
<1>6. k \in Client
  BY <1>2, <1>5 DEF Client, Conns
<1>7. k.conn = "Connected" /\ k.wanted = view /\ k.calls = calls /\ k.joined = clients[h].joined
  BY <1>2 DEF Client
<1> HIDE DEF k
<1>8. /\ loads \in Seq(Load) /\ clients \in Seq(Client) /\ timing \in BOOLEAN /\ "join" \in PCs
  BY DEF PageSound, PageTypeOK, PCs
<1>9. /\ loads' \in Seq(Load) /\ DOMAIN loads' = DOMAIN loads /\ Len(loads') = Len(loads)
      /\ \A m \in DOMAIN loads :
           /\ loads'[m].client = loads[m].client /\ loads'[m].board = loads[m].board
           /\ loads'[m].disposed = loads[m].disposed
           /\ loads'[m].pc = IF m = l THEN "join" ELSE loads[m].pc
  BY <1>3, <1>8, PcSet
<1>10. /\ clients' \in Seq(Client) /\ DOMAIN clients' = DOMAIN clients /\ Len(clients') = Len(clients)
       /\ clients'[h] = k /\ \A d \in DOMAIN clients : d # h => clients'[d] = clients[d]
  BY <1>3, <1>6, <1>8, ClientSet
<1>11. /\ PageTypeOK' /\ LoadsSound' /\ Here' = Here /\ Now' = Now
       /\ \A c : IsHere(c)' <=> IsHere(c)
  BY <1>3, <1>8, <1>9, <1>10, SamePage
<1>12. Leaving(h)'
  <2>1. Leaving(h) /\ clients[h].conn = "Connected"
    BY <1>1, <1>2, FetchingClient
  <2>2. PICK i \in DOMAIN s : s[i].op = "leave"
    BY <2>1 DEF Leaving, Calls, s
  <2>3. i \in DOMAIN calls /\ calls[i].op = "leave"
    BY <1>5, <2>2
  <2> QED
    BY <1>7, <1>10, <2>3 DEF Leaving, Calls
<1>13. \A d \in DOMAIN clients' : ClientSound(d)'
  <2>1. ASSUME NEW i \in Calls(h, "join")'
        PROVE  /\ i \in DOMAIN calls /\ clients'[h].calls[i] = calls[i]
               /\ \/ i = Len(s) + 1 /\ calls[i].load = l
                  \/ i \in Calls(h, "join") /\ calls[i] = clients[h].calls[i]
    BY <1>4, <1>5, <1>7, <1>10 DEF Calls, s
  <2>2. \A i \in Calls(h, "join") : clients[h].calls[i].load # l /\ i # Len(s) + 1
    BY <1>2, <1>5 DEF ClientSound, At, Calls, s
  <2>3. ASSUME NEW i \in Calls(h, "join")'
        PROVE  LET m == clients'[h].calls[i].load
               IN  m \in DOMAIN loads' /\ loads'[m].client = h /\ loads'[m].pc = "join"
    <3>1. CASE i = Len(s) + 1
      BY <1>2, <1>9, <2>1, <2>2, <3>1
    <3>2. CASE i \in Calls(h, "join")
      BY <1>2, <1>9, <2>1, <2>2, <3>2 DEF ClientSound, At
    <3> QED
      BY <2>1, <3>1, <3>2
  <2>4. \A i, j \in Calls(h, "join")' :
          clients'[h].calls[i].load = clients'[h].calls[j].load => i = j
    BY <1>2, <2>1, <2>2 DEF ClientSound
  <2>5. ClientSound(h)'
    BY <1>7, <1>10, <1>12, <2>3, <2>4 DEF ClientSound, At
  <2>6. \A m \in DOMAIN loads :
           /\ loads'[m].client = loads[m].client
           /\ loads[m].client # h /\ At(m, "join") => At(m, "join")'
    BY <1>9 DEF At
  <2> QED
    BY <1>9, <1>10, <1>11, <2>5, <2>6, OtherClients
<1>14. StartsSound'
  <2> SUFFICES ASSUME NEW m \in DOMAIN loads, At(m, "start")'
               PROVE  clients'[loads'[m].client].conn =
                        (IF loads'[m].disposed THEN "Disconnecting" ELSE "Connecting")
    BY <1>9 DEF StartsSound
  <2>1. At(m, "start") /\ loads[m].client \in DOMAIN clients
    BY <1>9 DEF At, PageSound, LoadsSound
  <2>2. clients[loads[m].client].conn =
          (IF loads[m].disposed THEN "Disconnecting" ELSE "Connecting")
    BY <2>1 DEF PageSound, StartsSound
  <2>3. loads[m].client # h
    BY <1>2, <2>2
  <2> QED
    BY <1>9, <1>10, <2>1, <2>2, <2>3
<1>15. HereSound'
  BY <1>1, <1>7, <1>10, <1>11, <1>12 DEF HereSound
<1>16. TimersSound'
  <2>1. \A m \in painted' \ measured' : GaveUp(m)'
    <3>1. \A m \in painted \ measured : m \in DOMAIN loads /\ GaveUp(m)
      BY DEF PageSound, PageTypeOK, TimersSound
    <3> QED
      BY <3>1, <1>3, <1>9 DEF At
  <2> QED
    BY <1>2, <1>3, <1>9, <1>11, <2>1 DEF PageSound, TimersSound, At
<1> QED
  BY <1>11, <1>13, <1>14, <1>15, <1>16 DEF PageSound

WithWanted(s, c, b) == [s EXCEPT ![c].wanted = b]

(* The board has come while the connection stops: the load fails.          *)
LEMMA BoardFetchedFails ==
  ASSUME PageSound, NEW l \in DOMAIN loads, At(l, "get"), ~loads[l].disposed,
         clients[loads[l].client].conn \notin {"Disconnected", "Connected"}, shapes' = TRUE,
         clients' = WithWanted(clients, loads[l].client, loads[l].board),
         LoadFailed(l), UNCHANGED <<view, active, painted, measured, faults>>
  PROVE  PageSound'
<1>1. PICK h \in DOMAIN clients : h = Here
  BY LoadInView
<1>2. /\ view # NoBoard /\ l = Now /\ loads[l].client = h /\ loads[l].board = view
      /\ clients[h] \in Client /\ ClientSound(h) /\ IsHere(h) /\ view \in Boards
  BY <1>1, LoadInView
<1> DEFINE k == [clients[h] EXCEPT !.wanted = view]
<1>3. /\ clients' = [clients EXCEPT ![h] = k] /\ loads' = WithPc(loads, l, "failed")
      /\ timing' = FALSE /\ view' = view /\ status' = "error"
      /\ active' = active /\ painted' = painted /\ measured' = measured
  BY <1>2 DEF LoadFailed, WithPc, WithWanted
<1>4. k \in Client
  BY <1>2 DEF Client
<1>5. k.conn = "Disconnecting" /\ k.calls = clients[h].calls /\ k.joined = clients[h].joined
  <2>1. clients[h].conn = "Disconnecting"
    BY <1>1, <1>2, FetchingClient DEF Leaving
  <2> QED
    BY <1>2, <2>1 DEF Client
<1> HIDE DEF k
<1>6. /\ loads \in Seq(Load) /\ clients \in Seq(Client) /\ "failed" \in PCs
  BY DEF PageSound, PageTypeOK, PCs
<1>7. /\ loads' \in Seq(Load) /\ DOMAIN loads' = DOMAIN loads /\ Len(loads') = Len(loads)
      /\ \A m \in DOMAIN loads :
           /\ loads'[m].client = loads[m].client /\ loads'[m].board = loads[m].board
           /\ loads'[m].disposed = loads[m].disposed
           /\ loads'[m].pc = IF m = l THEN "failed" ELSE loads[m].pc
  BY <1>3, <1>6, PcSet
<1>8. /\ clients' \in Seq(Client) /\ DOMAIN clients' = DOMAIN clients /\ Len(clients') = Len(clients)
      /\ clients'[h] = k /\ \A d \in DOMAIN clients : d # h => clients'[d] = clients[d]
  BY <1>3, <1>4, <1>6, ClientSet
<1>9. /\ PageTypeOK' /\ LoadsSound' /\ Here' = Here /\ Now' = Now
      /\ \A c : IsHere(c)' <=> IsHere(c)
  BY <1>3, <1>6, <1>7, <1>8, SamePage
<1>10. Leaving(h)'
  BY <1>5, <1>8 DEF Leaving
<1>11. \A d \in DOMAIN clients' : ClientSound(d)'
  <2>1. \A op : Calls(h, op)' = Calls(h, op)
    BY <1>5, <1>8 DEF Calls
  <2>2. \A m \in DOMAIN loads : loads'[m].client = loads[m].client /\ (At(m, "join") => At(m, "join")')
    BY <1>7 DEF At
  <2>3. /\ clients'[h].calls = clients[h].calls /\ clients'[h].joined = clients[h].joined
        /\ clients'[h].conn = "Disconnecting"
    BY <1>5, <1>8
  <2>4. ASSUME NEW i \in Calls(h, "join")'
        PROVE  LET m == clients'[h].calls[i].load
               IN  m \in DOMAIN loads' /\ loads'[m].client = h /\ loads'[m].pc = "join"
    BY <1>2, <1>7, <2>1, <2>2, <2>3, <2>4 DEF ClientSound, At
  <2>5. \A i, j \in Calls(h, "join")' :
          clients'[h].calls[i].load = clients'[h].calls[j].load => i = j
    BY <1>2, <2>1, <2>3 DEF ClientSound
  <2>6. ClientSound(h)'
    BY <1>10, <2>3, <2>4, <2>5 DEF ClientSound, At
  <2> QED
    BY <1>7, <1>8, <1>9, <2>2, <2>6, OtherClients
<1>12. StartsSound'
  <2> SUFFICES ASSUME NEW m \in DOMAIN loads, At(m, "start")'
               PROVE  clients'[loads'[m].client].conn =
                        (IF loads'[m].disposed THEN "Disconnecting" ELSE "Connecting")
    BY <1>7 DEF StartsSound
  <2>1. At(m, "start") /\ loads[m].client \in DOMAIN clients
    BY <1>7 DEF At, PageSound, LoadsSound
  <2>2. clients[loads[m].client].conn =
          (IF loads[m].disposed THEN "Disconnecting" ELSE "Connecting")
    BY <2>1 DEF PageSound, StartsSound
  <2>3. clients'[loads[m].client].conn = clients[loads[m].client].conn
    <3>1. clients[h].conn = "Disconnecting"
      BY <1>1, <1>2, FetchingClient DEF Leaving
    <3> QED
      BY <1>5, <1>8, <2>1, <3>1
  <2> QED
    BY <1>7, <2>1, <2>2, <2>3
<1>13. HereSound'
  BY <1>1, <1>5, <1>8, <1>9 DEF HereSound
<1>14. TimersSound'
  <2>1. \A m \in painted' \ measured' : GaveUp(m)'
    <3>1. \A m \in painted \ measured : m \in DOMAIN loads /\ GaveUp(m)
      BY DEF PageSound, PageTypeOK, TimersSound
    <3> QED
      BY <3>1, <1>3, <1>7 DEF At
  <2> QED
    BY <1>2, <1>3, <1>7, <1>9, <2>1 DEF PageSound, TimersSound, At
<1> QED
  BY <1>9, <1>11, <1>12, <1>13, <1>14 DEF PageSound

LEMMA BoardFetchedSound ==
  ASSUME PageSound, NEW l \in DOMAIN loads, BoardFetched(l)
  PROVE  PageSound'
BY BoardFetchedStarts, BoardFetchedJoins, BoardFetchedFails DEF BoardFetched, WithWanted

LEMMA StartedSound ==
  ASSUME PageSound, NEW l \in DOMAIN loads, Started(l)
  PROVE  PageSound'
<1>0. PICK h : h = loads[l].client
  OBVIOUS
<1>1. /\ At(l, "start") /\ clients[h].conn = "Connecting" /\ h \in DOMAIN clients
      /\ ~loads[l].disposed
  BY <1>0 DEF Started, PageSound, StartsSound, LoadsSound
<1>2. /\ view # NoBoard /\ l = Now /\ h = Here /\ loads[l].board = view
      /\ clients[h] \in Client /\ ClientSound(h) /\ IsHere(h) /\ view \in Boards
  BY <1>0, <1>1, LoadInView
<1> DEFINE call == JoinCall(l, view)
           calls == <<call>>
           k == [clients[h] EXCEPT !.conn = "Connected", !.calls = calls]
<1>3. /\ clients' = [clients EXCEPT ![h] = k] /\ loads' = WithPc(loads, l, "join")
      /\ timing' = timing /\ view' = view /\ shapes' = shapes
      /\ active' = active /\ painted' = painted /\ measured' = measured
  BY <1>0, <1>2 DEF Started, WithPc, page, timers
<1>4. calls \in Seq(Call) /\ DOMAIN calls = {1} /\ calls[1] = call /\ call.op = "join" /\ call.load = l
  <2>1. call \in Call
    BY <1>2 DEF Call, JoinCall
  <2> QED
    BY <2>1 DEF JoinCall
<1> HIDE DEF calls, call
<1>5. k \in Client
  BY <1>2, <1>4 DEF Client, Conns
<1>6. k.conn = "Connected" /\ k.wanted = view /\ k.calls = calls /\ k.joined = {}
  <2>1. clients[h].wanted = view /\ clients[h].joined = {}
    BY <1>1, <1>2 DEF PageSound, HereSound, ClientSound
  <2> QED
    BY <1>2, <2>1 DEF Client
<1> HIDE DEF k
<1>7. /\ loads \in Seq(Load) /\ clients \in Seq(Client) /\ timing \in BOOLEAN /\ "join" \in PCs
      /\ shapes \in BOOLEAN
  BY DEF PageSound, PageTypeOK, PCs
<1>8. /\ loads' \in Seq(Load) /\ DOMAIN loads' = DOMAIN loads /\ Len(loads') = Len(loads)
      /\ \A m \in DOMAIN loads :
           /\ loads'[m].client = loads[m].client /\ loads'[m].board = loads[m].board
           /\ loads'[m].disposed = loads[m].disposed
           /\ loads'[m].pc = IF m = l THEN "join" ELSE loads[m].pc
  BY <1>3, <1>7, PcSet
<1>9. /\ clients' \in Seq(Client) /\ DOMAIN clients' = DOMAIN clients /\ Len(clients') = Len(clients)
      /\ clients'[h] = k /\ \A d \in DOMAIN clients : d # h => clients'[d] = clients[d]
  BY <1>1, <1>3, <1>5, <1>7, ClientSet
<1>10. /\ PageTypeOK' /\ LoadsSound' /\ Here' = Here /\ Now' = Now
       /\ \A c : IsHere(c)' <=> IsHere(c)
  BY <1>3, <1>7, <1>8, <1>9, SamePage
<1>11. \A d \in DOMAIN clients' : ClientSound(d)'
  <2>1. \A i \in Calls(h, "join")' : i = 1 /\ clients'[h].calls[i].load = l
    BY <1>4, <1>6, <1>9 DEF Calls
  <2>2. l \in DOMAIN loads' /\ loads'[l].client = h /\ loads'[l].pc = "join"
    BY <1>0, <1>8
  <2>3. ClientSound(h)'
    BY <1>2, <1>6, <1>9, <1>10, <2>1, <2>2 DEF ClientSound, At
  <2>4. \A m \in DOMAIN loads :
           /\ loads'[m].client = loads[m].client
           /\ loads[m].client # h /\ At(m, "join") => At(m, "join")'
    BY <1>8 DEF At
  <2> QED
    BY <1>8, <1>9, <1>10, <2>3, <2>4, OtherClients
<1>12. StartsSound'
  <2> SUFFICES ASSUME NEW m \in DOMAIN loads, At(m, "start")'
               PROVE  clients'[loads'[m].client].conn =
                        (IF loads'[m].disposed THEN "Disconnecting" ELSE "Connecting")
    BY <1>8 DEF StartsSound
  <2>1. At(m, "start") /\ loads[m].client \in DOMAIN clients /\ m # l
    BY <1>8 DEF At, PageSound, LoadsSound
  <2>2. clients[loads[m].client].conn =
          (IF loads[m].disposed THEN "Disconnecting" ELSE "Connecting")
    BY <2>1 DEF PageSound, StartsSound
  <2>3. loads[m].client # h
    <3>1. loads[m].disposed
      BY <1>2, <2>1 DEF PageSound, LoadsSound
    <3> QED
      BY <1>1, <2>2, <3>1
  <2> QED
    BY <1>8, <1>9, <2>1, <2>2, <2>3
<1>13. HereSound'
  <2>1. HearsItsBoard'
    BY <1>2, <1>3, <1>6, <1>9, <1>10 DEF HearsItsBoard, calls, call, JoinCall
  <2> QED
    BY <1>2, <1>3, <1>6, <1>9, <1>10, <2>1 DEF HereSound
<1>14. TimersSound'
  <2>1. \A m \in painted' \ measured' : GaveUp(m)'
    <3>1. \A m \in painted \ measured : m \in DOMAIN loads /\ GaveUp(m)
      BY DEF PageSound, PageTypeOK, TimersSound
    <3> QED
      BY <3>1, <1>1, <1>3, <1>8 DEF At
  <2> QED
    BY <1>1, <1>2, <1>3, <1>8, <1>10, <2>1 DEF PageSound, TimersSound, At
<1> QED
  BY <1>10, <1>11, <1>12, <1>13, <1>14 DEF PageSound

LEMMA StartFailsSound ==
  ASSUME PageSound, blame' = {}, NEW l \in DOMAIN loads, StartFails(l)
  PROVE  PageSound'
<1>0. PICK h : h = loads[l].client
  OBVIOUS
<1>1. At(l, "start") /\ h \in DOMAIN clients /\ ~loads[l].disposed
  BY <1>0 DEF StartFails, LoadFailed, If, PageSound, LoadsSound
<1>2. /\ view # NoBoard /\ l = Now /\ h = Here /\ loads[l].board = view
      /\ clients[h] \in Client /\ ClientSound(h) /\ IsHere(h) /\ view \in Boards
  BY <1>0, <1>1, LoadInView
<1> DEFINE k == [clients[h] EXCEPT !.conn = "Disconnected"]
<1>3. /\ clients' = [clients EXCEPT ![h] = k] /\ loads' = WithPc(loads, l, "failed")
      /\ timing' = FALSE /\ view' = view /\ shapes' = shapes /\ status' = "error"
      /\ active' = active /\ painted' = painted /\ measured' = measured
  BY <1>0, <1>2 DEF StartFails, LoadFailed, WithPc, page
<1>4. k \in Client
  BY <1>2 DEF Client, Conns
<1>5. k.conn = "Disconnected" /\ k.calls = <<>> /\ k.joined = {}
  <2>1. clients[h].conn = "Connecting"
    BY <1>0, <1>1 DEF PageSound, StartsSound
  <2>2. clients[h].calls = <<>> /\ clients[h].joined = {}
    BY <1>2, <2>1 DEF ClientSound
  <2> QED
    BY <1>2, <2>2 DEF Client
<1> HIDE DEF k
<1>6. /\ loads \in Seq(Load) /\ clients \in Seq(Client) /\ "failed" \in PCs /\ shapes \in BOOLEAN
  BY DEF PageSound, PageTypeOK, PCs
<1>7. /\ loads' \in Seq(Load) /\ DOMAIN loads' = DOMAIN loads /\ Len(loads') = Len(loads)
      /\ \A m \in DOMAIN loads :
           /\ loads'[m].client = loads[m].client /\ loads'[m].board = loads[m].board
           /\ loads'[m].disposed = loads[m].disposed
           /\ loads'[m].pc = IF m = l THEN "failed" ELSE loads[m].pc
  BY <1>3, <1>6, PcSet
<1>8. /\ clients' \in Seq(Client) /\ DOMAIN clients' = DOMAIN clients /\ Len(clients') = Len(clients)
      /\ clients'[h] = k /\ \A d \in DOMAIN clients : d # h => clients'[d] = clients[d]
  BY <1>1, <1>3, <1>4, <1>6, ClientSet
<1>9. /\ PageTypeOK' /\ LoadsSound' /\ Here' = Here /\ Now' = Now
      /\ \A c : IsHere(c)' <=> IsHere(c)
  BY <1>3, <1>6, <1>7, <1>8, SamePage
<1>10. \A d \in DOMAIN clients' : ClientSound(d)'
  <2>1. \A op : Calls(h, op)' = {}
    BY <1>5, <1>8 DEF Calls
  <2>2. ClientSound(h)'
    BY <1>2, <1>5, <1>8, <1>9, <2>1 DEF ClientSound
  <2>3. \A m \in DOMAIN loads :
           /\ loads'[m].client = loads[m].client
           /\ loads[m].client # h /\ At(m, "join") => At(m, "join")'
    BY <1>1, <1>7 DEF At
  <2> QED
    BY <1>7, <1>8, <1>9, <2>2, <2>3, OtherClients
<1>11. StartsSound'
  <2> SUFFICES ASSUME NEW m \in DOMAIN loads, At(m, "start")'
               PROVE  clients'[loads'[m].client].conn =
                        (IF loads'[m].disposed THEN "Disconnecting" ELSE "Connecting")
    BY <1>7 DEF StartsSound
  <2>1. At(m, "start") /\ loads[m].client \in DOMAIN clients /\ m # l
    BY <1>7 DEF At, PageSound, LoadsSound
  <2>2. clients[loads[m].client].conn =
          (IF loads[m].disposed THEN "Disconnecting" ELSE "Connecting")
    BY <2>1 DEF PageSound, StartsSound
  <2>3. loads[m].client # h
    <3>1. loads[m].disposed
      BY <1>2, <2>1 DEF PageSound, LoadsSound
    <3>2. clients[h].conn = "Connecting"
      BY <1>0, <1>1 DEF PageSound, StartsSound
    <3> QED
      BY <2>2, <3>1, <3>2
  <2> QED
    BY <1>7, <1>8, <2>1, <2>2, <2>3
<1>12. HereSound'
  BY <1>2, <1>3, <1>5, <1>8, <1>9 DEF HereSound
<1>13. TimersSound'
  <2>1. \A m \in painted' \ measured' : GaveUp(m)'
    <3>1. \A m \in painted \ measured : m \in DOMAIN loads /\ GaveUp(m)
      BY DEF PageSound, PageTypeOK, TimersSound
    <3> QED
      BY <3>1, <1>3, <1>7 DEF At
  <2> QED
    BY <1>2, <1>3, <1>7, <1>9, <2>1 DEF PageSound, TimersSound, At
<1> QED
  BY <1>9, <1>10, <1>11, <1>12, <1>13 DEF PageSound

-----------------------------------------------------------------------------
(* The calls of a connection *)

(* A client with calls is connected or stopping; when the first is         *)
(* answered, the calls of JoinBoard that remain are still waited for, and  *)
(* a LeaveBoard that is not the first still comes.                         *)
LEMMA AnsweredClient ==
  ASSUME PageSound, NEW c \in DOMAIN clients, clients[c].calls # <<>>,
         clients'[c].calls = Tail(clients[c].calls), DOMAIN loads' = DOMAIN loads,
         \A l \in DOMAIN loads : loads'[l].client = loads[l].client,
         \A l \in DOMAIN loads :
           At(l, "join") /\ ~(Head(clients[c].calls).op = "join" /\ Head(clients[c].calls).load = l)
             => At(l, "join")'
  PROVE  /\ clients[c] \in Client /\ clients \in Seq(Client)
         /\ clients[c].conn \in {"Connected", "Disconnecting"}
         /\ Tail(clients[c].calls) \in Seq(Call) /\ Head(clients[c].calls) \in Call
         /\ Head(clients[c].calls).op = "join" =>
              LET l == Head(clients[c].calls).load
              IN  l \in DOMAIN loads /\ loads[l].client = c /\ At(l, "join")
         /\ \A i \in Calls(c, "join")' :
              LET l == clients'[c].calls[i].load
              IN  l \in DOMAIN loads' /\ loads'[l].client = c /\ loads'[l].pc = "join"
         /\ \A i, j \in Calls(c, "join")' :
              clients'[c].calls[i].load = clients'[c].calls[j].load => i = j
         /\ Calls(c, "leave") # {} /\ Head(clients[c].calls).op # "leave" => Calls(c, "leave")' # {}
<1>1. clients \in Seq(Client) /\ clients[c] \in Client /\ ClientSound(c)
  BY DEF PageSound, PageTypeOK
<1> DEFINE s == clients[c].calls
<1>2. s \in Seq(Call) /\ s # <<>>
  BY <1>1 DEF Client
<1>3. clients[c].conn \in {"Connected", "Disconnecting"}
  BY <1>1 DEF ClientSound
<1>4. \A op : Calls(c, op) = {i \in DOMAIN s : s[i].op = op}
  BY DEF Calls
<1>5. \A op : Calls(c, op)' = {i \in DOMAIN Tail(s) : Tail(s)[i].op = op}
  BY DEF Calls
<1>6. clients'[c].calls = Tail(s)
  OBVIOUS
<1>7. /\ \A i \in Calls(c, "join") :
           s[i].load \in DOMAIN loads /\ loads[s[i].load].client = c /\ At(s[i].load, "join")
      /\ \A i, j \in Calls(c, "join") : s[i].load = s[j].load => i = j
  BY <1>1 DEF ClientSound
<1> HIDE DEF s
<1>8. /\ Tail(s) \in Seq(Call) /\ Head(s) = s[1] /\ Head(s) \in Call /\ 1 \in DOMAIN s
      /\ \A i \in DOMAIN Tail(s) : i + 1 \in DOMAIN s /\ i + 1 # 1 /\ Tail(s)[i] = s[i + 1]
      /\ \A i \in DOMAIN s : i # 1 => i - 1 \in DOMAIN Tail(s) /\ Tail(s)[i - 1] = s[i]
  BY <1>2, CallAnswered
<1>9. Head(s).op = "join" => 1 \in Calls(c, "join")
  BY <1>4, <1>8
<1>10. ASSUME NEW i \in Calls(c, "join")'
       PROVE  /\ i \in DOMAIN Tail(s) /\ i + 1 \in Calls(c, "join") /\ Tail(s)[i] = s[i + 1]
              /\ s[i + 1].load \in DOMAIN loads /\ loads[s[i + 1].load].client = c
              /\ At(s[i + 1].load, "join")
              /\ ~(Head(s).op = "join" /\ Head(s).load = s[i + 1].load)
  <2>1. i \in DOMAIN Tail(s) /\ Tail(s)[i].op = "join"
    BY <1>5
  <2>2. i + 1 \in Calls(c, "join") /\ Tail(s)[i] = s[i + 1] /\ i + 1 # 1
    BY <1>4, <1>8, <2>1
  <2>3. ~(Head(s).op = "join" /\ Head(s).load = s[i + 1].load)
    BY <1>7, <1>8, <1>9, <2>2
  <2> QED
    BY <1>7, <2>1, <2>2, <2>3
<1>11. ASSUME NEW i \in Calls(c, "join")'
       PROVE  LET l == clients'[c].calls[i].load
              IN  l \in DOMAIN loads' /\ loads'[l].client = c /\ loads'[l].pc = "join"
  <2>1. PICK l \in DOMAIN loads : l = s[i + 1].load
    BY <1>10
  <2>2. At(l, "join")'
    BY <1>10, <2>1 DEF s
  <2>3. clients'[c].calls[i].load = l
    BY <1>6, <1>10, <2>1
  <2> QED
    BY <1>10, <2>1, <2>2, <2>3 DEF At
<1>12. ASSUME NEW i \in Calls(c, "join")', NEW j \in Calls(c, "join")',
              clients'[c].calls[i].load = clients'[c].calls[j].load
       PROVE  i = j
  <2>1. i \in DOMAIN Tail(s) /\ j \in DOMAIN Tail(s) /\ i \in Int /\ j \in Int
    BY <1>8, <1>10
  <2>2. /\ Tail(s)[i] = s[i + 1] /\ Tail(s)[j] = s[j + 1]
        /\ i + 1 \in Calls(c, "join") /\ j + 1 \in Calls(c, "join")
    BY <1>10
  <2>3. s[i + 1].load = s[j + 1].load
    BY <1>6, <1>12, <2>2
  <2>4. i + 1 = j + 1
    BY <1>7, <2>2, <2>3
  <2> QED
    BY <2>1, <2>4
<1>13. ASSUME Calls(c, "leave") # {}, Head(s).op # "leave" PROVE Calls(c, "leave")' # {}
  <2>1. PICK i \in DOMAIN s : s[i].op = "leave" /\ i # 1
    BY <1>4, <1>8, <1>13
  <2>2. i - 1 \in DOMAIN Tail(s) /\ Tail(s)[i - 1].op = "leave"
    BY <1>8, <2>1
  <2> QED
    BY <1>5, <2>2
<1> QED
  BY <1>1, <1>3, <1>7, <1>8, <1>9, <1>11, <1>12, <1>13 DEF s

(* JoinBoard is answered, to the client of the page in view: it hears of   *)
(* its board, unless it leaves.                                            *)
LEMMA JoinedSound ==
  ASSUME PageSound, blame' = {}, NEW c \in DOMAIN clients, Joined(c)
  PROVE  PageSound'
<1> DEFINE s == clients[c].calls
<1>1. /\ s # <<>> /\ Head(s).op = "join" /\ view' = view /\ shapes' = shapes
      /\ active' = active /\ timing' = timing /\ painted' = painted /\ measured' = measured
      /\ status' = "connected" /\ IsHere(c)
  BY DEF Joined, Answer, Tell, If, page, timers
<1>2. /\ clients \in Seq(Client) /\ clients[c] \in Client /\ ClientSound(c) /\ loads \in Seq(Load)
      /\ shapes \in BOOLEAN /\ timing \in BOOLEAN /\ "over" \in PCs
  BY DEF PageSound, PageTypeOK, PCs
<1>3. view # NoBoard /\ c = Here
  BY <1>1 DEF IsHere
<1>4. s \in Seq(Call)
  BY <1>2 DEF Client
<1>5. Tail(s) \in Seq(Call) /\ Head(s) = s[1] /\ Head(s) \in Call /\ 1 \in DOMAIN s
  BY <1>1, <1>4, CallAnswered
<1>6. 1 \in Calls(c, "join")
  BY <1>1, <1>5 DEF Calls
<1>7. PICK l \in DOMAIN loads : l = Head(s).load
  BY <1>2, <1>5, <1>6 DEF ClientSound
<1>8. loads[l].client = c /\ At(l, "join")
  BY <1>2, <1>5, <1>6, <1>7 DEF ClientSound
<1>9. PICK b : b = Head(s).board
  OBVIOUS
<1>10. b \in Boards \cup {NoBoard}
  BY <1>5, <1>9 DEF Call
<1> DEFINE k == [clients[c] EXCEPT !.calls = Tail(s), !.joined = @ \cup {b}]
<1>11. clients' = [clients EXCEPT ![c] = k] /\ loads' = WithPc(loads, l, "over")
  BY <1>7, <1>9 DEF Joined, WithPc
<1>12. k \in Client
  BY <1>2, <1>5, <1>10 DEF Client
<1>13. /\ k.conn = clients[c].conn /\ k.wanted = clients[c].wanted /\ k.calls = Tail(s)
       /\ k.joined = clients[c].joined \cup {b}
  BY <1>2 DEF Client
<1> HIDE DEF k
<1>14. /\ loads' \in Seq(Load) /\ DOMAIN loads' = DOMAIN loads /\ Len(loads') = Len(loads)
       /\ \A m \in DOMAIN loads :
            /\ loads'[m].client = loads[m].client /\ loads'[m].board = loads[m].board
            /\ loads'[m].disposed = loads[m].disposed
            /\ loads'[m].pc = IF m = l THEN "over" ELSE loads[m].pc
  BY <1>2, <1>11, PcSet
<1>15. /\ clients' \in Seq(Client) /\ DOMAIN clients' = DOMAIN clients /\ Len(clients') = Len(clients)
       /\ clients'[c] = k /\ \A d \in DOMAIN clients : d # c => clients'[d] = clients[d]
  BY <1>2, <1>11, <1>12, ClientSet
<1>16. /\ PageTypeOK' /\ LoadsSound' /\ Here' = Here /\ Now' = Now
       /\ \A d : IsHere(d)' <=> IsHere(d)
  BY <1>1, <1>2, <1>14, <1>15, SamePage
<1>17. /\ clients[c].conn \in {"Connected", "Disconnecting"}
       /\ \A i \in Calls(c, "join")' :
            LET m == clients'[c].calls[i].load
            IN  m \in DOMAIN loads' /\ loads'[m].client = c /\ loads'[m].pc = "join"
       /\ \A i, j \in Calls(c, "join")' :
            clients'[c].calls[i].load = clients'[c].calls[j].load => i = j
       /\ Calls(c, "leave") # {} => Calls(c, "leave")' # {}
  <2>1. \A m \in DOMAIN loads :
          At(m, "join") /\ ~(Head(s).op = "join" /\ Head(s).load = m) => At(m, "join")'
    BY <1>1, <1>7, <1>14 DEF At
  <2> QED
    BY <1>1, <1>13, <1>14, <1>15, <2>1, AnsweredClient
<1>18. \A d \in DOMAIN clients' : ClientSound(d)'
  <2>1. ClientSound(c)'
    BY <1>1, <1>13, <1>15, <1>16, <1>17 DEF ClientSound, At
  <2>2. \A m \in DOMAIN loads :
           /\ loads'[m].client = loads[m].client
           /\ loads[m].client # c /\ At(m, "join") => At(m, "join")'
    BY <1>8, <1>14 DEF At
  <2> QED
    BY <1>14, <1>15, <1>16, <2>1, <2>2, OtherClients
<1>19. StartsSound'
  <2> SUFFICES ASSUME NEW m \in DOMAIN loads, At(m, "start")'
               PROVE  clients'[loads'[m].client].conn =
                        (IF loads'[m].disposed THEN "Disconnecting" ELSE "Connecting")
    BY <1>14 DEF StartsSound
  <2>1. At(m, "start") /\ loads[m].client \in DOMAIN clients /\ m # l
    BY <1>14 DEF At, PageSound, LoadsSound
  <2>2. clients[loads[m].client].conn =
          (IF loads[m].disposed THEN "Disconnecting" ELSE "Connecting")
    BY <2>1 DEF PageSound, StartsSound
  <2> QED
    BY <1>13, <1>14, <1>15, <2>1, <2>2
<1>20. HereSound'
  <2>1. CASE Leaving(c)
    <3>1. Leaving(c)'
      BY <1>13, <1>15, <1>17, <2>1 DEF Leaving
    <3> QED
      BY <1>3, <1>13, <1>15, <1>16, <1>17, <3>1 DEF HereSound
  <2>2. CASE ~Leaving(c)
    <3>1. /\ clients[c].conn = "Connected" /\ clients[c].wanted = view /\ HearsItsBoard
      BY <1>3, <1>17, <2>2 DEF PageSound, HereSound, Leaving
    <3>2. clients[c].calls = <<JoinCall(Now, view)>> /\ clients[c].joined = {}
      BY <1>1, <1>3, <3>1 DEF HearsItsBoard, OtherCall
    <3>3. Tail(s) = <<>> /\ Head(s) = JoinCall(Now, view)
      BY <3>2
    <3>4. l = Now /\ b = view
      BY <1>7, <1>9, <3>3 DEF JoinCall
    <3>5. Ended(Now)'
      BY <1>14, <1>16, <3>4 DEF Ended
    <3>6. HearsItsBoard'
      BY <1>1, <1>3, <1>13, <1>15, <1>16, <3>2, <3>3, <3>4, <3>5 DEF HearsItsBoard
    <3> QED
      BY <1>1, <1>3, <1>13, <1>15, <1>16, <3>1, <3>6 DEF HereSound
  <2> QED
    BY <2>1, <2>2
<1>21. TimersSound'
  <2>1. \A m \in painted' \ measured' : GaveUp(m)'
    <3>1. \A m \in painted \ measured : m \in DOMAIN loads /\ GaveUp(m)
      BY DEF PageSound, PageTypeOK, TimersSound
    <3> QED
      BY <3>1, <1>1, <1>8, <1>14 DEF At
  <2>2. (active # 0 /\ ~timing) => active \in painted \/ (GaveUp(active) /\ active \in DOMAIN loads)
    BY DEF PageSound, TimersSound, LoadsSound
  <2>3. GaveUp(active) /\ active \in DOMAIN loads => GaveUp(active)'
    BY <1>1, <1>8, <1>14 DEF At
  <2>4. active' = IF view' = NoBoard THEN 0 ELSE Now'
    BY <1>1, <1>16 DEF PageSound, TimersSound
  <2> QED
    BY <1>1, <2>1, <2>2, <2>3, <2>4 DEF TimersSound
<1> QED
  BY <1>16, <1>18, <1>19, <1>20, <1>21 DEF PageSound

(* JoinBoard of a reconnection is answered: the status has said so before. *)
LEMMA RejoinedSound ==
  ASSUME PageSound, NEW c \in DOMAIN clients, Rejoined(c)
  PROVE  PageSound'
<1> DEFINE s == clients[c].calls
<1>1. /\ s # <<>> /\ Head(s).op = "rejoin" /\ view' = view /\ shapes' = shapes
      /\ active' = active /\ timing' = timing /\ painted' = painted /\ measured' = measured
      /\ status' = status /\ loads' = loads
  BY DEF Rejoined, Answer, page, timers
<1>2. /\ clients \in Seq(Client) /\ clients[c] \in Client /\ ClientSound(c) /\ loads \in Seq(Load)
      /\ shapes \in BOOLEAN /\ timing \in BOOLEAN
  BY DEF PageSound, PageTypeOK
<1>3. s \in Seq(Call)
  BY <1>2 DEF Client
<1>4. Tail(s) \in Seq(Call) /\ Head(s) \in Call
  BY <1>1, <1>3, CallAnswered
<1>5. PICK b : b = Head(s).board
  OBVIOUS
<1>6. b \in Boards \cup {NoBoard}
  BY <1>4, <1>5 DEF Call
<1> DEFINE k == [clients[c] EXCEPT !.calls = Tail(s), !.joined = @ \cup {b}]
<1>7. clients' = [clients EXCEPT ![c] = k]
  BY <1>5 DEF Rejoined
<1>8. k \in Client
  BY <1>2, <1>4, <1>6 DEF Client
<1>9. /\ k.conn = clients[c].conn /\ k.wanted = clients[c].wanted /\ k.calls = Tail(s)
      /\ k.joined = clients[c].joined \cup {b}
  BY <1>2 DEF Client
<1> HIDE DEF k
<1>10. /\ clients' \in Seq(Client) /\ DOMAIN clients' = DOMAIN clients /\ Len(clients') = Len(clients)
       /\ clients'[c] = k /\ \A d \in DOMAIN clients : d # c => clients'[d] = clients[d]
  BY <1>2, <1>7, <1>8, ClientSet
<1>11. /\ PageTypeOK' /\ LoadsSound' /\ Here' = Here /\ Now' = Now
       /\ \A d : IsHere(d)' <=> IsHere(d)
  BY <1>1, <1>2, <1>10, SamePage
<1>12. /\ clients[c].conn \in {"Connected", "Disconnecting"}
       /\ \A i \in Calls(c, "join")' :
            LET m == clients'[c].calls[i].load
            IN  m \in DOMAIN loads' /\ loads'[m].client = c /\ loads'[m].pc = "join"
       /\ \A i, j \in Calls(c, "join")' :
            clients'[c].calls[i].load = clients'[c].calls[j].load => i = j
       /\ Calls(c, "leave") # {} => Calls(c, "leave")' # {}
  <2>1. \A m \in DOMAIN loads :
          At(m, "join") /\ ~(Head(s).op = "join" /\ Head(s).load = m) => At(m, "join")'
    BY <1>1 DEF At
  <2> QED
    BY <1>1, <1>9, <1>10, <2>1, AnsweredClient
<1>13. Leaving(c) => Leaving(c)'
  BY <1>9, <1>10, <1>12 DEF Leaving
<1>14. \A d \in DOMAIN clients' : ClientSound(d)'
  <2>1. ~IsHere(c) => Leaving(c)'
    BY <1>2, <1>12, <1>13 DEF ClientSound
  <2>2. ClientSound(c)'
    BY <1>9, <1>10, <1>11, <1>12, <2>1 DEF ClientSound, At
  <2>3. \A m \in DOMAIN loads :
           /\ loads'[m].client = loads[m].client
           /\ loads[m].client # c /\ At(m, "join") => At(m, "join")'
    BY <1>1 DEF At
  <2> QED
    BY <1>1, <1>10, <1>11, <2>2, <2>3, OtherClients
<1>15. StartsSound'
  <2>1. \A d \in DOMAIN clients : clients'[d].conn = clients[d].conn
    BY <1>9, <1>10
  <2> QED
    BY <1>1, <2>1 DEF StartsSound, At, PageSound, LoadsSound
<1>16. HereSound'
  <2> SUFFICES ASSUME view # NoBoard PROVE HereSound'
    BY <1>1 DEF HereSound
  <2>1. CASE c # Here
    <3>1. Here \in DOMAIN clients /\ clients'[Here] = clients[Here]
      BY <1>10, <2>1 DEF PageSound, LoadsSound
    <3>2. Leaving(Here)' <=> Leaving(Here)
      BY <1>11, <3>1 DEF Leaving, Calls
    <3>3. HearsItsBoard' <=> HearsItsBoard
      BY <1>1, <1>11, <3>1 DEF HearsItsBoard, Ended
    <3> QED
      BY <1>1, <1>11, <3>1, <3>2, <3>3 DEF PageSound, HereSound, At, Ended
  <2>2. CASE c = Here /\ Leaving(c)
    BY <1>9, <1>10, <1>11, <1>12, <1>13, <2>2 DEF HereSound
  <2>3. CASE c = Here /\ ~Leaving(c)
    <3>1. clients[c].conn = "Connected" /\ clients[c].wanted = view /\ HearsItsBoard
      BY <1>12, <2>3 DEF PageSound, HereSound, Leaving
    <3>2. /\ clients[c].calls = <<OtherCall("rejoin", view)>> /\ clients[c].joined = {}
          /\ status = "connected" /\ Ended(Now)
      BY <1>1, <2>3, <3>1 DEF HearsItsBoard, JoinCall
    <3>3. Tail(s) = <<>> /\ Head(s) = OtherCall("rejoin", view)
      BY <3>2
    <3>4. b = view
      BY <1>5, <3>3 DEF OtherCall
    <3>5. HearsItsBoard'
      BY <1>1, <1>9, <1>10, <1>11, <2>3, <3>2, <3>3, <3>4 DEF HearsItsBoard, Ended
    <3> QED
      BY <1>1, <1>9, <1>10, <1>11, <2>3, <3>1, <3>5 DEF HereSound
  <2> QED
    BY <2>1, <2>2, <2>3
<1>17. TimersSound'
  BY <1>1, <1>11 DEF PageSound, TimersSound, At
<1> QED
  BY <1>11, <1>14, <1>15, <1>16, <1>17 DEF PageSound

(* LeaveBoard is answered: the connection is stopped.                      *)
LEMMA LeftSound ==
  ASSUME PageSound, NEW c \in DOMAIN clients, Left(c)
  PROVE  PageSound'
<1> DEFINE s == clients[c].calls
<1>1. /\ s # <<>> /\ Head(s).op = "leave" /\ view' = view /\ shapes' = shapes
      /\ active' = active /\ timing' = timing /\ painted' = painted /\ measured' = measured
      /\ status' = status /\ loads' = loads
  BY DEF Left, Answer, page, timers
<1>2. /\ clients \in Seq(Client) /\ clients[c] \in Client /\ ClientSound(c) /\ loads \in Seq(Load)
      /\ shapes \in BOOLEAN /\ timing \in BOOLEAN
  BY DEF PageSound, PageTypeOK
<1>3. s \in Seq(Call)
  BY <1>2 DEF Client
<1>4. Tail(s) \in Seq(Call)
  BY <1>1, <1>3, CallAnswered
<1> DEFINE k == [clients[c] EXCEPT !.calls = Tail(s), !.conn = "Disconnecting",
                                   !.joined = @ \ {Head(s).board}]
<1>5. clients' = [clients EXCEPT ![c] = k]
  BY DEF Left
<1>6. k \in Client
  BY <1>2, <1>4 DEF Client, Conns
<1>7. k.conn = "Disconnecting" /\ k.calls = Tail(s)
  BY <1>2 DEF Client
<1> HIDE DEF k
<1>8. /\ clients' \in Seq(Client) /\ DOMAIN clients' = DOMAIN clients /\ Len(clients') = Len(clients)
      /\ clients'[c] = k /\ \A d \in DOMAIN clients : d # c => clients'[d] = clients[d]
  BY <1>2, <1>5, <1>6, ClientSet
<1>9. /\ PageTypeOK' /\ LoadsSound' /\ Here' = Here /\ Now' = Now
      /\ \A d : IsHere(d)' <=> IsHere(d)
  BY <1>1, <1>2, <1>8, SamePage
<1>10. /\ clients[c].conn \in {"Connected", "Disconnecting"}
       /\ \A i \in Calls(c, "join")' :
            LET m == clients'[c].calls[i].load
            IN  m \in DOMAIN loads' /\ loads'[m].client = c /\ loads'[m].pc = "join"
       /\ \A i, j \in Calls(c, "join")' :
            clients'[c].calls[i].load = clients'[c].calls[j].load => i = j
  <2>1. \A m \in DOMAIN loads :
          At(m, "join") /\ ~(Head(s).op = "join" /\ Head(s).load = m) => At(m, "join")'
    BY <1>1 DEF At
  <2> QED
    BY <1>1, <1>7, <1>8, <2>1, AnsweredClient
<1>11. Leaving(c)'
  BY <1>7, <1>8 DEF Leaving
<1>12. \A d \in DOMAIN clients' : ClientSound(d)'
  <2>1. ClientSound(c)'
    BY <1>7, <1>8, <1>10, <1>11 DEF ClientSound, At
  <2>2. \A m \in DOMAIN loads :
           /\ loads'[m].client = loads[m].client
           /\ loads[m].client # c /\ At(m, "join") => At(m, "join")'
    BY <1>1 DEF At
  <2> QED
    BY <1>1, <1>8, <1>9, <2>1, <2>2, OtherClients
<1>13. StartsSound'
  <2> SUFFICES ASSUME NEW m \in DOMAIN loads, At(m, "start")
               PROVE  clients'[loads[m].client].conn =
                        (IF loads[m].disposed THEN "Disconnecting" ELSE "Connecting")
    BY <1>1 DEF StartsSound, At
  <2>1. /\ loads[m].client \in DOMAIN clients
        /\ clients[loads[m].client].conn =
             (IF loads[m].disposed THEN "Disconnecting" ELSE "Connecting")
    BY DEF PageSound, StartsSound, LoadsSound
  <2> QED
    BY <1>7, <1>8, <1>10, <2>1
<1>14. HereSound'
  <2> SUFFICES ASSUME view # NoBoard PROVE HereSound'
    BY <1>1 DEF HereSound
  <2>1. CASE c # Here
    <3>1. Here \in DOMAIN clients /\ clients'[Here] = clients[Here]
      BY <1>8, <2>1 DEF PageSound, LoadsSound
    <3>2. Leaving(Here)' <=> Leaving(Here)
      BY <1>9, <3>1 DEF Leaving, Calls
    <3>3. HearsItsBoard' <=> HearsItsBoard
      BY <1>1, <1>9, <3>1 DEF HearsItsBoard, Ended
    <3> QED
      BY <1>1, <1>9, <3>1, <3>2, <3>3 DEF PageSound, HereSound, At, Ended
  <2>2. CASE c = Here
    BY <1>7, <1>8, <1>9, <1>11, <2>2 DEF HereSound
  <2> QED
    BY <2>1, <2>2
<1>15. TimersSound'
  BY <1>1, <1>9 DEF PageSound, TimersSound, At
<1> QED
  BY <1>9, <1>12, <1>13, <1>14, <1>15 DEF PageSound

(* The server refuses a call: with nothing to blame it is JoinBoard of the *)
(* load in view, whose status then is "error".                             *)
LEMMA RefusedSound ==
  ASSUME PageSound, blame' = {}, NEW c \in DOMAIN clients, Refused(c)
  PROVE  PageSound'
<1> DEFINE s == clients[c].calls
<1>1. /\ s # <<>> /\ Head(s).op = "join" /\ LoadFailed(Head(s).load)
      /\ view' = view /\ shapes' = shapes
      /\ active' = active /\ painted' = painted /\ measured' = measured
      /\ clients' = [clients EXCEPT ![c].calls = Tail(@)]
  BY DEF Refused, page
<1>2. /\ clients \in Seq(Client) /\ clients[c] \in Client /\ ClientSound(c) /\ loads \in Seq(Load)
      /\ shapes \in BOOLEAN /\ "failed" \in PCs
  BY DEF PageSound, PageTypeOK, PCs
<1>3. s \in Seq(Call)
  BY <1>2 DEF Client
<1>4. Tail(s) \in Seq(Call) /\ Head(s) = s[1] /\ Head(s) \in Call /\ 1 \in DOMAIN s
  BY <1>1, <1>3, CallAnswered
<1>5. 1 \in Calls(c, "join")
  BY <1>1, <1>4 DEF Calls
<1>6. PICK l \in DOMAIN loads : l = Head(s).load
  BY <1>2, <1>4, <1>5 DEF ClientSound
<1>7. loads[l].client = c /\ At(l, "join")
  BY <1>2, <1>4, <1>5, <1>6 DEF ClientSound
<1>8. /\ loads' = WithPc(loads, l, "failed") /\ timing' = FALSE /\ status' = "error"
      /\ ~loads[l].disposed
  BY <1>1, <1>6 DEF LoadFailed, If, WithPc
<1>9. view # NoBoard /\ l = Now /\ c = Here
  BY <1>7, <1>8, LoadInView
<1> DEFINE k == [clients[c] EXCEPT !.calls = Tail(s)]
<1>10. clients' = [clients EXCEPT ![c] = k]
  BY <1>1
<1>11. k \in Client
  BY <1>2, <1>4 DEF Client
<1>12. /\ k.conn = clients[c].conn /\ k.wanted = clients[c].wanted /\ k.calls = Tail(s)
       /\ k.joined = clients[c].joined
  BY <1>2 DEF Client
<1> HIDE DEF k
<1>13. /\ loads' \in Seq(Load) /\ DOMAIN loads' = DOMAIN loads /\ Len(loads') = Len(loads)
       /\ \A m \in DOMAIN loads :
            /\ loads'[m].client = loads[m].client /\ loads'[m].board = loads[m].board
            /\ loads'[m].disposed = loads[m].disposed
            /\ loads'[m].pc = IF m = l THEN "failed" ELSE loads[m].pc
  BY <1>2, <1>8, PcSet
<1>14. /\ clients' \in Seq(Client) /\ DOMAIN clients' = DOMAIN clients /\ Len(clients') = Len(clients)
       /\ clients'[c] = k /\ \A d \in DOMAIN clients : d # c => clients'[d] = clients[d]
  BY <1>2, <1>10, <1>11, ClientSet
<1>15. /\ PageTypeOK' /\ LoadsSound' /\ Here' = Here /\ Now' = Now
       /\ \A d : IsHere(d)' <=> IsHere(d)
  BY <1>1, <1>2, <1>8, <1>13, <1>14, SamePage
<1>16. /\ clients[c].conn \in {"Connected", "Disconnecting"}
       /\ \A i \in Calls(c, "join")' :
            LET m == clients'[c].calls[i].load
            IN  m \in DOMAIN loads' /\ loads'[m].client = c /\ loads'[m].pc = "join"
       /\ \A i, j \in Calls(c, "join")' :
            clients'[c].calls[i].load = clients'[c].calls[j].load => i = j
       /\ Calls(c, "leave") # {} => Calls(c, "leave")' # {}
  <2>1. \A m \in DOMAIN loads :
          At(m, "join") /\ ~(Head(s).op = "join" /\ Head(s).load = m) => At(m, "join")'
    BY <1>1, <1>6, <1>13 DEF At
  <2> QED
    BY <1>1, <1>12, <1>13, <1>14, <2>1, AnsweredClient
<1>17. \A d \in DOMAIN clients' : ClientSound(d)'
  <2>1. IsHere(c)'
    BY <1>9, <1>15 DEF IsHere
  <2>2. ClientSound(c)'
    BY <1>12, <1>14, <1>16, <2>1 DEF ClientSound, At
  <2>3. \A m \in DOMAIN loads :
           /\ loads'[m].client = loads[m].client
           /\ loads[m].client # c /\ At(m, "join") => At(m, "join")'
    BY <1>7, <1>13 DEF At
  <2> QED
    BY <1>13, <1>14, <1>15, <2>2, <2>3, OtherClients
<1>18. StartsSound'
  <2> SUFFICES ASSUME NEW m \in DOMAIN loads, At(m, "start")'
               PROVE  clients'[loads'[m].client].conn =
                        (IF loads'[m].disposed THEN "Disconnecting" ELSE "Connecting")
    BY <1>13 DEF StartsSound
  <2>1. At(m, "start") /\ loads[m].client \in DOMAIN clients /\ m # l
    BY <1>13 DEF At, PageSound, LoadsSound
  <2>2. clients[loads[m].client].conn =
          (IF loads[m].disposed THEN "Disconnecting" ELSE "Connecting")
    BY <2>1 DEF PageSound, StartsSound
  <2> QED
    BY <1>12, <1>13, <1>14, <2>1, <2>2
<1>19. HereSound'
  <2>1. CASE Leaving(c)
    <3>1. Leaving(c)'
      BY <1>12, <1>14, <1>16, <2>1 DEF Leaving
    <3> QED
      BY <1>9, <1>12, <1>14, <1>15, <1>16, <3>1 DEF HereSound
  <2>2. CASE ~Leaving(c)
    <3>1. /\ clients[c].conn = "Connected" /\ clients[c].wanted = view /\ HearsItsBoard
      BY <1>9, <1>16, <2>2 DEF PageSound, HereSound, Leaving
    <3>2. clients[c].calls = <<JoinCall(Now, view)>> /\ clients[c].joined = {}
      BY <1>1, <1>9, <3>1 DEF HearsItsBoard, OtherCall
    <3>3. Tail(s) = <<>>
      BY <3>2
    <3>4. Ended(Now)'
      BY <1>9, <1>13, <1>15 DEF Ended
    <3>5. HearsItsBoard'
      BY <1>8, <1>9, <1>12, <1>14, <1>15, <3>2, <3>3, <3>4 DEF HearsItsBoard
    <3> QED
      BY <1>1, <1>9, <1>12, <1>14, <1>15, <3>1, <3>5 DEF HereSound
  <2> QED
    BY <2>1, <2>2
<1>20. TimersSound'
  <2>1. \A m \in painted' \ measured' : GaveUp(m)'
    <3>1. \A m \in painted \ measured : m \in DOMAIN loads /\ GaveUp(m)
      BY DEF PageSound, PageTypeOK, TimersSound
    <3> QED
      BY <3>1, <1>1, <1>13 DEF At
  <2>2. GaveUp(Now)'
    BY <1>9, <1>13, <1>15 DEF At
  <2>3. active' = Now'
    BY <1>1, <1>9, <1>15 DEF PageSound, TimersSound
  <2> QED
    BY <1>1, <1>9, <2>1, <2>2, <2>3 DEF TimersSound, At
<1> QED
  BY <1>15, <1>17, <1>18, <1>19, <1>20 DEF PageSound

(* A connection closes for good, or to reconnect.                          *)
LEMMA ClosedSound ==
  ASSUME PageSound, blame' = {}, NEW c \in DOMAIN clients, NEW conn, NEW told,
         Closed(c, conn, told),
         \/ conn = "Disconnected" /\ told = "disconnected"
         \/ conn = "Reconnecting" /\ clients[c].conn = "Connected",
         \A l \in DOMAIN loads : At(l, "start") => loads[l].client # c
  PROVE  PageSound'
<1> DEFINE joining == {l \in DOMAIN loads : \E i \in Calls(c, "join") : clients[c].calls[i].load = l}
<1>1. /\ IsHere(c) /\ \A l \in joining : ~loads[l].disposed
      /\ conn = "Reconnecting" => Calls(c, "leave") = {}
  BY DEF Closed, If
<1>2. /\ clients \in Seq(Client) /\ clients[c] \in Client /\ ClientSound(c) /\ loads \in Seq(Load)
      /\ shapes \in BOOLEAN /\ timing \in BOOLEAN /\ \A l \in DOMAIN loads : loads[l] \in Load
  BY DEF PageSound, PageTypeOK
<1>3. view # NoBoard /\ c = Here
  BY <1>1 DEF IsHere
<1>4. \A l \in joining : l = Now /\ At(l, "join") /\ loads[l].client = c
  BY <1>1, <1>2, LoadInView DEF ClientSound
<1> DEFINE k == [clients[c] EXCEPT !.conn = conn, !.calls = <<>>, !.joined = {}]
<1>5. /\ view' = view /\ shapes' = shapes
      /\ active' = active /\ painted' = painted /\ measured' = measured
      /\ clients' = [clients EXCEPT ![c] = k]
      /\ loads' = [l \in DOMAIN loads |-> IF l \in joining THEN [loads[l] EXCEPT !.pc = "failed"] ELSE loads[l]]
      /\ timing' = (timing /\ joining = {})
      /\ status' = IF joining = {} THEN told ELSE "error"
  BY DEF Closed, page
<1>6. k \in Client
  <2>1. <<>> \in Seq(Call)
    OBVIOUS
  <2> QED
    BY <1>2, <2>1 DEF Client, Conns
<1>7. k.conn = conn /\ k.wanted = clients[c].wanted /\ k.calls = <<>> /\ k.joined = {}
  BY <1>2 DEF Client
<1> HIDE DEF k, joining
<1>8. /\ loads' \in Seq(Load) /\ DOMAIN loads' = DOMAIN loads /\ Len(loads') = Len(loads)
      /\ \A m \in DOMAIN loads :
           /\ loads'[m].client = loads[m].client /\ loads'[m].board = loads[m].board
           /\ loads'[m].disposed = loads[m].disposed
           /\ loads'[m].pc = IF m \in joining THEN "failed" ELSE loads[m].pc
  <2>1. ASSUME NEW m \in DOMAIN loads
        PROVE  /\ loads'[m] \in Load
               /\ loads'[m].client = loads[m].client /\ loads'[m].board = loads[m].board
               /\ loads'[m].disposed = loads[m].disposed
               /\ loads'[m].pc = IF m \in joining THEN "failed" ELSE loads[m].pc
    <3>1. loads[m] \in Load
      BY <1>2
    <3>2. CASE m \in joining
      <4>1. loads'[m] = [loads[m] EXCEPT !.pc = "failed"]
        BY <1>5, <3>2
      <4> QED
        BY <3>1, <3>2, <4>1 DEF Load, PCs
    <3>3. CASE m \notin joining
      <4>1. loads'[m] = loads[m]
        BY <1>5, <3>3
      <4> QED
        BY <3>1, <3>3, <4>1
    <3> QED
      BY <3>2, <3>3
  <2>2. DOMAIN loads' = 1 .. Len(loads) /\ Len(loads) \in Nat
    BY <1>2, <1>5
  <2>3. loads' = [m \in 1 .. Len(loads) |-> loads'[m]]
    BY <1>5, <2>2
  <2>4. \A m \in 1 .. Len(loads) : loads'[m] \in Load
    BY <1>2, <2>1
  <2>5. loads' \in Seq(Load)
    BY <2>2, <2>3, <2>4, SeqDef
  <2> QED
    BY <1>2, <2>1, <2>2, <2>5
<1>9. /\ clients' \in Seq(Client) /\ DOMAIN clients' = DOMAIN clients /\ Len(clients') = Len(clients)
      /\ clients'[c] = k /\ \A d \in DOMAIN clients : d # c => clients'[d] = clients[d]
  BY <1>2, <1>5, <1>6, ClientSet
<1>10. /\ PageTypeOK' /\ LoadsSound' /\ Here' = Here /\ Now' = Now
       /\ \A d : IsHere(d)' <=> IsHere(d)
  <2>1. timing' \in BOOLEAN
    BY <1>5
  <2>2. /\ shapes' \in BOOLEAN /\ view' = view /\ active' = active /\ painted' = painted
    BY <1>2, <1>5
  <2> QED
    BY <1>8, <1>9, <2>1, <2>2, SamePage
<1>11. \A d \in DOMAIN clients' : ClientSound(d)'
  <2>1. \A op : Calls(c, op)' = {}
    BY <1>7, <1>9 DEF Calls
  <2>2. IsHere(c)'
    BY <1>1, <1>10
  <2>3. ClientSound(c)'
    BY <1>7, <1>9, <2>1, <2>2 DEF ClientSound
  <2>4. \A m \in DOMAIN loads :
           /\ loads'[m].client = loads[m].client
           /\ loads[m].client # c /\ At(m, "join") => At(m, "join")'
    BY <1>4, <1>8 DEF At
  <2> QED
    BY <1>8, <1>9, <1>10, <2>3, <2>4, OtherClients
<1>12. StartsSound'
  <2> SUFFICES ASSUME NEW m \in DOMAIN loads, At(m, "start")'
               PROVE  clients'[loads'[m].client].conn =
                        (IF loads'[m].disposed THEN "Disconnecting" ELSE "Connecting")
    BY <1>8 DEF StartsSound
  <2>1. At(m, "start") /\ loads[m].client \in DOMAIN clients
    BY <1>8 DEF At, PageSound, LoadsSound
  <2>2. clients[loads[m].client].conn =
          (IF loads[m].disposed THEN "Disconnecting" ELSE "Connecting")
    BY <2>1 DEF PageSound, StartsSound
  <2>3. loads[m].client # c
    BY <2>1
  <2> QED
    BY <1>8, <1>9, <2>1, <2>2, <2>3
<1>13. HereSound'
  <2>1. CASE conn = "Disconnected" /\ told = "disconnected"
    <3>1. status' # "connected"
      BY <1>5, <2>1
    <3> QED
      BY <1>3, <1>7, <1>9, <1>10, <2>1, <3>1 DEF HereSound
  <2>2. CASE conn = "Reconnecting" /\ clients[c].conn = "Connected"
    <3>1. clients[c].wanted = view /\ HearsItsBoard
      BY <1>1, <1>3, <2>2 DEF PageSound, HereSound, Leaving
    <3>2. Ended(Now)'
      <4>1. Now \in DOMAIN loads
        BY <1>3 DEF PageSound, LoadsSound
      <4>2. CASE clients[c].calls = <<JoinCall(Now, view)>>
        <5>1. 1 \in Calls(c, "join") /\ clients[c].calls[1].load = Now
          BY <4>2 DEF Calls, JoinCall
        <5>2. Now \in joining
          BY <4>1, <5>1 DEF joining
        <5> QED
          BY <1>8, <1>10, <4>1, <5>2 DEF Ended
      <4>3. CASE Ended(Now)
        BY <1>8, <1>10, <4>1, <4>3 DEF Ended
      <4> QED
        BY <1>3, <3>1, <4>2, <4>3 DEF HearsItsBoard
    <3> QED
      BY <1>3, <1>5, <1>7, <1>9, <1>10, <2>2, <3>1, <3>2 DEF HereSound
  <2> QED
    BY <2>1, <2>2
<1>14. TimersSound'
  <2>1. \A m \in painted' \ measured' : GaveUp(m)'
    <3>1. \A m \in painted \ measured : m \in DOMAIN loads /\ GaveUp(m)
      BY DEF PageSound, PageTypeOK, TimersSound
    <3> QED
      BY <3>1, <1>5, <1>8 DEF At
  <2>2. active' = Now' /\ active = Now /\ Now \in DOMAIN loads
    BY <1>3, <1>5, <1>10 DEF PageSound, TimersSound, LoadsSound
  <2>3. ASSUME ~timing' PROVE active' \in painted' \/ GaveUp(active)'
    <3>1. CASE ~timing
      <4>1. active \in painted \/ GaveUp(active)
        BY <1>2, <2>2, <3>1 DEF PageSound, TimersSound
      <4> QED
        BY <1>5, <1>8, <2>2, <4>1 DEF At
    <3>2. CASE joining # {}
      <4>1. Now \in joining
        BY <1>4, <3>2
      <4> QED
        BY <1>5, <1>8, <2>2, <4>1 DEF At
    <3> QED
      BY <1>5, <2>3, <3>1, <3>2
  <2> QED
    BY <1>3, <1>5, <2>1, <2>2, <2>3 DEF TimersSound
<1> QED
  BY <1>10, <1>11, <1>12, <1>13, <1>14 DEF PageSound

LEMMA ClosingSound ==
  ASSUME PageSound, blame' = {}, NEW c \in DOMAIN clients, Stopped(c) \/ Lost(c) \/ GivenUp(c)
  PROVE  PageSound'
<1>1. CASE Stopped(c)
  BY <1>1, ClosedSound DEF Stopped
<1>2. CASE Lost(c) \/ GivenUp(c)
  <2>1. clients[c].conn \in {"Connected", "Reconnecting"}
    BY <1>2 DEF Lost, GivenUp
  <2>2. \A l \in DOMAIN loads : At(l, "start") => loads[l].client # c
    BY <2>1 DEF PageSound, StartsSound
  <2> QED
    BY <1>2, <2>2, ClosedSound DEF Lost, GivenUp
<1> QED
  BY <1>1, <1>2

(* The connection is back: it joins its board again, and says so at once.  *)
LEMMA ReconnectedSound ==
  ASSUME PageSound, blame' = {}, NEW c \in DOMAIN clients, Reconnected(c)
  PROVE  PageSound'
<1>1. /\ clients[c].conn = "Reconnecting" /\ IsHere(c) /\ status' = "connected"
      /\ loads' = loads /\ view' = view /\ shapes' = shapes
      /\ active' = active /\ timing' = timing /\ painted' = painted /\ measured' = measured
  BY DEF Reconnected, Tell, If, page, timers
<1>2. /\ clients \in Seq(Client) /\ clients[c] \in Client /\ ClientSound(c) /\ loads \in Seq(Load)
      /\ shapes \in BOOLEAN /\ timing \in BOOLEAN
  BY DEF PageSound, PageTypeOK
<1>3. view # NoBoard /\ c = Here
  BY <1>1 DEF IsHere
<1>4. clients[c].wanted = view /\ Ended(Now) /\ clients[c].joined = {}
  BY <1>1, <1>2, <1>3 DEF PageSound, HereSound, ClientSound
<1> DEFINE calls == <<OtherCall("rejoin", view)>>
           k == [clients[c] EXCEPT !.conn = "Connected", !.calls = calls]
<1>5. clients' = [clients EXCEPT ![c] = k]
  BY <1>4 DEF Reconnected
<1>6. calls \in Seq(Call) /\ DOMAIN calls = {1} /\ calls[1].op = "rejoin"
  <2>1. OtherCall("rejoin", view) \in Call
    BY DEF OtherCall, Call, PageSound, PageTypeOK
  <2> QED
    BY <2>1 DEF OtherCall
<1> HIDE DEF calls
<1>7. k \in Client
  BY <1>2, <1>6 DEF Client, Conns
<1>8. k.conn = "Connected" /\ k.wanted = view /\ k.calls = calls /\ k.joined = {}
  BY <1>2, <1>4 DEF Client
<1> HIDE DEF k
<1>9. /\ clients' \in Seq(Client) /\ DOMAIN clients' = DOMAIN clients /\ Len(clients') = Len(clients)
      /\ clients'[c] = k /\ \A d \in DOMAIN clients : d # c => clients'[d] = clients[d]
  BY <1>2, <1>5, <1>7, ClientSet
<1>10. /\ PageTypeOK' /\ LoadsSound' /\ Here' = Here /\ Now' = Now
       /\ \A d : IsHere(d)' <=> IsHere(d)
  BY <1>1, <1>2, <1>9, SamePage
<1>11. \A d \in DOMAIN clients' : ClientSound(d)'
  <2>1. Calls(c, "join")' = {}
    BY <1>6, <1>8, <1>9 DEF Calls
  <2>2. IsHere(c)'
    BY <1>1, <1>10
  <2>3. ClientSound(c)'
    BY <1>8, <1>9, <2>1, <2>2 DEF ClientSound
  <2>4. \A m \in DOMAIN loads :
           /\ loads'[m].client = loads[m].client
           /\ loads[m].client # c /\ At(m, "join") => At(m, "join")'
    BY <1>1 DEF At
  <2> QED
    BY <1>1, <1>9, <1>10, <2>3, <2>4, OtherClients
<1>12. StartsSound'
  <2> SUFFICES ASSUME NEW m \in DOMAIN loads, At(m, "start")
               PROVE  clients'[loads[m].client].conn =
                        (IF loads[m].disposed THEN "Disconnecting" ELSE "Connecting")
    BY <1>1 DEF StartsSound, At
  <2>1. /\ loads[m].client \in DOMAIN clients
        /\ clients[loads[m].client].conn =
             (IF loads[m].disposed THEN "Disconnecting" ELSE "Connecting")
    BY DEF PageSound, StartsSound, LoadsSound
  <2> QED
    BY <1>1, <1>9, <2>1
<1>13. HereSound'
  <2>1. Ended(Now)'
    BY <1>1, <1>4 DEF Ended
  <2>2. HearsItsBoard'
    BY <1>1, <1>3, <1>8, <1>9, <1>10, <2>1 DEF HearsItsBoard, calls
  <2> QED
    BY <1>1, <1>3, <1>8, <1>9, <1>10, <2>2 DEF HereSound
<1>14. TimersSound'
  BY <1>1, <1>10 DEF PageSound, TimersSound, At
<1> QED
  BY <1>10, <1>11, <1>12, <1>13, <1>14 DEF PageSound

LEMMA PaintSound ==
  ASSUME PageSound, Paint
  PROVE  PageSound'
<1>1. /\ active # 0 /\ active \notin painted /\ painted' = painted \cup {active}
      /\ measured' = IF timing THEN measured \cup {active} ELSE measured
      /\ timing' = FALSE /\ view' = view /\ shapes' = shapes /\ loads' = loads /\ clients' = clients
      /\ status' = status /\ active' = active
  BY DEF Paint, page
<1>2. active = Now /\ view # NoBoard /\ Now \in DOMAIN loads
  BY <1>1 DEF PageSound, TimersSound, LoadsSound
<1>3. PageTypeOK'
  <2>1. painted' \subseteq DOMAIN loads'
    BY <1>1, <1>2 DEF PageSound, PageTypeOK
  <2> QED
    BY <1>1, <2>1 DEF PageSound, PageTypeOK
<1>4. LoadsSound' /\ StartsSound' /\ \A c \in DOMAIN clients' : ClientSound(c)'
  <2>1. \A c : ClientSound(c)' <=> ClientSound(c)
    BY <1>1 DEF ClientSound, Leaving, Calls, IsHere, At
  <2> QED
    BY <1>1, <2>1 DEF PageSound, LoadsSound, StartsSound, At
<1>5. HereSound'
  <2>1. Leaving(Here)' <=> Leaving(Here)
    BY <1>1 DEF Leaving, Calls
  <2>2. HearsItsBoard' <=> HearsItsBoard
    BY <1>1 DEF HearsItsBoard, Ended
  <2> QED
    BY <1>1, <2>1, <2>2 DEF PageSound, HereSound, Ended, At
<1>6. TimersSound'
  <2>1. ASSUME NEW l \in painted' \ measured' PROVE GaveUp(l)'
    <3>1. CASE timing
      BY <1>1, <3>1 DEF PageSound, TimersSound, At
    <3>2. CASE ~timing
      BY <1>1, <1>2, <3>2 DEF PageSound, TimersSound, At
    <3> QED
      BY <3>1, <3>2
  <2> QED
    BY <1>1, <2>1 DEF PageSound, TimersSound
<1> QED
  BY <1>3, <1>4, <1>5, <1>6 DEF PageSound

-----------------------------------------------------------------------------
(* The theorem *)

LEMMA StutterSound ==
  ASSUME PageSound, UNCHANGED vars
  PROVE  PageSound'
<1>1. /\ view' = view /\ shapes' = shapes /\ loads' = loads /\ clients' = clients
      /\ status' = status /\ active' = active /\ timing' = timing
      /\ painted' = painted /\ measured' = measured
  BY DEF vars, page, timers
<1>2. \A c : ClientSound(c)' <=> ClientSound(c)
  BY <1>1 DEF ClientSound, Leaving, Calls, IsHere, At
<1>3. HereSound' <=> HereSound
  BY <1>1 DEF HereSound, Leaving, Calls, HearsItsBoard, Ended, At
<1> QED
  BY <1>1, <1>2, <1>3 DEF PageSound, PageTypeOK, LoadsSound, StartsSound, TimersSound, At

(* What was to blame stays so, and a call that failed is.                  *)
LEMMA BlameGrows ==
  ASSUME [Next]_vars
  PROVE  blame \subseteq blame' /\ (CallFails => blame' # {})
<1>1. ASSUME NEW b \in Boards, OpenBoard(b) PROVE blame \subseteq blame'
  BY <1>1 DEF OpenBoard
<1>2. ASSUME Back \/ Paint \/ CallFails PROVE blame \subseteq blame'
  BY <1>2 DEF Back, Paint, CallFails
<1>3. CallFails => blame' # {}
  BY DEF CallFails
<1>4. ASSUME NEW l \in DOMAIN loads, LoadStep(l) PROVE blame \subseteq blame'
  BY <1>4 DEF LoadStep, BoardFetched, BoardAbandoned, FetchedTooLate, FetchFails, Started,
                    StartFails, Connect, LoadFailed
<1>5. ASSUME NEW c \in DOMAIN clients, ClientStep(c) PROVE blame \subseteq blame'
  <2>1. CASE Joined(c) \/ Rejoined(c) \/ Left(c) \/ Reconnected(c)
    BY <2>1 DEF Joined, Rejoined, Left, Reconnected, Tell
  <2>2. CASE Refused(c)
    BY <2>2 DEF Refused, LoadFailed
  <2>3. CASE Stopped(c) \/ Lost(c) \/ GivenUp(c)
    BY <2>3 DEF Stopped, Lost, GivenUp, Closed
  <2> QED
    BY <1>5, <2>1, <2>2, <2>3 DEF ClientStep
<1> QED
  BY <1>1, <1>2, <1>3, <1>4, <1>5 DEF Next, vars

LEMMA NextInductive == BoardPageAssumption /\ PageInductive /\ [Next]_vars => PageInductive'
<1> SUFFICES ASSUME BoardPageAssumption, PageInductive, [Next]_vars, blame' = {}
             PROVE  PageSound'
  BY DEF PageInductive
<1>1. PageSound /\ ~CallFails
  BY BlameGrows DEF PageInductive
<1>2. ASSUME NEW b \in Boards, OpenBoard(b) PROVE PageSound'
  BY <1>1, <1>2, OpenBoardSound
<1>3. CASE Back
  BY <1>1, <1>3, BackSound
<1>4. CASE Paint
  BY <1>1, <1>4, PaintSound
<1>5. ASSUME NEW l \in DOMAIN loads, LoadStep(l) PROVE PageSound'
  BY <1>1, <1>5, BoardFetchedSound, BoardAbandonedSound, FetchedTooLateSound, FetchFailsSound, StartedSound,
     StartFailsSound DEF LoadStep
<1>6. ASSUME NEW c \in DOMAIN clients, ClientStep(c) PROVE PageSound'
  BY <1>1, <1>6, JoinedSound, RejoinedSound, LeftSound, RefusedSound, ClosingSound,
     ReconnectedSound DEF ClientStep
<1>7. CASE UNCHANGED vars
  BY <1>1, <1>7, StutterSound
<1> QED
  BY <1>1, <1>2, <1>3, <1>4, <1>5, <1>6, <1>7 DEF Next

(* The settled page: its client has no calls and is connected or           *)
(* disconnected, hence does not leave, and hears of its board as the       *)
(* status says; any other is disconnected.                                 *)
LEMMA SoundSettles == PageInductive => SettledPageIsTrue
<1> SUFFICES ASSUME PageSound, Settled
             PROVE  /\ view # NoBoard =>
                         (status = "connected" <=>
                            clients[Here].conn = "Connected" /\ clients[Here].joined = {view})
                    /\ \A c \in DOMAIN clients : ~IsHere(c) => clients[c].conn = "Disconnected"
                    /\ \A l \in painted \ measured : GaveUp(l)
  BY DEF PageInductive, SettledPageIsTrue
<1>1. \A c \in DOMAIN clients : ~Leaving(c)
  BY DEF Settled, Leaving, Calls
<1>2. \A c \in DOMAIN clients : ~IsHere(c) => clients[c].conn = "Disconnected"
  BY <1>1 DEF PageSound, ClientSound
<1>3. ASSUME view # NoBoard
      PROVE  status = "connected" <=>
               clients[Here].conn = "Connected" /\ clients[Here].joined = {view}
  <2>1. Here \in DOMAIN clients /\ clients[Here].calls = <<>>
        /\ clients[Here].conn \in {"Connected", "Disconnected"}
    BY <1>3 DEF PageSound, LoadsSound, Settled
  <2>2. CASE clients[Here].conn = "Disconnected"
    BY <1>3, <2>2 DEF PageSound, HereSound
  <2>3. CASE clients[Here].conn = "Connected"
    BY <1>1, <1>3, <2>1, <2>3 DEF PageSound, HereSound, HearsItsBoard
  <2> QED
    BY <2>1, <2>2, <2>3
<1> QED
  BY <1>2, <1>3 DEF PageSound, TimersSound

(* Whatever the boards and the bounds: once everything has settled and     *)
(* nothing of `blame` happened, the tools are unlocked exactly when the    *)
(* page in view hears its board, no page that was left keeps a connection, *)
(* and every first paint was measured unless its load failed or was        *)
(* abandoned.                                                              *)
THEOREM SettledPageIsAlwaysTrue == Spec => []SettledPageIsTrue
<1>1. Init => PageInductive
  BY InitSound DEF PageInductive
<1>2. PageInductive /\ [Next]_vars => PageInductive'
  BY NextInductive, BoardPageAssumption
<1>3. PageInductive => SettledPageIsTrue
  BY SoundSettles
<1> QED
  BY <1>1, <1>2, <1>3, PTL DEF Spec
=============================================================================
