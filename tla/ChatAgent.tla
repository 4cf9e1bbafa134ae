----------------------------- MODULE ChatAgent -----------------------------
(***************************************************************************)
(* The CMS agent (backend/DemoCms.Agent): the admission of chat requests   *)
(* (rate windows, readiness of the model, concurrency limit with a queue), *)
(* the tool loop of one chat, its stream of events, which the chat loop    *)
(* and a heartbeat timer share, and the readiness cache that requests and  *)
(* failures of the model endpoint update.                                  *)
(*                                                                         *)
(* A request is one record of `req`; its field pc is where its handler     *)
(* awaits.  Requests are numbered in the order they arrive: they are       *)
(* interchangeable before that.  Texts, tool names and token counts are    *)
(* left out; what a round brings back is chosen freely.                    *)
(***************************************************************************)
EXTENDS Integers, Sequences, FiniteSets

CONSTANTS
  N,              \* how many requests arrive
  Permits,        \* MaxConcurrentChats
  QueueLimits,    \* the values of QueueLimit to configure
  RateLimit,      \* RateLimitPerMinute
  MaxToolRounds,  \* MaxToolRounds
  RequireTool,    \* RequireToolOnFirstRound
  MaxFlips,       \* bound: how often the model endpoint goes down or up
  MaxExpiries,    \* bound: how often the readiness cache or a rate window runs out
  MaxBeats,       \* bound: heartbeats of all streams
  MaxGone         \* bound: how many clients go away

ASSUME AgentAssumption ==
  /\ N \in Nat /\ Permits \in Nat \ {0} /\ QueueLimits \subseteq Nat
  /\ RateLimit \in Nat \ {0} /\ MaxToolRounds \in Nat \ {0}
  /\ RequireTool \in BOOLEAN
  /\ MaxFlips \in Nat /\ MaxExpiries \in Nat /\ MaxBeats \in Nat /\ MaxGone \in Nat

Requests == 1 .. N

\* The addresses that requests come from: as many as there are requests.
Clients == 1 .. N

VARIABLES
  req,        \* [Requests -> record]: the handlers
  leases,     \* requests that hold a permit of the concurrency limiter
  waiting,    \* sequence of requests in the limiter's queue
  limit,      \* QueueLimit as configured
  used,       \* requests counted in the current rate window of each client
  health,     \* the readiness cache: [ready, fresh, prober, unheard]
  beats,      \* heartbeats so far
  up,         \* whether the model endpoint answers
  flips, expiries

vars == <<req, leases, waiting, limit, used, health, beats, up, flips, expiries>>

NoOne == 0

Fresh == [pc |-> "idle", kind |-> "chat", gone |-> FALSE, reply |-> "none", seen |-> FALSE,
          rounds |-> 0, tooled |-> FALSE, answered |-> FALSE, outcome |-> "none",
          frame |-> "none", writers |-> {}, beat |-> "off", ending |-> "none",
          unmeasured |-> 0, counted |-> 0]

Init ==
  /\ req = [r \in Requests |-> Fresh]
  /\ leases = {} /\ waiting = <<>> /\ limit \in QueueLimits
  /\ used = [c \in Clients |-> 0]
  /\ health = [ready |-> FALSE, fresh |-> FALSE, prober |-> NoOne, unheard |-> "no"]
  /\ beats = 0 /\ up = TRUE /\ flips = 0 /\ expiries = 0

\* The fields of d replace those of h.
Changed(h, d) == [f \in DOMAIN h |-> IF f \in DOMAIN d THEN d[f] ELSE h[f]]

\* Request r goes on.
With(r, d) == [req EXCEPT ![r] = Changed(@, d)]
Step(r, d) == req' = With(r, d)
At(r, p) == req[r].pc = p

Admission == <<leases, waiting, used>>
World == <<limit, beats, up, flips, expiries>>

-----------------------------------------------------------------------------
(* Admission *)

\* Clients are interchangeable while their windows are empty: the first of those comes next.
Comes(c) == used[c] > 0 \/ \A b \in Clients : b < c => used[b] > 0

\* The rate limiter of the route, which has a window for each client, then the validator.  The
\* health route has neither.
Arrive(r) ==
  /\ At(r, "idle") /\ \A s \in Requests : s < r => ~At(s, "idle")
  /\ \/ \E c \in Clients :
          /\ used[c] >= RateLimit
          /\ Step(r, [pc |-> "over", reply |-> "rate_limited"])
          /\ UNCHANGED used
     \/ \E c \in Clients :
          /\ Comes(c) /\ used[c] < RateLimit /\ used' = [used EXCEPT ![c] = @ + 1]
          /\ \/ Step(r, [pc |-> "over", reply |-> "invalid"])
             \/ Step(r, [pc |-> "cache"])
     \/ Step(r, [pc |-> "cache", kind |-> "health"]) /\ UNCHANGED used
  /\ UNCHANGED <<leases, waiting, health, World>>

\* What follows the answer of IsReadyAsync.
Told(r, b) ==
  Step(r, CASE req[r].kind = "health" -> [seen |-> FALSE, pc |-> "over", reply |-> "ok"]
            [] req[r].kind = "chat" /\ b -> [seen |-> FALSE, pc |-> "acquire"]
            [] OTHER -> [seen |-> FALSE, pc |-> "over", reply |-> "llm_unavailable"])

CheckCache(r) ==
  /\ At(r, "cache")
  /\ IF health.fresh THEN Told(r, health.ready) ELSE Step(r, [pc |-> "lock"])
  /\ UNCHANGED <<health, Admission, World>>

\* The probe lock: the cache is looked at again; a caller that went away leaves the wait.
TakeProbeLock(r) ==
  /\ At(r, "lock")
  /\ \/ /\ req[r].gone /\ Step(r, [pc |-> "over"]) /\ UNCHANGED health
     \/ /\ health.prober = NoOne /\ health.fresh
        /\ Told(r, health.ready) /\ UNCHANGED health
     \/ /\ health.prober = NoOne /\ ~health.fresh
        /\ Step(r, [pc |-> "probe"])
        /\ health' = [health EXCEPT !.prober = r, !.unheard = "no"]
  /\ UNCHANGED <<Admission, World>>

\* The endpoint answers, fails, takes more than two seconds, or the caller goes away: the last
\* three all count as "not ready".
ProbeAnswered(r) ==
  /\ At(r, "probe")
  /\ \E b \in {FALSE, up /\ ~req[r].gone} : Step(r, [pc |-> "probed", seen |-> b])
  /\ UNCHANGED <<health, Admission, World>>

StoreProbe(r) ==
  /\ At(r, "probed")
  /\ health' = [health EXCEPT !.ready = req[r].seen, !.fresh = TRUE, !.prober = NoOne]
  /\ Told(r, req[r].seen)
  /\ UNCHANGED <<Admission, World>>

\* A failed chat call: not ready from now on.  `unheard` is a history variable: "marked" after
\* a mark, "inflight" when a probe was under way at that moment and may overwrite it.
MarkStale ==
  health' = [health EXCEPT !.fresh = TRUE,
                           !.unheard = IF health.prober = NoOne THEN "marked" ELSE "inflight"]

MarkUnavailable ==
  health' = [health EXCEPT !.ready = FALSE, !.fresh = TRUE,
                           !.unheard = IF health.prober = NoOne THEN "marked" ELSE "inflight"]

\* A permit, a place in the queue, or "busy"; a caller that went away gets none.
Acquire(r) ==
  /\ At(r, "acquire")
  /\ \/ /\ req[r].gone /\ Step(r, [pc |-> "over"]) /\ UNCHANGED <<leases, waiting>>
     \/ /\ ~req[r].gone /\ Cardinality(leases) < Permits /\ waiting = <<>>
        /\ leases' = leases \cup {r} /\ Step(r, [pc |-> "start"]) /\ UNCHANGED waiting
     \/ /\ ~req[r].gone /\ (Cardinality(leases) >= Permits \/ waiting # <<>>)
        /\ Len(waiting) < limit
        /\ waiting' = Append(waiting, r) /\ Step(r, [pc |-> "queued"]) /\ UNCHANGED leases
     \/ /\ ~req[r].gone /\ (Cardinality(leases) >= Permits \/ waiting # <<>>)
        /\ Len(waiting) >= limit
        /\ Step(r, [pc |-> "over", reply |-> "busy"]) /\ UNCHANGED <<leases, waiting>>
  /\ UNCHANGED <<used, health, World>>

AbandonQueue(r) ==
  /\ At(r, "queued") /\ req[r].gone
  /\ \E i \in DOMAIN waiting :
       /\ waiting[i] = r
       /\ waiting' = SubSeq(waiting, 1, i - 1) \o SubSeq(waiting, i + 1, Len(waiting))
  /\ Step(r, [pc |-> "over"])
  /\ UNCHANGED <<leases, used, health, World>>

\* `using var lease`: the permit goes back, and to the oldest request of the queue.
Leave(r, d) ==
  IF waiting = <<>>
  THEN /\ leases' = leases \ {r} /\ Step(r, d)
       /\ UNCHANGED waiting
  ELSE /\ leases' = (leases \ {r}) \cup {Head(waiting)}
       /\ waiting' = Tail(waiting)
       /\ req' = [With(r, d) EXCEPT ![Head(waiting)].pc = "start"]

\* The run begins: its context, its deadline and its messages.
Opened == [pc |-> "begin", reply |-> "stream", beat |-> "on"]

\* SseWriter.StartAsync: the headers go out and the heartbeat timer starts; for a client that
\* went away the flush throws and the handler ends, its lease with it.
StartLeaking(r) ==
  /\ At(r, "start")
  /\ IF req[r].gone
     THEN Step(r, [pc |-> "over"]) /\ UNCHANGED <<leases, waiting>>
     ELSE Step(r, Opened) /\ UNCHANGED <<leases, waiting>>
  /\ UNCHANGED <<used, health, World>>

Start(r) ==
  /\ At(r, "start")
  /\ IF req[r].gone
     THEN Leave(r, [pc |-> "over"])
     ELSE Step(r, Opened) /\ UNCHANGED <<leases, waiting>>
  /\ UNCHANGED <<used, health, World>>

-----------------------------------------------------------------------------
(* The tool loop of one chat; it goes on when its last frame is written *)

Free(r, p) == At(r, p) /\ req[r].frame = "none"

Tooled(n) == n <= MaxToolRounds \/ (n = 1 /\ RequireTool)

\* RoundTrackingChatClient: the round is counted and announced; the one after MaxToolRounds has
\* no tools, so that the model has to answer.
BeginRound(r) ==
  /\ Free(r, "begin")
  /\ LET n == req[r].rounds + 1
     IN  Step(r, [pc |-> "model", rounds |-> n, tooled |-> Tooled(n), frame |-> "talk",
                  unmeasured |-> req[r].unmeasured + 1])
  /\ UNCHANGED <<health, Admission, World>>

\* The run is over with outcome o: what the browser is told.
Frame(o) == CASE o = "ok" -> "done" [] o = "client_aborted" -> "none" [] OTHER -> "error"
Close(r, o, left) == [pc |-> "close", outcome |-> o, frame |-> Frame(o), answered |-> FALSE,
                      tooled |-> FALSE, unmeasured |-> left]

\* What a cancelled await is reported as.
Cancelled(r) == IF req[r].gone THEN "client_aborted" ELSE "llm_timeout"

\* A piece of the answer.
Say(r) ==
  /\ Free(r, "model") /\ up /\ ~req[r].gone /\ ~req[r].answered
  /\ ~(req[r].rounds = 1 /\ RequireTool)
  /\ Step(r, [answered |-> TRUE, frame |-> "talk"])
  /\ UNCHANGED <<health, Admission, World>>

\* InferenceTelemetryChatClient measures the round in its finally clause.
MeasuredOnSuccess(r, failed) == req[r].unmeasured - IF failed THEN 0 ELSE 1
Measured(r, failed) == req[r].unmeasured - 1

\* The end of a round: calls of tools, the end of the answer, a cancelled await, a transport
\* failure, any other failure.
EndRound(r) ==
  /\ Free(r, "model")
  /\ \/ /\ up /\ ~req[r].gone /\ req[r].tooled
        /\ Step(r, [pc |-> "tool", frame |-> "talk", unmeasured |-> Measured(r, FALSE)]) /\ UNCHANGED health
     \/ /\ up /\ ~req[r].gone /\ ~(req[r].rounds = 1 /\ RequireTool)
        /\ Step(r, [pc |-> "end", unmeasured |-> Measured(r, FALSE)]) /\ UNCHANGED health
     \/ Step(r, Close(r, Cancelled(r), Measured(r, TRUE))) /\ UNCHANGED health
     \/ /\ ~up /\ ~req[r].gone
        /\ Step(r, Close(r, "llm_unavailable", Measured(r, TRUE))) /\ MarkUnavailable
     \/ ~req[r].gone /\ Step(r, Close(r, "internal", Measured(r, TRUE))) /\ UNCHANGED health
  /\ UNCHANGED <<Admission, World>>

\* A query of the CMS: its answer (a refusal or "not found" is one too), or a failure of the
\* transport, of the server or of its time limit; the token of the chat cancels it; an answer
\* that cannot be read, and any other exception of the tool.
CmsReply == {"answer", "cms_unavailable", "cancelled", "broken"}

\* What the tool makes of it: a result for the model, or an exception.
ToolEnds(r, a) ==
  CASE a = "answer" -> [pc |-> "begin"]
    [] a = "cms_unavailable" -> Close(r, "cms_unavailable", req[r].unmeasured)
    [] a = "cancelled" -> Close(r, Cancelled(r), req[r].unmeasured)
    [] a = "broken" -> Close(r, "internal", req[r].unmeasured)

\* The tools of a round run one after the other; the first exception ends the chat.
RunTool(r) ==
  /\ Free(r, "tool")
  /\ \E a \in CmsReply : Step(r, ToolEnds(r, a))
  /\ UNCHANGED <<health, Admission, World>>

EndOfAnswer(r) ==
  /\ Free(r, "end")
  /\ Step(r, Close(r, CASE req[r].answered -> "ok"
                        [] ~req[r].answered /\ req[r].rounds > MaxToolRounds -> "tool_limit"
                        [] OTHER -> "empty_answer", req[r].unmeasured))
  /\ UNCHANGED <<health, Admission, World>>

-----------------------------------------------------------------------------
(* The stream of one chat *)

Locked(r) == req[r].writers # {}

\* WriteRawAsync of the chat loop: nothing for a client that went away; else the lock, the
\* write and the flush, which fail silently when the client goes away meanwhile.
SkipFrame(r) ==
  /\ req[r].frame # "none" /\ req[r].gone /\ "loop" \notin req[r].writers
  /\ Step(r, [frame |-> "none"])
  /\ UNCHANGED <<health, Admission, World>>

LockFrame(r) ==
  /\ req[r].frame # "none" /\ ~req[r].gone /\ ~Locked(r)
  /\ Step(r, [writers |-> req[r].writers \cup {"loop"}])
  /\ UNCHANGED <<health, Admission, World>>

WriteFrameKeeping(r) ==
  /\ "loop" \in req[r].writers
  /\ LET ends == ~req[r].gone /\ req[r].frame \in {"done", "error"}
     IN  Step(r, [writers |-> IF req[r].gone THEN req[r].writers ELSE {}, frame |-> "none",
                  ending |-> CASE ends /\ req[r].ending = "none" -> req[r].frame
                               [] ends /\ req[r].ending # "none" -> "twice"
                               [] OTHER -> req[r].ending])
  /\ UNCHANGED <<health, Admission, World>>

WriteFrame(r) ==
  /\ "loop" \in req[r].writers
  /\ LET ends == ~req[r].gone /\ req[r].frame \in {"done", "error"}
     IN  Step(r, [writers |-> req[r].writers \ {"loop"}, frame |-> "none",
                  ending |-> CASE ends /\ req[r].ending = "none" -> req[r].frame
                               [] ends /\ req[r].ending # "none" -> "twice"
                               [] OTHER -> req[r].ending])
  /\ UNCHANGED <<health, Admission, World>>

\* The timer: a heartbeat that starts while the stream is open and its client is there.
Beat(r) ==
  /\ req[r].beat = "on" /\ beats < MaxBeats /\ ~req[r].gone
  /\ beats' = beats + 1 /\ Step(r, [beat |-> "waiting"])
  /\ UNCHANGED <<health, Admission, limit, up, flips, expiries>>

\* The heartbeat gets the lock; after the stream is complete it writes nothing.
LockBeatLate(r) ==
  /\ req[r].beat = "waiting" /\ ~Locked(r)
  /\ Step(r, [beat |-> "writing", writers |-> req[r].writers \cup {"beat"}])
  /\ UNCHANGED <<health, Admission, World>>

LockBeat(r) ==
  /\ req[r].beat = "waiting" /\ ~Locked(r)
  /\ Step(r, IF At(r, "over") THEN [beat |-> "off"]
             ELSE [beat |-> "writing", writers |-> req[r].writers \cup {"beat"}])
  /\ UNCHANGED <<health, Admission, World>>

WriteBeat(r) ==
  /\ req[r].beat = "writing"
  /\ Step(r, [writers |-> req[r].writers \ {"beat"},
              beat |-> IF req[r].pc \in {"dispose", "over"} THEN "off" ELSE "on"])
  /\ UNCHANGED <<health, Admission, World>>

\* The outcome is recorded, and the heartbeat timer stops: no new heartbeat starts.
Report(r) ==
  /\ Free(r, "close")
  /\ Step(r, [pc |-> "dispose", counted |-> req[r].counted + 1, rounds |-> 0,
              beat |-> IF req[r].beat = "on" THEN "off" ELSE req[r].beat])
  /\ UNCHANGED <<health, Admission, World>>

\* SseWriter.DisposeAsync takes the lock before the stream is complete; then the lease goes.
Dispose(r) ==
  /\ At(r, "dispose") /\ ~Locked(r)
  /\ Leave(r, [pc |-> "over"])
  /\ UNCHANGED <<used, health, World>>

-----------------------------------------------------------------------------
(* The world *)

\* The client closes its connection.
GoAway(r) ==
  /\ req[r].pc \notin {"idle", "over"} /\ ~req[r].gone
  /\ Cardinality({s \in Requests : req[s].gone}) < MaxGone
  /\ Step(r, [gone |-> TRUE])
  /\ UNCHANGED <<health, Admission, World>>

Flip ==
  /\ flips < MaxFlips /\ flips' = flips + 1 /\ up' = ~up
  /\ UNCHANGED <<req, Admission, health, limit, beats, expiries>>

\* Time passes: the cache is HealthCacheSeconds old, or a minute is over.
Expire ==
  /\ expiries < MaxExpiries /\ expiries' = expiries + 1
  /\ \/ health.fresh /\ health' = [health EXCEPT !.fresh = FALSE] /\ UNCHANGED used
     \/ /\ \E c \in Clients : used[c] > 0 /\ used' = [used EXCEPT ![c] = 0]
        /\ UNCHANGED health
  /\ UNCHANGED <<req, leases, waiting, limit, beats, up, flips>>

Serve(r) ==
  \/ CheckCache(r) \/ TakeProbeLock(r) \/ ProbeAnswered(r) \/ StoreProbe(r)
  \/ Acquire(r) \/ AbandonQueue(r) \/ Start(r)
  \/ BeginRound(r) \/ EndRound(r) \/ RunTool(r) \/ EndOfAnswer(r)
  \/ SkipFrame(r) \/ LockFrame(r) \/ WriteFrame(r)
  \/ Report(r) \/ Dispose(r)

Pulse(r) == LockBeat(r) \/ WriteBeat(r)

Quiet == (\A r \in Requests : At(r, "over") /\ req[r].beat # "waiting") /\ UNCHANGED vars

Next ==
  \/ \E r \in Requests : Arrive(r) \/ Serve(r) \/ Say(r) \/ Beat(r) \/ Pulse(r) \/ GoAway(r)
  \/ Flip \/ Expire
  \/ Quiet

Spec == Init /\ [][Next]_vars

\* Awaits end: a round and a tool by the request's deadline, a probe by its own, a write by the
\* server's minimum data rate, and a free lock by its first waiter.
FairSpec == Spec /\ \A r \in Requests : WF_vars(Serve(r)) /\ WF_vars(Pulse(r))

-----------------------------------------------------------------------------
(* Properties *)

\* The steps of a handler: before its stream, in its tool loop, and from its outcome on.
Early == {"idle", "cache", "lock", "probe", "probed", "acquire", "queued", "start"}
Looping == {"begin", "model", "tool", "end"}
Closing == {"close", "dispose"}

Replies == {"none", "rate_limited", "invalid", "ok", "llm_unavailable", "busy", "stream"}
Outcomes == {"none", "ok", "client_aborted", "llm_timeout", "llm_unavailable", "internal",
             "cms_unavailable", "tool_limit", "empty_answer"}

Handler ==
  [pc : Early \cup Looping \cup Closing \cup {"over"}, kind : {"chat", "health"},
   gone : BOOLEAN, reply : Replies, seen : BOOLEAN, rounds : Nat, tooled : BOOLEAN,
   answered : BOOLEAN, outcome : Outcomes, frame : {"none", "talk", "done", "error"},
   writers : {{}, {"loop"}, {"beat"}}, beat : {"off", "on", "waiting", "writing"},
   ending : {"none", "done", "error", "twice"}, unmeasured : Int, counted : Int]

Cache == [ready : BOOLEAN, fresh : BOOLEAN, prober : Requests \cup {NoOne},
          unheard : {"no", "marked", "inflight"}]

AgentTypeOK ==
  /\ req \in [Requests -> Handler] /\ \A r \in Requests : req[r].rounds <= MaxToolRounds + 1
  /\ leases \subseteq Requests /\ waiting \in Seq(Requests) /\ Len(waiting) <= limit
  /\ limit \in QueueLimits /\ used \in [Clients -> 0 .. RateLimit] /\ health \in Cache
  /\ beats \in 0 .. MaxBeats /\ up \in BOOLEAN
  /\ flips \in 0 .. MaxFlips /\ expiries \in 0 .. MaxExpiries

\* A permit is held exactly while a chat runs, at most Permits at a time, and no request waits
\* in the queue while a permit is free: no way out of the handler (an aborted wait, a stream
\* that cannot start, a failure in the loop) keeps its permit (Program.cs).
Running(r) == req[r].pc \in {"start"} \cup Looping \cup Closing
PermitsReturn ==
  /\ leases = {r \in Requests : Running(r)}
  /\ Cardinality(leases) <= Permits
  /\ waiting # <<>> => Cardinality(leases) = Permits

\* A stream whose client stayed ends with exactly one ending, the one of its outcome, whatever
\* failed on the way (AgentChatService.RunAsync and its catch clauses); the loop and the
\* heartbeat share the body, so its frames never interleave, and none is under way once the
\* response is complete (SseWriter).
StreamsEndWhole ==
  \A r \in Requests :
    /\ Cardinality(req[r].writers) <= 1
    /\ At(r, "over") => req[r].writers = {}
    /\ At(r, "over") /\ req[r].reply = "stream" /\ ~req[r].gone
         => req[r].ending = IF req[r].outcome = "ok" THEN "done" ELSE "error"

\* Every round is measured, and every run counted once, however it ends: the telemetry of a run
\* agrees with the rounds it made (InferenceTelemetryChatClient, RunAsync).
RunsAreAccounted ==
  \A r \in Requests :
    At(r, "over") => /\ req[r].unmeasured = 0
                     /\ req[r].counted = IF req[r].reply = "stream" THEN 1 ELSE 0

\* After a chat marked the model unavailable the cache says "ready" only from a probe that
\* began later - or that was under way when the mark was made (LlmHealth).
MarkIsHeard == health.ready => health.unheard # "marked"

\* Every request is answered: queues, locks and deadlines let none wait for ever.
EveryRequestEnds == \A r \in Requests : (~At(r, "idle")) ~> At(r, "over")
=============================================================================
