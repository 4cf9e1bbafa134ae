-------------------------- MODULE ChatAgent_proofs --------------------------
(***************************************************************************)
(* Theorems about ChatAgent, for any number of requests, permits, places   *)
(* in the queue and rounds.                                                *)
(*                                                                         *)
(*   AgentTypeCorrect     the type invariant                               *)
(*   PermitsAreReturned   a permit is held exactly while a chat runs       *)
(*   StreamsEnd           a stream ends whole, with one ending             *)
(*   RunsAreCounted       the telemetry counts every round and run         *)
(*   MarksAreHeard        a mark of the cache is only undone by a probe    *)
(*                                                                         *)
(* All follow from AgentInductive, which has three parts: what holds of    *)
(* each handler by itself (Sound), of the limiter and of the cache.  The   *)
(* lemmas of the first part say that a handler stays sound whatever step   *)
(* it takes; most steps then leave every request in its place, which is    *)
(* all that the other two parts depend on.                                 *)
(***************************************************************************)
EXTENDS ChatAgent, SequenceTheorems, FiniteSetTheorems, TLAPS

(* Before its stream a handler has written and counted nothing.            *)
EarlySound(h) ==
  h.pc \in Early =>
    /\ h.reply = "none" /\ h.frame = "none" /\ h.writers = {} /\ h.beat = "off"
    /\ h.ending = "none" /\ h.rounds = 0 /\ h.counted = 0

(* A round that may call tools is not the last.                            *)
RoundsSound(h) ==
  /\ h.rounds <= MaxToolRounds + 1
  /\ h.pc \in {"begin", "tool"} => h.rounds <= MaxToolRounds
  /\ h.pc = "model" /\ h.tooled => h.rounds <= MaxToolRounds

(* The stream has no ending before its outcome is known, and that of its   *)
(* outcome afterwards.                                                     *)
StreamSound(h) ==
  /\ h.pc \in Looping => h.reply = "stream" /\ h.ending = "none" /\ h.frame \in {"none", "talk"}
  /\ h.pc \in Closing => h.reply = "stream"
  /\ h.frame # "none" => h.pc \in {"model", "tool", "close"}
  /\ h.frame = "none" => "loop" \notin h.writers
  /\ h.beat = "writing" <=> "beat" \in h.writers
  /\ h.pc = "over" => h.writers = {}
  /\ h.pc \in Closing \cup {"over"} /\ h.reply = "stream" =>
       /\ h.outcome # "none"
       /\ h.outcome = "client_aborted" => h.gone
       /\ h.frame = "none" => h.gone \/ h.ending = Frame(h.outcome)
       /\ h.frame # "none" => h.ending = "none" /\ h.frame = Frame(h.outcome)

CountsSound(h) ==
  /\ h.unmeasured = IF h.pc = "model" THEN 1 ELSE 0
  /\ h.counted = IF h.pc = "dispose" \/ (h.pc = "over" /\ h.reply = "stream") THEN 1 ELSE 0

Sound(h) == h \in Handler /\ EarlySound(h) /\ RoundsSound(h) /\ StreamSound(h) /\ CountsSound(h)

(* Every permit belongs to a running chat, the queue holds the requests    *)
(* that wait, each once, and none waits beside a free permit.              *)
LimiterSound ==
  /\ leases = {r \in Requests : Running(r)}
  /\ Cardinality(leases) <= Permits
  /\ waiting \in Seq(Requests)
  /\ \A i \in DOMAIN waiting : At(waiting[i], "queued")
  /\ \A r \in Requests : At(r, "queued") => \E i \in DOMAIN waiting : waiting[i] = r
  /\ \A i, j \in DOMAIN waiting : waiting[i] = waiting[j] => i = j
  /\ Len(waiting) <= limit
  /\ waiting # <<>> => Cardinality(leases) = Permits

(* Who is at the probe holds its lock, and a mark made while nobody is     *)
(* there stays.                                                            *)
Probing(r) == req[r].pc \in {"probe", "probed"}
CacheSound ==
  /\ health \in Cache
  /\ \A r \in Requests : Probing(r) => health.prober = r
  /\ health.prober # NoOne => health.unheard # "marked"
  /\ health.ready => health.unheard # "marked"

HandlersSound == req \in [Requests -> Handler] /\ \A r \in Requests : Sound(req[r])

BoundsSound ==
  /\ limit \in QueueLimits /\ used \in [Clients -> 0 .. RateLimit]
  /\ beats \in 0 .. MaxBeats /\ up \in BOOLEAN
  /\ flips \in 0 .. MaxFlips /\ expiries \in 0 .. MaxExpiries

AgentInductive == HandlersSound /\ LimiterSound /\ CacheSound /\ BoundsSound

-----------------------------------------------------------------------------
(* The steps of a handler by itself.                                       *)

(* Any move before the stream starts, but for the start itself.            *)
LEMMA EarlyMove ==
  ASSUME NEW h, Sound(h), NEW g \in Handler, h.pc \in Early,
         \/ g.pc \in Early /\ g.reply = h.reply
         \/ g.pc = "over" /\ g.reply # "stream",
         g.frame = h.frame, g.writers = h.writers, g.beat = h.beat, g.ending = h.ending,
         g.rounds = h.rounds, g.counted = h.counted, g.unmeasured = h.unmeasured
  PROVE  Sound(g)
<1>1. h.pc \notin Looping \cup Closing /\ h.pc # "over" /\ g.pc \notin Looping \cup Closing
  BY DEF Early, Looping, Closing
<1>2. h.reply = "none" /\ h.frame = "none" /\ h.writers = {} /\ h.beat = "off" /\ h.ending = "none"
      /\ h.rounds = 0 /\ h.counted = 0 /\ h.unmeasured = 0
  BY <1>1 DEF Sound, EarlySound, CountsSound, Looping
<1>3. EarlySound(g)
  BY <1>2 DEF EarlySound, Early
<1>4. RoundsSound(g)
  BY <1>1, <1>2, AgentAssumption DEF RoundsSound, Looping
<1>5. StreamSound(g)
  BY <1>1, <1>2 DEF StreamSound
<1>6. CountsSound(g)
  BY <1>1, <1>2 DEF CountsSound, Looping, Closing
<1> QED
  BY <1>3, <1>4, <1>5, <1>6 DEF Sound

(* A move to another early step, or to the end without an answer.          *)
LEMMA GoesOn ==
  ASSUME NEW h, Sound(h), h.pc \in Early, NEW p \in Early \cup {"over"}
  PROVE  Sound(Changed(h, [pc |-> p]))
<1> DEFINE g == Changed(h, [pc |-> p])
<1>1. g \in Handler
  BY DEF Sound, Handler, Changed
<1>2. /\ g.pc = p /\ g.reply = h.reply /\ g.frame = h.frame /\ g.writers = h.writers
      /\ g.beat = h.beat /\ g.ending = h.ending /\ g.rounds = h.rounds
      /\ g.counted = h.counted /\ g.unmeasured = h.unmeasured
  BY DEF Sound, Handler, Changed
<1>3. h.reply # "stream"
  BY DEF Sound, EarlySound
<1> QED
  BY <1>1, <1>2, <1>3, EarlyMove

(* The end, with an answer that is no stream.                              *)
LEMMA IsRefused ==
  ASSUME NEW h, Sound(h), h.pc \in Early, NEW a \in Replies \ {"stream"}
  PROVE  Sound(Changed(h, [pc |-> "over", reply |-> a]))
<1> DEFINE g == Changed(h, [pc |-> "over", reply |-> a])
<1>1. g \in Handler
  BY DEF Sound, Handler, Changed
<1>2. /\ g.pc = "over" /\ g.reply = a /\ g.frame = h.frame /\ g.writers = h.writers
      /\ g.beat = h.beat /\ g.ending = h.ending /\ g.rounds = h.rounds
      /\ g.counted = h.counted /\ g.unmeasured = h.unmeasured
  BY DEF Sound, Handler, Changed
<1> QED
  BY <1>1, <1>2, EarlyMove

LEMMA AsksForHealth ==
  ASSUME NEW h, Sound(h), h.pc \in Early
  PROVE  Sound(Changed(h, [pc |-> "cache", kind |-> "health"]))
<1> DEFINE g == Changed(h, [pc |-> "cache", kind |-> "health"])
<1>1. g \in Handler
  BY DEF Sound, Handler, Changed, Early
<1>2. /\ g.pc = "cache" /\ g.reply = h.reply /\ g.frame = h.frame /\ g.writers = h.writers
      /\ g.beat = h.beat /\ g.ending = h.ending /\ g.rounds = h.rounds
      /\ g.counted = h.counted /\ g.unmeasured = h.unmeasured
  BY DEF Sound, Handler, Changed
<1> QED
  BY <1>1, <1>2, EarlyMove DEF Early

(* What a probe brought back.                                              *)
LEMMA SeesAnswer ==
  ASSUME NEW h, Sound(h), h.pc \in Early, NEW b \in BOOLEAN, NEW p \in Early
  PROVE  Sound(Changed(h, [pc |-> p, seen |-> b]))
<1> DEFINE g == Changed(h, [pc |-> p, seen |-> b])
<1>1. g \in Handler
  BY DEF Sound, Handler, Changed
<1>2. /\ g.pc = p /\ g.reply = h.reply /\ g.frame = h.frame /\ g.writers = h.writers
      /\ g.beat = h.beat /\ g.ending = h.ending /\ g.rounds = h.rounds
      /\ g.counted = h.counted /\ g.unmeasured = h.unmeasured
  BY DEF Sound, Handler, Changed
<1> QED
  BY <1>1, <1>2, EarlyMove

LEMMA IsTold ==
  ASSUME NEW h, Sound(h), h.pc \in Early, NEW b \in BOOLEAN, NEW a \in Replies \ {"stream"}
  PROVE  Sound(Changed(h, [seen |-> b, pc |-> "over", reply |-> a]))
<1> DEFINE g == Changed(h, [seen |-> b, pc |-> "over", reply |-> a])
<1>1. g \in Handler
  BY DEF Sound, Handler, Changed
<1>2. /\ g.pc = "over" /\ g.reply = a /\ g.frame = h.frame /\ g.writers = h.writers
      /\ g.beat = h.beat /\ g.ending = h.ending /\ g.rounds = h.rounds
      /\ g.counted = h.counted /\ g.unmeasured = h.unmeasured
  BY DEF Sound, Handler, Changed
<1> QED
  BY <1>1, <1>2, EarlyMove

(* The stream starts.                                                      *)
LEMMA Opens ==
  ASSUME NEW h, Sound(h), h.pc = "start"
  PROVE  Sound(Changed(h, Opened))
<1> DEFINE g == Changed(h, Opened)
<1>1. g \in Handler
  BY DEF Sound, Handler, Changed, Opened, Looping, Replies
<1>2. /\ g.pc = "begin" /\ g.reply = "stream" /\ g.beat = "on" /\ g.frame = h.frame
      /\ g.writers = h.writers /\ g.ending = h.ending /\ g.rounds = h.rounds
      /\ g.counted = h.counted /\ g.unmeasured = h.unmeasured
  BY DEF Sound, Handler, Changed, Opened
<1>3. h.frame = "none" /\ h.writers = {} /\ h.ending = "none" /\ h.rounds = 0 /\ h.counted = 0
      /\ h.unmeasured = 0
  BY DEF Sound, EarlySound, CountsSound, Early
<1>4. EarlySound(g) /\ CountsSound(g)
  BY <1>2, <1>3 DEF EarlySound, CountsSound, Early
<1>5. RoundsSound(g)
  BY <1>2, <1>3, AgentAssumption DEF RoundsSound
<1>6. StreamSound(g)
  BY <1>2, <1>3 DEF StreamSound, Looping, Closing
<1> QED
  BY <1>1, <1>4, <1>5, <1>6 DEF Sound

(* A round begins, with tools or without.                                  *)
LEMMA BeginsRound ==
  ASSUME NEW h, Sound(h), h.pc = "begin", h.frame = "none",
         NEW b \in BOOLEAN, b => h.rounds + 1 <= MaxToolRounds
  PROVE  Sound(Changed(h, [pc |-> "model", rounds |-> h.rounds + 1, tooled |-> b,
                           frame |-> "talk", unmeasured |-> h.unmeasured + 1]))
<1> DEFINE g == Changed(h, [pc |-> "model", rounds |-> h.rounds + 1, tooled |-> b,
                            frame |-> "talk", unmeasured |-> h.unmeasured + 1])
<1>1. h \in Handler /\ h.rounds + 1 \in Nat /\ h.unmeasured + 1 \in Int
  BY DEF Sound, Handler
<1>2. g \in Handler
  BY <1>1 DEF Changed, Handler, Looping
<1>3. /\ g.pc = "model" /\ g.rounds = h.rounds + 1 /\ g.tooled = b /\ g.frame = "talk"
      /\ g.unmeasured = h.unmeasured + 1 /\ g.reply = h.reply /\ g.writers = h.writers
      /\ g.beat = h.beat /\ g.ending = h.ending /\ g.counted = h.counted
  BY <1>1 DEF Changed, Handler
<1>4. /\ h.reply = "stream" /\ h.ending = "none" /\ h.counted = 0 /\ h.unmeasured = 0
      /\ h.rounds <= MaxToolRounds /\ h.rounds \in Nat
      /\ h.beat = "writing" <=> "beat" \in h.writers
  BY DEF Sound, Handler, StreamSound, RoundsSound, CountsSound, Looping
<1> HIDE DEF g
<1>5. EarlySound(g) /\ CountsSound(g)
  BY <1>3, <1>4 DEF EarlySound, CountsSound, Early
<1>6. RoundsSound(g)
  BY <1>3, <1>4, AgentAssumption DEF RoundsSound
<1>7. StreamSound(g)
  BY <1>3, <1>4 DEF StreamSound, Looping, Closing
<1>8. Sound(g)
  BY <1>2, <1>5, <1>6, <1>7 DEF Sound
<1> QED
  BY <1>8 DEF g

(* A piece of the answer.                                                  *)
LEMMA Says ==
  ASSUME NEW h, Sound(h), h.pc = "model", h.frame = "none", NEW b \in BOOLEAN
  PROVE  Sound(Changed(h, [answered |-> b, frame |-> "talk"]))
BY AgentAssumption
   DEF Sound, Changed, Handler, EarlySound, RoundsSound, StreamSound, CountsSound, Early,
       Looping, Closing, Replies, Outcomes

(* A round ends in calls of tools, or in the end of the answer.            *)
LEMMA CallsTools ==
  ASSUME NEW h, Sound(h), h.pc = "model", h.frame = "none", h.tooled
  PROVE  Sound(Changed(h, [pc |-> "tool", frame |-> "talk", unmeasured |-> h.unmeasured - 1]))
BY AgentAssumption
   DEF Sound, Changed, Handler, EarlySound, RoundsSound, StreamSound, CountsSound, Early,
       Looping, Closing, Replies, Outcomes

LEMMA EndsAnswer ==
  ASSUME NEW h, Sound(h), h.pc = "model", h.frame = "none"
  PROVE  Sound(Changed(h, [pc |-> "end", unmeasured |-> h.unmeasured - 1]))
BY AgentAssumption
   DEF Sound, Changed, Handler, EarlySound, RoundsSound, StreamSound, CountsSound, Early,
       Looping, Closing, Replies, Outcomes

(* The tools have answered.                                                *)
LEMMA BeginsAgain ==
  ASSUME NEW h, Sound(h), h.pc = "tool", h.frame = "none"
  PROVE  Sound(Changed(h, [pc |-> "begin"]))
BY AgentAssumption
   DEF Sound, Changed, Handler, EarlySound, RoundsSound, StreamSound, CountsSound, Early,
       Looping, Closing, Replies, Outcomes

(* The run is over, with some outcome.                                     *)
LEMMA Closes ==
  ASSUME NEW h, Sound(h), h.pc \in {"model", "tool", "end"}, h.frame = "none",
         NEW o \in Outcomes \ {"none"}, o = "client_aborted" => h.gone,
         NEW b \in BOOLEAN, NEW c \in BOOLEAN
  PROVE  Sound(Changed(h, [pc |-> "close", outcome |-> o, frame |-> Frame(o), answered |-> b,
                           tooled |-> c, unmeasured |-> 0]))
<1> DEFINE g == Changed(h, [pc |-> "close", outcome |-> o, frame |-> Frame(o), answered |-> b,
                            tooled |-> c, unmeasured |-> 0])
<1>1. Frame(o) \in {"none", "done", "error"} /\ (Frame(o) = "none" <=> o = "client_aborted")
  BY DEF Frame, Outcomes
<1>2. g \in Handler
  BY <1>1 DEF Sound, Changed, Handler, Closing
<1>3. /\ g.pc = "close" /\ g.outcome = o /\ g.frame = Frame(o) /\ g.unmeasured = 0
      /\ g.gone = h.gone /\ g.reply = h.reply /\ g.writers = h.writers /\ g.beat = h.beat
      /\ g.ending = h.ending /\ g.counted = h.counted /\ g.rounds = h.rounds
  BY DEF Sound, Changed, Handler
<1>4. StreamSound(g)
  BY <1>1, <1>3 DEF Sound, StreamSound, Looping, Closing, Outcomes
<1>5. EarlySound(g) /\ RoundsSound(g) /\ CountsSound(g)
  BY <1>1, <1>3 DEF Sound, EarlySound, RoundsSound, CountsSound, Early, Looping, Closing
<1> QED
  BY <1>2, <1>4, <1>5 DEF Sound

(* A frame is not written, for a client that is gone.                      *)
LEMMA Skips ==
  ASSUME NEW h, Sound(h), h.frame # "none", h.gone, "loop" \notin h.writers
  PROVE  Sound(Changed(h, [frame |-> "none"]))
BY AgentAssumption
   DEF Sound, Changed, Handler, EarlySound, RoundsSound, StreamSound, CountsSound, Early,
       Looping, Closing, Replies, Outcomes

(* The loop takes the lock of the stream.                                  *)
LEMMA LocksFrame ==
  ASSUME NEW h, Sound(h), h.frame # "none", h.writers = {}
  PROVE  Sound(Changed(h, [writers |-> h.writers \cup {"loop"}]))
<1>1. h.writers \cup {"loop"} = {"loop"}
  OBVIOUS
<1> QED
  BY <1>1, AgentAssumption
     DEF Sound, Changed, Handler, EarlySound, RoundsSound, StreamSound, CountsSound, Early,
         Looping, Closing, Replies, Outcomes

(* It writes its frame, which may be the ending of the stream.             *)
LEMMA WritesFrame ==
  ASSUME NEW h, Sound(h), "loop" \in h.writers,
         NEW x, x = IF ~h.gone /\ h.frame \in {"done", "error"} THEN h.frame ELSE h.ending
  PROVE  Sound(Changed(h, [writers |-> h.writers \ {"loop"}, frame |-> "none", ending |-> x]))
<1> DEFINE g == Changed(h, [writers |-> h.writers \ {"loop"}, frame |-> "none", ending |-> x])
<1>1. x \in {"none", "done", "error", "twice"}
  BY DEF Sound, Handler
<1>2. h.writers = {"loop"} /\ h.writers \ {"loop"} = {}
  BY DEF Sound, Handler
<1>3. g \in Handler
  BY <1>1, <1>2 DEF Sound, Changed, Handler
<1>4. /\ g.pc = h.pc /\ g.outcome = h.outcome /\ g.frame = "none" /\ g.unmeasured = h.unmeasured
      /\ g.gone = h.gone /\ g.reply = h.reply /\ g.writers = {} /\ g.beat = h.beat
      /\ g.ending = x /\ g.counted = h.counted /\ g.rounds = h.rounds /\ g.tooled = h.tooled
  BY <1>2 DEF Sound, Changed, Handler
<1>5. h.frame # "none" /\ h.pc \in {"model", "tool", "close"}
  BY DEF Sound, StreamSound
<1>6. h.pc \in Looping => g.ending = "none"
  BY <1>4, <1>5 DEF Sound, StreamSound, Looping
<1>7. h.pc = "close" => h.ending = "none" /\ h.frame = Frame(h.outcome) /\ h.outcome # "none"
  BY <1>5 DEF Sound, StreamSound, Closing
<1>8. h.pc = "close" => h.gone \/ x = Frame(h.outcome)
  BY <1>7 DEF Frame, Sound, Handler
<1>9. g.beat # "writing"
  BY <1>2, <1>4 DEF Sound, StreamSound
<1>10. StreamSound(g)
  BY <1>4, <1>5, <1>6, <1>7, <1>8, <1>9 DEF Sound, StreamSound, Looping, Closing
<1>11. EarlySound(g) /\ RoundsSound(g) /\ CountsSound(g)
  BY <1>4, <1>5 DEF Sound, EarlySound, RoundsSound, CountsSound, Early
<1> QED
  BY <1>3, <1>10, <1>11 DEF Sound

(* The heartbeat starts, writes and stops.                                 *)
LEMMA BeatStarts ==
  ASSUME NEW h, Sound(h), h.beat = "on"
  PROVE  Sound(Changed(h, [beat |-> "waiting"]))
BY AgentAssumption
   DEF Sound, Changed, Handler, EarlySound, RoundsSound, StreamSound, CountsSound, Early,
       Looping, Closing, Replies, Outcomes

LEMMA BeatStops ==
  ASSUME NEW h, Sound(h), h.beat = "waiting"
  PROVE  Sound(Changed(h, [beat |-> "off"]))
BY AgentAssumption
   DEF Sound, Changed, Handler, EarlySound, RoundsSound, StreamSound, CountsSound, Early,
       Looping, Closing, Replies, Outcomes

LEMMA LocksBeat ==
  ASSUME NEW h, Sound(h), h.beat = "waiting", h.writers = {}, h.pc # "over"
  PROVE  Sound(Changed(h, [beat |-> "writing", writers |-> h.writers \cup {"beat"}]))
<1>1. h.writers \cup {"beat"} = {"beat"}
  OBVIOUS
<1> QED
  BY <1>1, AgentAssumption
     DEF Sound, Changed, Handler, EarlySound, RoundsSound, StreamSound, CountsSound, Early,
         Looping, Closing, Replies, Outcomes

LEMMA WritesBeat ==
  ASSUME NEW h, Sound(h), h.beat = "writing", NEW b \in {"off", "on"}
  PROVE  Sound(Changed(h, [writers |-> h.writers \ {"beat"}, beat |-> b]))
<1>1. h.writers = {"beat"} /\ h.writers \ {"beat"} = {}
  BY DEF Sound, StreamSound, Handler
<1> QED
  BY <1>1, AgentAssumption
     DEF Sound, Changed, Handler, EarlySound, RoundsSound, StreamSound, CountsSound, Early,
         Looping, Closing, Replies, Outcomes

(* The outcome is recorded, then the stream is complete.                   *)
LEMMA Reports ==
  ASSUME NEW h, Sound(h), h.pc = "close", h.frame = "none"
  PROVE  Sound(Changed(h, [pc |-> "dispose", counted |-> h.counted + 1, rounds |-> 0,
                           beat |-> IF h.beat = "on" THEN "off" ELSE h.beat]))
<1> DEFINE b == IF h.beat = "on" THEN "off" ELSE h.beat
           g == Changed(h, [pc |-> "dispose", counted |-> h.counted + 1, rounds |-> 0,
                            beat |-> b])
<1>1. h \in Handler /\ h.counted \in Int /\ h.counted + 1 \in Int
  BY DEF Sound, Handler
<1>0. (b = "writing" <=> h.beat = "writing") /\ b \in {"off", "on", "waiting", "writing"}
  BY DEF Sound, Handler
<1> HIDE DEF b
<1>2. g \in Handler
  BY <1>0, <1>1 DEF Changed, Handler, Closing
<1>3. /\ g.pc = "dispose" /\ g.counted = h.counted + 1 /\ g.rounds = 0 /\ g.beat = b
      /\ g.outcome = h.outcome /\ g.frame = h.frame /\ g.unmeasured = h.unmeasured
      /\ g.reply = h.reply /\ g.writers = h.writers /\ g.ending = h.ending
      /\ g.tooled = h.tooled /\ g.gone = h.gone
  BY <1>1 DEF Changed, Handler
<1>4. h.reply = "stream" /\ h.counted = 0 /\ h.unmeasured = 0 /\ "loop" \notin h.writers
  BY DEF Sound, StreamSound, CountsSound, Closing
<1> HIDE DEF g
<1>6. EarlySound(g) /\ RoundsSound(g) /\ CountsSound(g)
  BY <1>3, <1>4, AgentAssumption DEF EarlySound, RoundsSound, CountsSound, Early
<1>7. StreamSound(g)
  BY <1>0, <1>3, <1>4 DEF Sound, StreamSound, Looping, Closing
<1>8. Sound(g)
  BY <1>2, <1>6, <1>7 DEF Sound
<1> QED
  BY <1>8 DEF g, b

LEMMA Disposes ==
  ASSUME NEW h, Sound(h), h.pc = "dispose", h.writers = {}
  PROVE  Sound(Changed(h, [pc |-> "over"]))
BY AgentAssumption
   DEF Sound, Changed, Handler, EarlySound, RoundsSound, StreamSound, CountsSound, Early,
       Looping, Closing, Replies, Outcomes

(* The client goes away.                                                   *)
LEMMA GoesType ==
  ASSUME NEW h \in Handler, NEW b \in BOOLEAN
  PROVE  Changed(h, [gone |-> b]) \in Handler /\ Changed(h, [gone |-> b]).gone = b
BY DEF Changed, Handler

LEMMA Goes ==
  ASSUME NEW h, Sound(h), NEW b \in BOOLEAN, b
  PROVE  Sound(Changed(h, [gone |-> b]))
<1> DEFINE g == Changed(h, [gone |-> b])
<1>1. g \in Handler
  BY GoesType DEF Sound
<1>2. /\ g.pc = h.pc /\ g.outcome = h.outcome /\ g.frame = h.frame /\ g.unmeasured = h.unmeasured
      /\ g.reply = h.reply /\ g.writers = h.writers /\ g.beat = h.beat /\ g.ending = h.ending
      /\ g.counted = h.counted /\ g.rounds = h.rounds /\ g.tooled = h.tooled
  BY DEF Sound, Changed, Handler
<1>3. g.gone
  BY GoesType DEF Sound
<1>4. StreamSound(g)
  BY <1>2, <1>3 DEF Sound, StreamSound
<1>5. EarlySound(g) /\ RoundsSound(g) /\ CountsSound(g)
  BY <1>2 DEF Sound, EarlySound, RoundsSound, CountsSound
<1> QED
  BY <1>1, <1>4, <1>5 DEF Sound

-----------------------------------------------------------------------------
(* What a step of one request does to the others, to the limiter and to    *)
(* the cache.                                                              *)

(* One handler moves; it stays sound, and the others stay as they are.     *)
LEMMA OneMoves ==
  ASSUME HandlersSound, NEW r \in Requests, NEW d, Step(r, d), Sound(Changed(req[r], d))
  PROVE  /\ HandlersSound' /\ req'[r] = Changed(req[r], d)
         /\ \A s \in Requests : s # r => req'[s] = req[s]
BY DEF HandlersSound, Step, With, Sound

(* The limiter stays sound while it is left alone and nobody starts to run *)
(* or to wait, or stops.                                                   *)
LEMMA LimiterStays ==
  ASSUME LimiterSound, UNCHANGED <<leases, waiting, limit>>,
         \A s \in Requests : Running(s)' = Running(s) /\ At(s, "queued")' = At(s, "queued")
  PROVE  LimiterSound'
<1>1. {s \in Requests : Running(s)}' = {s \in Requests : Running(s)}
  OBVIOUS
<1>2. DOMAIN waiting = 1 .. Len(waiting) /\ \A i \in DOMAIN waiting : waiting[i] \in Requests
  BY LenProperties, ElementOfSeq DEF LimiterSound
<1>3. \A i \in DOMAIN waiting : At(waiting[i], "queued")' = At(waiting[i], "queued")
  BY <1>2 DEF At
<1> QED
  BY <1>1, <1>2, <1>3 DEF LimiterSound, At

(* So does the cache while nobody goes to the probe.                       *)
LEMMA CacheStays ==
  ASSUME CacheSound, UNCHANGED health, \A s \in Requests : Probing(s)' => Probing(s)
  PROVE  CacheSound'
BY DEF CacheSound

(* Most steps leave everybody in place.                                    *)
Aside == {"idle", "cache", "lock", "acquire", "over"}
InPlace(p, q) ==
  \/ p = q
  \/ p \in Aside /\ q \in Aside
  \/ p \in {"start"} \cup Looping \cup Closing /\ q \in {"start"} \cup Looping \cup Closing
  \/ p \in {"probe", "probed"} /\ q \in {"probe", "probed"}

LEMMA StaysInPlace ==
  ASSUME HandlersSound, LimiterSound, NEW r \in Requests, NEW d, Step(r, d),
         Sound(Changed(req[r], d)), InPlace(req[r].pc, Changed(req[r], d).pc),
         UNCHANGED <<leases, waiting, limit>>
  PROVE  /\ HandlersSound' /\ LimiterSound'
         /\ \A s \in Requests : Probing(s)' => Probing(s)
<1>1. /\ HandlersSound' /\ req'[r] = Changed(req[r], d)
      /\ \A s \in Requests : s # r => req'[s] = req[s]
  BY OneMoves
<1>2. \A s \in Requests : Running(s)' = Running(s) /\ At(s, "queued")' = At(s, "queued")
  BY <1>1 DEF Running, At, InPlace, Aside, Looping, Closing
<1>3. \A s \in Requests : Probing(s)' => Probing(s)
  BY <1>1 DEF Probing, InPlace, Aside, Looping, Closing
<1> QED
  BY <1>1, <1>2, <1>3, LimiterStays

LEMMA StepKeeps ==
  ASSUME AgentInductive, NEW r \in Requests, NEW d, Step(r, d),
         Sound(Changed(req[r], d)), InPlace(req[r].pc, Changed(req[r], d).pc),
         UNCHANGED <<leases, waiting, limit, health>>, BoundsSound'
  PROVE  AgentInductive'
BY StaysInPlace, CacheStays DEF AgentInductive

(* A step of the tool loop or of the stream changes nothing else.          *)
LEMMA HandlerStep ==
  ASSUME AgentInductive, NEW r \in Requests, NEW d, Step(r, d),
         Sound(Changed(req[r], d)), InPlace(req[r].pc, Changed(req[r], d).pc),
         UNCHANGED <<health, Admission, World>>
  PROVE  AgentInductive'
<1>1. BoundsSound'
  BY DEF AgentInductive, BoundsSound, Admission, World
<1> QED
  BY <1>1, StepKeeps DEF Admission, World

-----------------------------------------------------------------------------
(* The steps of the agent, one by one.                                     *)

(* A request arrives.                                                      *)
LEMMA ArriveKeeps ==
  ASSUME AgentInductive, NEW r \in Requests, Arrive(r)
  PROVE  AgentInductive'
<1> USE DEF AgentInductive, World, Admission
<1>1. req[r].pc = "idle" /\ Sound(req[r]) /\ req[r] \in Handler
  BY DEF Arrive, At, HandlersSound, Sound
<1>2. BoundsSound'
  BY AgentAssumption DEF Arrive, BoundsSound
<1>3. ASSUME NEW a \in {"rate_limited", "invalid"}, Step(r, [pc |-> "over", reply |-> a])
      PROVE  AgentInductive'
  <2>1. Sound(Changed(req[r], [pc |-> "over", reply |-> a]))
    BY <1>1, IsRefused DEF Early, Replies
  <2>2. InPlace(req[r].pc, Changed(req[r], [pc |-> "over", reply |-> a]).pc)
    BY <1>1 DEF InPlace, Aside, Changed, Handler
  <2> QED
    BY <1>2, <1>3, <2>1, <2>2, StepKeeps DEF Arrive
<1>4. ASSUME Step(r, [pc |-> "cache"])
      PROVE  AgentInductive'
  <2>1. Sound(Changed(req[r], [pc |-> "cache"]))
    BY <1>1, GoesOn DEF Early
  <2>2. InPlace(req[r].pc, Changed(req[r], [pc |-> "cache"]).pc)
    BY <1>1 DEF InPlace, Aside, Changed, Handler
  <2> QED
    BY <1>2, <1>4, <2>1, <2>2, StepKeeps DEF Arrive
<1>5. ASSUME Step(r, [pc |-> "cache", kind |-> "health"])
      PROVE  AgentInductive'
  <2>1. Sound(Changed(req[r], [pc |-> "cache", kind |-> "health"]))
    BY <1>1, AsksForHealth DEF Early
  <2>2. InPlace(req[r].pc, Changed(req[r], [pc |-> "cache", kind |-> "health"]).pc)
    BY <1>1 DEF InPlace, Aside, Changed, Handler
  <2> QED
    BY <1>2, <1>5, <2>1, <2>2, StepKeeps DEF Arrive
<1> QED
  BY <1>3, <1>4, <1>5 DEF Arrive

(* The answer of IsReadyAsync sends a request on, or refuses it.           *)
LEMMA ToldSound ==
  ASSUME HandlersSound, LimiterSound, NEW r \in Requests, NEW b \in BOOLEAN, Told(r, b),
         req[r].pc \in {"cache", "lock", "probed"}, UNCHANGED <<leases, waiting, limit>>
  PROVE  /\ HandlersSound' /\ LimiterSound'
         /\ \A s \in Requests : Probing(s)' => Probing(s) /\ s # r
<1>1. Sound(req[r]) /\ req[r].pc \in Early /\ req[r] \in Handler
  BY DEF HandlersSound, Early, Sound
<1>2. FALSE \in BOOLEAN
  OBVIOUS
<1>3. PICK d : /\ Step(r, d) /\ Sound(Changed(req[r], d))
               /\ Changed(req[r], d).pc \in {"over", "acquire"}
  <2>1. ASSUME NEW a \in Replies \ {"stream"}, Step(r, [seen |-> FALSE, pc |-> "over", reply |-> a])
        PROVE  \E d : /\ Step(r, d) /\ Sound(Changed(req[r], d))
                      /\ Changed(req[r], d).pc \in {"over", "acquire"}
    <3>1. Sound(Changed(req[r], [seen |-> FALSE, pc |-> "over", reply |-> a]))
      BY <1>1, <1>2, IsTold
    <3>2. Changed(req[r], [seen |-> FALSE, pc |-> "over", reply |-> a]).pc = "over"
      BY <1>1 DEF Changed, Handler
    <3> QED
      BY <2>1, <3>1, <3>2
  <2>2. ASSUME Step(r, [seen |-> FALSE, pc |-> "acquire"])
        PROVE  \E d : /\ Step(r, d) /\ Sound(Changed(req[r], d))
                      /\ Changed(req[r], d).pc \in {"over", "acquire"}
    <3>1. Sound(Changed(req[r], [seen |-> FALSE, pc |-> "acquire"]))
      BY <1>1, <1>2, SeesAnswer DEF Early
    <3>2. Changed(req[r], [seen |-> FALSE, pc |-> "acquire"]).pc = "acquire"
      BY <1>1 DEF Changed, Handler
    <3> QED
      BY <2>2, <3>1, <3>2
  <2> QED
    BY <2>1, <2>2 DEF Told, Replies
<1>4. /\ HandlersSound' /\ req'[r] = Changed(req[r], d)
      /\ \A s \in Requests : s # r => req'[s] = req[s]
  BY <1>3, OneMoves
<1>5. \A s \in Requests : Running(s)' = Running(s) /\ At(s, "queued")' = At(s, "queued")
  BY <1>3, <1>4 DEF Running, At, Looping, Closing
<1>6. \A s \in Requests : Probing(s)' => Probing(s) /\ s # r
  BY <1>3, <1>4 DEF Probing
<1> QED
  BY <1>4, <1>5, <1>6, LimiterStays

LEMMA CheckCacheKeeps ==
  ASSUME AgentInductive, NEW r \in Requests, CheckCache(r)
  PROVE  AgentInductive'
<1> USE DEF AgentInductive, World, Admission
<1>1. req[r].pc = "cache" /\ Sound(req[r]) /\ req[r] \in Handler /\ health.ready \in BOOLEAN
  BY DEF CheckCache, At, HandlersSound, Sound, CacheSound, Cache
<1>2. BoundsSound'
  BY DEF CheckCache, BoundsSound
<1>3. CASE health.fresh
  BY <1>1, <1>2, <1>3, ToldSound, CacheStays DEF CheckCache
<1>4. CASE ~health.fresh
  <2>1. Sound(Changed(req[r], [pc |-> "lock"]))
    BY <1>1, GoesOn DEF Early
  <2>2. InPlace(req[r].pc, Changed(req[r], [pc |-> "lock"]).pc)
    BY <1>1 DEF InPlace, Aside, Changed, Handler
  <2> QED
    BY <1>2, <1>4, <2>1, <2>2, StepKeeps DEF CheckCache
<1> QED
  BY <1>3, <1>4

(* Only who holds the lock is at the probe, and it lets go of the lock     *)
(* with what it saw.                                                       *)
LEMMA TakeProbeLockKeeps ==
  ASSUME AgentInductive, NEW r \in Requests, TakeProbeLock(r)
  PROVE  AgentInductive'
<1> USE DEF AgentInductive, World, Admission
<1>1. req[r].pc = "lock" /\ Sound(req[r]) /\ req[r] \in Handler /\ health.ready \in BOOLEAN
  BY DEF TakeProbeLock, At, HandlersSound, Sound, CacheSound, Cache
<1>2. BoundsSound'
  BY DEF TakeProbeLock, BoundsSound
<1>3. CASE Step(r, [pc |-> "over"]) /\ UNCHANGED health
  <2>1. Sound(Changed(req[r], [pc |-> "over"]))
    BY <1>1, GoesOn DEF Early
  <2>2. InPlace(req[r].pc, Changed(req[r], [pc |-> "over"]).pc)
    BY <1>1 DEF InPlace, Aside, Changed, Handler
  <2> QED
    BY <1>2, <1>3, <2>1, <2>2, StepKeeps DEF TakeProbeLock
<1>4. CASE Told(r, health.ready) /\ UNCHANGED health
  BY <1>1, <1>2, <1>4, ToldSound, CacheStays DEF TakeProbeLock
<1>5. CASE /\ health.prober = NoOne /\ Step(r, [pc |-> "probe"])
           /\ health' = [health EXCEPT !.prober = r, !.unheard = "no"]
  <2>1. Sound(Changed(req[r], [pc |-> "probe"]))
    BY <1>1, GoesOn DEF Early
  <2>2. Changed(req[r], [pc |-> "probe"]).pc = "probe"
    BY <1>1 DEF Changed, Handler
  <2>3. /\ HandlersSound' /\ req'[r] = Changed(req[r], [pc |-> "probe"])
        /\ \A s \in Requests : s # r => req'[s] = req[s]
    BY <1>5, <2>1, OneMoves
  <2>4. \A s \in Requests : Running(s)' = Running(s) /\ At(s, "queued")' = At(s, "queued")
    BY <1>1, <2>2, <2>3 DEF Running, At, Looping, Closing
  <2>5. LimiterSound'
    BY <2>4, LimiterStays DEF TakeProbeLock
  <2>6. \A s \in Requests : Probing(s)' => s = r
    BY <1>5, <2>3 DEF CacheSound, Probing, Requests, NoOne
  <2>7. CacheSound'
    BY <1>5, <2>6 DEF CacheSound, Cache
  <2> QED
    BY <1>2, <2>3, <2>5, <2>7
<1> QED
  BY <1>3, <1>4, <1>5 DEF TakeProbeLock

LEMMA ProbeAnsweredKeeps ==
  ASSUME AgentInductive, NEW r \in Requests, ProbeAnswered(r)
  PROVE  AgentInductive'
<1>1. req[r].pc = "probe" /\ Sound(req[r]) /\ req[r] \in Handler
  BY DEF ProbeAnswered, At, AgentInductive, HandlersSound, Sound
<1>2. PICK b \in BOOLEAN : Step(r, [pc |-> "probed", seen |-> b])
  BY DEF ProbeAnswered
<1>3. Sound(Changed(req[r], [pc |-> "probed", seen |-> b]))
  BY <1>1, SeesAnswer DEF Early
<1>4. InPlace(req[r].pc, Changed(req[r], [pc |-> "probed", seen |-> b]).pc)
  BY <1>1 DEF InPlace, Changed, Handler
<1> QED
  BY <1>2, <1>3, <1>4, HandlerStep DEF ProbeAnswered

LEMMA StoreProbeKeeps ==
  ASSUME AgentInductive, NEW r \in Requests, StoreProbe(r)
  PROVE  AgentInductive'
<1> USE DEF AgentInductive, World, Admission
<1>1. /\ req[r].pc = "probed" /\ Sound(req[r]) /\ req[r].seen \in BOOLEAN
      /\ health.prober = r /\ health.unheard # "marked"
  BY DEF StoreProbe, At, HandlersSound, Sound, Handler, CacheSound, Probing, Requests, NoOne
<1>2. BoundsSound'
  BY DEF StoreProbe, BoundsSound
<1>3. /\ HandlersSound' /\ LimiterSound'
      /\ \A s \in Requests : Probing(s)' => Probing(s) /\ s # r
  BY <1>1, ToldSound DEF StoreProbe
<1>4. \A s \in Requests : ~Probing(s)'
  BY <1>1, <1>3 DEF CacheSound
<1>5. health' \in Cache /\ health'.unheard = health.unheard
  BY <1>1 DEF StoreProbe, CacheSound, Cache
<1>6. CacheSound'
  BY <1>1, <1>4, <1>5 DEF CacheSound
<1> QED
  BY <1>2, <1>3, <1>6

-----------------------------------------------------------------------------
(* The limiter.                                                            *)

LEMMA LeasesFinite ==
  ASSUME LimiterSound
  PROVE  leases \subseteq Requests /\ IsFiniteSet(leases) /\ Cardinality(leases) \in Nat
<1>1. leases \subseteq Requests
  BY DEF LimiterSound
<1>2. IsFiniteSet(Requests)
  BY FS_Interval, AgentAssumption DEF Requests
<1> QED
  BY <1>1, <1>2, FS_Subset, FS_CardinalityType

LEMMA Shift ==
  ASSUME NEW n \in Int, NEW i \in Int, NEW k \in Int, k >= i, k <= (i - 1) + (n - i)
  PROVE  k - (i - 1) \in 1 .. n - i /\ i + (k - (i - 1)) = k + 1 /\ ~(k <= i - 1)
OBVIOUS

(* A queue without its place i: the order and the others stay.             *)
LEMMA WithoutPlace ==
  ASSUME NEW S, NEW q \in Seq(S), NEW i \in DOMAIN q
  PROVE  LET p == SubSeq(q, 1, i - 1) \o SubSeq(q, i + 1, Len(q))
         IN  /\ p \in Seq(S)
             /\ Len(p) = Len(q) - 1
             /\ \A k \in 1 .. Len(p) : p[k] = IF k < i THEN q[k] ELSE q[k + 1]
<1> DEFINE a == SubSeq(q, 1, i - 1)
           b == SubSeq(q, i + 1, Len(q))
<1>1. Len(q) \in Nat /\ DOMAIN q = 1 .. Len(q) /\ i \in 1 .. Len(q)
  BY LenProperties
<1>2. \A k \in 1 .. Len(q) : q[k] \in S
  BY <1>1, ElementOfSeq
<1>3. a \in Seq(S) /\ Len(a) = i - 1 /\ \A k \in 1 .. i - 1 : a[k] = q[k]
  <2>1. \A k \in 1 .. i - 1 : q[k] \in S
    BY <1>1, <1>2
  <2>2. /\ SubSeq(q, 1, i - 1) \in Seq(S)
        /\ Len(SubSeq(q, 1, i - 1)) = IF 1 <= i - 1 THEN i - 1 - 1 + 1 ELSE 0
        /\ \A k \in 1 .. i - 1 - 1 + 1 : SubSeq(q, 1, i - 1)[k] = q[1 + k - 1]
    BY <1>1, <2>1, SubSeqProperties
  <2> QED
    BY <1>1, <2>2
<1>4. b \in Seq(S) /\ Len(b) = Len(q) - i /\ \A k \in 1 .. Len(q) - i : b[k] = q[i + k]
  <2>1. \A k \in i + 1 .. Len(q) : q[k] \in S
    BY <1>1, <1>2
  <2>2. /\ SubSeq(q, i + 1, Len(q)) \in Seq(S)
        /\ Len(SubSeq(q, i + 1, Len(q))) = IF i + 1 <= Len(q) THEN Len(q) - (i + 1) + 1 ELSE 0
        /\ \A k \in 1 .. Len(q) - (i + 1) + 1 : SubSeq(q, i + 1, Len(q))[k] = q[(i + 1) + k - 1]
    BY <1>1, <2>1, SubSeqProperties
  <2> QED
    BY <1>1, <2>2
<1> HIDE DEF a, b
<1>5. /\ a \o b \in Seq(S) /\ Len(a \o b) = Len(a) + Len(b)
      /\ \A k \in 1 .. Len(a) + Len(b) : (a \o b)[k] = IF k <= Len(a) THEN a[k] ELSE b[k - Len(a)]
  <2>1. a \in Seq(S) /\ b \in Seq(S)
    BY <1>3, <1>4
  <2> QED
    BY <2>1, ConcatProperties
<1>6. Len(a \o b) = Len(q) - 1
  BY <1>1, <1>3, <1>4, <1>5
<1>7. ASSUME NEW k \in 1 .. Len(a \o b)
      PROVE  (a \o b)[k] = IF k < i THEN q[k] ELSE q[k + 1]
  <2>1. k \in 1 .. Len(a) + Len(b) /\ k \in Int
    BY <1>1, <1>5, <1>6
  <2>2. CASE k < i
    <3>1. k \in 1 .. i - 1
      BY <1>1, <2>1, <2>2
    <3> QED
      BY <1>1, <1>3, <1>5, <2>1, <2>2, <3>1
  <2>3. CASE ~(k < i)
    <3>1. k - Len(a) \in 1 .. Len(q) - i /\ i + (k - Len(a)) = k + 1 /\ ~(k <= Len(a))
      <4>1. Len(a) = i - 1 /\ Len(b) = Len(q) - i
        BY <1>3, <1>4
      <4>2. i \in Int /\ Len(q) \in Int
        BY <1>1
      <4>3. k <= (i - 1) + (Len(q) - i)
        BY <2>1, <4>1, <4>2
      <4>4. k \in Int /\ k >= i
        BY <2>1, <2>3, <4>2
      <4>5. k - (i - 1) \in 1 .. Len(q) - i /\ i + (k - (i - 1)) = k + 1 /\ ~(k <= i - 1)
        BY <4>2, <4>3, <4>4, Shift
      <4> QED
        BY <4>1, <4>5
    <3>2. b[k - Len(a)] = q[i + (k - Len(a))]
      BY <1>4, <3>1
    <3>3. b[k - Len(a)] = q[k + 1]
      BY <3>1, <3>2
    <3>4. (a \o b)[k] = b[k - Len(a)]
      BY <1>5, <2>1, <3>1
    <3> QED
      BY <2>3, <3>3, <3>4
  <2> QED
    BY <2>2, <2>3
<1> QED
  BY <1>5, <1>6, <1>7 DEF a, b

LEMMA AcquireKeeps ==
  ASSUME AgentInductive, NEW r \in Requests, Acquire(r)
  PROVE  AgentInductive'
<1> USE DEF AgentInductive, World
<1>1. req[r].pc = "acquire" /\ Sound(req[r]) /\ req[r] \in Handler
  BY DEF Acquire, At, HandlersSound, Sound
<1>2. BoundsSound'
  BY DEF Acquire, BoundsSound
<1>3. waiting \in Seq(Requests) /\ DOMAIN waiting = 1 .. Len(waiting) /\ Len(waiting) \in Nat
  BY LenProperties DEF LimiterSound
<1>4. /\ leases = {s \in Requests : Running(s)} /\ IsFiniteSet(leases)
      /\ Cardinality(leases) \in Nat /\ Permits \in Nat /\ limit \in Nat
  BY LeasesFinite, AgentAssumption DEF LimiterSound, BoundsSound
<1>5. r \notin leases /\ ~Probing(r) /\ \A i \in DOMAIN waiting : waiting[i] # r
  BY <1>1, <1>4 DEF Running, Probing, Looping, Closing, LimiterSound, At
<1>6. CASE Step(r, [pc |-> "over"]) /\ UNCHANGED <<leases, waiting>>
  <2>1. Sound(Changed(req[r], [pc |-> "over"]))
    BY <1>1, GoesOn DEF Early
  <2>2. InPlace(req[r].pc, Changed(req[r], [pc |-> "over"]).pc)
    BY <1>1 DEF InPlace, Aside, Changed, Handler
  <2> QED
    BY <1>2, <1>6, <2>1, <2>2, StepKeeps DEF Acquire
<1>7. CASE Step(r, [pc |-> "over", reply |-> "busy"]) /\ UNCHANGED <<leases, waiting>>
  <2>1. Sound(Changed(req[r], [pc |-> "over", reply |-> "busy"]))
    BY <1>1, IsRefused DEF Early, Replies
  <2>2. InPlace(req[r].pc, Changed(req[r], [pc |-> "over", reply |-> "busy"]).pc)
    BY <1>1 DEF InPlace, Aside, Changed, Handler
  <2> QED
    BY <1>2, <1>7, <2>1, <2>2, StepKeeps DEF Acquire
<1>8. ASSUME NEW p \in {"start", "queued"}, Step(r, [pc |-> p])
      PROVE  /\ HandlersSound' /\ req'[r].pc = p
             /\ \A s \in Requests : s # r => req'[s] = req[s]
             /\ CacheSound'
  <2>a. Sound(Changed(req[r], [pc |-> p]))
    BY <1>1, GoesOn DEF Early
  <2>b. Changed(req[r], [pc |-> p]).pc = p
    BY <1>1 DEF Changed, Handler
  <2>1. Sound(Changed(req[r], [pc |-> p])) /\ Changed(req[r], [pc |-> p]).pc = p
    BY <2>a, <2>b
  <2>2. /\ HandlersSound' /\ req'[r] = Changed(req[r], [pc |-> p])
        /\ \A s \in Requests : s # r => req'[s] = req[s]
    BY <1>8, <2>1, OneMoves
  <2>3. \A s \in Requests : Probing(s)' => Probing(s)
    BY <2>1, <2>2 DEF Probing
  <2> QED
    BY <2>1, <2>2, <2>3, CacheStays DEF Acquire
<1>9. CASE /\ Cardinality(leases) < Permits /\ waiting = <<>> /\ UNCHANGED waiting
           /\ leases' = leases \cup {r} /\ Step(r, [pc |-> "start"])
  <2>1. /\ HandlersSound' /\ CacheSound' /\ req'[r].pc = "start"
        /\ \A s \in Requests : s # r => req'[s] = req[s]
    BY <1>8, <1>9
  <2>2. leases' = {s \in Requests : Running(s)}'
    BY <1>4, <1>9, <2>1 DEF Running
  <2>3. Cardinality(leases') <= Permits
    <3>1. Cardinality(leases \cup {r}) = Cardinality(leases) + 1
      BY <1>4, <1>5, FS_AddElement
    <3> QED
      BY <1>4, <1>9, <3>1
  <2>4. \A s \in Requests : At(s, "queued")' = At(s, "queued")
    BY <1>1, <2>1 DEF At
  <2>5. LimiterSound'
    BY <1>3, <1>9, <2>2, <2>3, <2>4 DEF LimiterSound, Acquire
  <2> QED
    BY <1>2, <2>1, <2>5
<1>10. CASE /\ Cardinality(leases) >= Permits \/ waiting # <<>>
            /\ Len(waiting) < limit /\ UNCHANGED leases
            /\ waiting' = Append(waiting, r) /\ Step(r, [pc |-> "queued"])
  <2>1. /\ HandlersSound' /\ CacheSound' /\ req'[r].pc = "queued"
        /\ \A s \in Requests : s # r => req'[s] = req[s]
    BY <1>8, <1>10
  <2>2. leases' = {s \in Requests : Running(s)}'
    BY <1>4, <1>5, <1>10, <2>1 DEF Running, Looping, Closing
  <2>3. Cardinality(leases) = Permits
    BY <1>4, <1>10 DEF LimiterSound
  <2>4. /\ waiting' \in Seq(Requests) /\ Len(waiting') = Len(waiting) + 1
        /\ DOMAIN waiting' = 1 .. Len(waiting')
        /\ \A i \in 1 .. Len(waiting) : waiting'[i] = waiting[i]
        /\ waiting'[Len(waiting) + 1] = r
    BY <1>3, <1>10, AppendProperties, LenProperties
  <2>5. \A i \in DOMAIN waiting' : i \in DOMAIN waiting \/ i = Len(waiting) + 1
    BY <1>3, <2>4
  <2>6. ASSUME NEW i \in DOMAIN waiting'
        PROVE  req'[waiting'[i]].pc = "queued"
    <3>1. CASE i = Len(waiting) + 1
      BY <2>1, <2>4, <3>1
    <3>2. CASE i \in DOMAIN waiting
      <4>1. waiting'[i] = waiting[i] /\ waiting[i] \in Requests /\ waiting[i] # r
        BY <1>3, <1>5, <2>4, <3>2, ElementOfSeq
      <4>2. req[waiting[i]].pc = "queued"
        BY <3>2 DEF LimiterSound, At
      <4> QED
        BY <2>1, <4>1, <4>2
    <3> QED
      BY <2>5, <3>1, <3>2
  <2>7. ASSUME NEW s \in Requests, req'[s].pc = "queued"
        PROVE  \E i \in DOMAIN waiting' : waiting'[i] = s
    <3>1. CASE s = r
      BY <1>3, <2>4, <3>1
    <3>2. CASE s # r
      <4>1. At(s, "queued")
        BY <2>1, <2>7, <3>2 DEF At
      <4>2. PICK i \in DOMAIN waiting : waiting[i] = s
        BY <4>1 DEF LimiterSound
      <4> QED
        BY <1>3, <2>4, <4>2
    <3> QED
      BY <3>1, <3>2
  <2>8. \A i, j \in DOMAIN waiting' : waiting'[i] = waiting'[j] => i = j
    BY <1>3, <1>5, <2>4, <2>5 DEF LimiterSound
  <2>9. Len(waiting') <= limit
    BY <1>3, <1>4, <1>10, <2>4
  <2>10. limit' = limit /\ leases' = leases
    BY <1>10 DEF Acquire
  <2>11. LimiterSound'
    BY <1>4, <2>2, <2>3, <2>4, <2>6, <2>7, <2>8, <2>9, <2>10 DEF LimiterSound, At
  <2> QED
    BY <1>2, <2>1, <2>11
<1> QED
  BY <1>6, <1>7, <1>9, <1>10 DEF Acquire

(* A cancelled wait leaves the queue; the others keep their order.         *)
LEMMA AbandonQueueKeeps ==
  ASSUME AgentInductive, NEW r \in Requests, AbandonQueue(r)
  PROVE  AgentInductive'
<1> USE DEF AgentInductive, World
<1>1. req[r].pc = "queued" /\ Sound(req[r]) /\ req[r] \in Handler
  BY DEF AbandonQueue, At, HandlersSound, Sound
<1>2. BoundsSound'
  BY DEF AbandonQueue, BoundsSound
<1>3. waiting \in Seq(Requests) /\ DOMAIN waiting = 1 .. Len(waiting) /\ Len(waiting) \in Nat
  BY LenProperties DEF LimiterSound
<1>4. PICK i \in DOMAIN waiting :
        /\ waiting[i] = r
        /\ waiting' = SubSeq(waiting, 1, i - 1) \o SubSeq(waiting, i + 1, Len(waiting))
  BY DEF AbandonQueue
<1>5. /\ waiting' \in Seq(Requests) /\ Len(waiting') = Len(waiting) - 1
      /\ \A k \in 1 .. Len(waiting') :
           waiting'[k] = IF k < i THEN waiting[k] ELSE waiting[k + 1]
  BY <1>3, <1>4, WithoutPlace
<1>6. DOMAIN waiting' = 1 .. Len(waiting')
  BY <1>5, LenProperties
<1>7. Sound(Changed(req[r], [pc |-> "over"])) /\ Changed(req[r], [pc |-> "over"]).pc = "over"
  <2>1. Sound(Changed(req[r], [pc |-> "over"]))
    BY <1>1, GoesOn DEF Early
  <2>2. Changed(req[r], [pc |-> "over"]).pc = "over"
    BY <1>1 DEF Changed, Handler
  <2> QED
    BY <2>1, <2>2
<1>8. /\ HandlersSound' /\ req'[r].pc = "over"
      /\ \A s \in Requests : s # r => req'[s] = req[s]
  BY <1>7, OneMoves DEF AbandonQueue
<1>9. CacheSound'
  <2>1. \A s \in Requests : Probing(s)' => Probing(s)
    BY <1>8 DEF Probing
  <2> QED
    BY <2>1, CacheStays DEF AbandonQueue
<1>10. leases' = {s \in Requests : Running(s)}'
  <2>1. ~Running(r) /\ ~Running(r)'
    BY <1>1, <1>8 DEF Running, Looping, Closing
  <2>2. \A s \in Requests : Running(s)' <=> Running(s)
    BY <1>8, <2>1 DEF Running
  <2>3. leases' = leases /\ leases = {s \in Requests : Running(s)}
    BY DEF AbandonQueue, LimiterSound
  <2> QED
    BY <2>2, <2>3
<1>11. ASSUME NEW k \in DOMAIN waiting'
       PROVE  \E j \in DOMAIN waiting : /\ j # i /\ waiting'[k] = waiting[j]
                                        /\ j = IF k < i THEN k ELSE k + 1
  <2>1. CASE k < i
    <3>1. k \in DOMAIN waiting /\ k # i
      BY <1>3, <1>4, <1>5, <1>6, <2>1
    <3> QED
      BY <1>5, <1>6, <2>1, <3>1
  <2>2. CASE ~(k < i)
    <3>1. k + 1 \in DOMAIN waiting /\ k + 1 # i
      BY <1>3, <1>4, <1>5, <1>6, <2>2
    <3> QED
      BY <1>5, <1>6, <2>2, <3>1
  <2> QED
    BY <2>1, <2>2
<1>12. ASSUME NEW k \in DOMAIN waiting'
       PROVE  req'[waiting'[k]].pc = "queued"
  <2>1. PICK j \in DOMAIN waiting : j # i /\ waiting'[k] = waiting[j]
    BY <1>11
  <2>2. waiting[j] # r /\ waiting[j] \in Requests /\ req[waiting[j]].pc = "queued"
    BY <1>3, <1>4, <2>1, ElementOfSeq DEF LimiterSound, At
  <2> QED
    BY <1>8, <2>1, <2>2
<1>13. ASSUME NEW s \in Requests, req'[s].pc = "queued"
       PROVE  \E k \in DOMAIN waiting' : waiting'[k] = s
  <2>1. s # r /\ At(s, "queued")
    BY <1>8, <1>13 DEF At
  <2>2. PICK j \in DOMAIN waiting : waiting[j] = s
    BY <2>1 DEF LimiterSound
  <2>3. j # i
    BY <1>4, <2>1, <2>2
  <2>4. CASE j < i
    <3>1. j \in DOMAIN waiting'
      BY <1>3, <1>4, <1>5, <1>6, <2>4
    <3> QED
      BY <1>5, <1>6, <2>2, <2>4, <3>1
  <2>5. CASE j > i
    <3>1. j - 1 \in DOMAIN waiting' /\ ~(j - 1 < i) /\ (j - 1) + 1 = j
      BY <1>3, <1>4, <1>5, <1>6, <2>5
    <3>2. waiting'[j - 1] = waiting[(j - 1) + 1]
      BY <1>5, <1>6, <3>1
    <3> QED
      BY <2>2, <3>1, <3>2
  <2>6. i \in Int /\ j \in Int
    BY <1>3
  <2> QED
    BY <2>3, <2>4, <2>5, <2>6
<1>14. ASSUME NEW k \in DOMAIN waiting', NEW l \in DOMAIN waiting', waiting'[k] = waiting'[l]
       PROVE  k = l
  <2>1. PICK a \in DOMAIN waiting : waiting'[k] = waiting[a] /\ a = IF k < i THEN k ELSE k + 1
    BY <1>11
  <2>2. PICK b \in DOMAIN waiting : waiting'[l] = waiting[b] /\ b = IF l < i THEN l ELSE l + 1
    BY <1>11
  <2>3. a = b
    BY <1>14, <2>1, <2>2 DEF LimiterSound
  <2>4. i \in Int /\ k \in Int /\ l \in Int
    BY <1>3, <1>5, <1>6
  <2> QED
    BY <2>1, <2>2, <2>3, <2>4
<1>15. /\ waiting # <<>> /\ leases' = leases /\ limit' = limit /\ limit \in Nat
       /\ Len(waiting') <= limit
  <2>1. leases' = leases /\ limit' = limit
    BY DEF AbandonQueue
  <2>2. limit \in Nat
    BY AgentAssumption DEF BoundsSound
  <2>3. Len(waiting) # 0
    BY <1>3, <1>4
  <2>4. waiting # <<>>
    BY <2>3
  <2>5. Len(waiting) <= limit
    BY DEF LimiterSound
  <2>6. Len(waiting') <= limit
    BY <1>3, <1>5, <2>2, <2>5
  <2> QED
    BY <2>1, <2>2, <2>4, <2>6
<1>16. LimiterSound'
  BY <1>5, <1>10, <1>12, <1>13, <1>14, <1>15 DEF LimiterSound, At
<1> QED
  BY <1>2, <1>8, <1>9, <1>16

(* A handler that ends gives its permit back, and to the oldest request    *)
(* that waits.                                                             *)
LEMMA LeaveKeeps ==
  ASSUME AgentInductive, NEW r \in Requests, Running(r), Leave(r, [pc |-> "over"]),
         Sound(Changed(req[r], [pc |-> "over"])), UNCHANGED <<health, used, World>>
  PROVE  AgentInductive'
<1> USE DEF AgentInductive
<1> DEFINE d == [pc |-> "over"]
<1>1. BoundsSound' /\ limit' = limit
  BY DEF BoundsSound, World
<1>2. waiting \in Seq(Requests) /\ DOMAIN waiting = 1 .. Len(waiting) /\ Len(waiting) \in Nat
  BY LenProperties DEF LimiterSound
<1>3. /\ leases = {s \in Requests : Running(s)} /\ IsFiniteSet(leases) /\ r \in leases
      /\ Cardinality(leases) \in Nat /\ Permits \in Nat /\ limit \in Nat
  BY LeasesFinite, AgentAssumption DEF LimiterSound, BoundsSound
<1>4. /\ req \in [Requests -> Handler] /\ Changed(req[r], d) \in Handler
      /\ Changed(req[r], d).pc = "over"
  BY DEF HandlersSound, Sound, Changed, Handler
<1>5. /\ IsFiniteSet(leases \ {r}) /\ Cardinality(leases \ {r}) = Cardinality(leases) - 1
      /\ ~Probing(r) /\ ~At(r, "queued")
  BY <1>3, FS_RemoveElement DEF Running, Probing, At, Looping, Closing
<1>6. CASE waiting = <<>>
  <2>1. Step(r, d) /\ leases' = leases \ {r} /\ waiting' = waiting
    BY <1>6 DEF Leave
  <2>2. /\ HandlersSound' /\ req'[r].pc = "over"
        /\ \A s \in Requests : s # r => req'[s] = req[s]
    BY <1>4, <2>1, OneMoves
  <2>3. leases' = {s \in Requests : Running(s)}'
    BY <1>3, <2>1, <2>2 DEF Running, Looping, Closing
  <2>4. \A s \in Requests : At(s, "queued")' => At(s, "queued")
    BY <2>2 DEF At
  <2>5. Cardinality(leases') <= Permits
    BY <1>3, <1>5, <2>1 DEF LimiterSound
  <2>6. LimiterSound'
    BY <1>1, <1>2, <1>6, <2>1, <2>3, <2>4, <2>5 DEF LimiterSound
  <2>7. \A s \in Requests : Probing(s)' => Probing(s)
    BY <2>2 DEF Probing
  <2> QED
    BY <1>1, <2>2, <2>6, <2>7, CacheStays
<1>7. CASE waiting # <<>>
  <2> DEFINE w == Head(waiting)
  <2>1. /\ leases' = (leases \ {r}) \cup {w} /\ waiting' = Tail(waiting)
        /\ req' = [With(r, d) EXCEPT ![w].pc = "start"]
    BY <1>7 DEF Leave
  <2>2. w = waiting[1] /\ 1 \in DOMAIN waiting /\ w \in Requests
    BY <1>2, <1>7, EmptySeq, ElementOfSeq
  <2>3. req[w].pc = "queued" /\ w # r /\ w \notin leases
    BY <1>3, <1>5, <2>2 DEF LimiterSound, At, Running, Looping, Closing
  <2> HIDE DEF w
  <2>4. /\ req'[r] = Changed(req[r], d) /\ req'[w] = [req[w] EXCEPT !.pc = "start"]
        /\ \A s \in Requests \ {r, w} : req'[s] = req[s]
        /\ req' = [s \in Requests |-> req'[s]]
    BY <1>4, <2>1, <2>2, <2>3 DEF With
  <2>5. Sound(req'[w]) /\ req'[w].pc = "start"
    <3> DEFINE h == req[w]
               g == [h EXCEPT !.pc = "start"]
    <3>1. Sound(h) /\ h \in Handler /\ h.pc \in Early
      BY <2>2, <2>3 DEF HandlersSound, Sound, Early
    <3> HIDE DEF h
    <3>2. /\ g \in Handler /\ g.pc = "start" /\ g.reply = h.reply
          /\ g.frame = h.frame /\ g.writers = h.writers /\ g.beat = h.beat /\ g.ending = h.ending
          /\ g.rounds = h.rounds /\ g.counted = h.counted /\ g.unmeasured = h.unmeasured
      BY <3>1 DEF Handler, Early
    <3>3. Sound(g)
      BY <3>1, <3>2, EarlyMove DEF Early
    <3> QED
      BY <2>4, <3>2, <3>3 DEF h
  <2>6. HandlersSound'
    <3>1. \A s \in Requests : Sound(req'[s])
      BY <2>4, <2>5 DEF HandlersSound
    <3> QED
      BY <2>4, <3>1 DEF HandlersSound, Sound
  <2>7. leases' = {s \in Requests : Running(s)}'
    BY <1>3, <1>4, <2>1, <2>2, <2>4, <2>5 DEF Running, Looping, Closing
  <2>8. Cardinality(leases') = Cardinality(leases) /\ Cardinality(leases) = Permits
    <3>1. Cardinality((leases \ {r}) \cup {w}) = Cardinality(leases \ {r}) + 1
      BY <1>5, <2>3, FS_AddElement
    <3> QED
      BY <1>3, <1>5, <1>7, <2>1, <3>1 DEF LimiterSound
  <2>9. /\ waiting' \in Seq(Requests) /\ Len(waiting') = Len(waiting) - 1
        /\ DOMAIN waiting' = 1 .. Len(waiting')
        /\ \A k \in 1 .. Len(waiting') : waiting'[k] = waiting[k + 1]
    BY <1>2, <1>7, <2>1, HeadTailProperties, LenProperties
  <2>10. ASSUME NEW k \in DOMAIN waiting'
         PROVE  /\ k + 1 \in DOMAIN waiting /\ waiting'[k] = waiting[k + 1]
                /\ waiting'[k] \in Requests \ {r, w} /\ req'[waiting'[k]].pc = "queued"
    <3>1. k + 1 \in DOMAIN waiting /\ k + 1 # 1 /\ waiting'[k] = waiting[k + 1]
      BY <1>2, <2>9
    <3>2. waiting[k + 1] \in Requests /\ At(waiting[k + 1], "queued") /\ waiting[k + 1] # w
      BY <1>2, <2>2, <3>1, ElementOfSeq DEF LimiterSound
    <3>3. waiting[k + 1] # r
      BY <1>5, <3>2
    <3> QED
      BY <2>4, <3>1, <3>2, <3>3 DEF At
  <2>11. ASSUME NEW s \in Requests, req'[s].pc = "queued"
         PROVE  \E k \in DOMAIN waiting' : waiting'[k] = s
    <3>1. s # r /\ s # w /\ At(s, "queued")
      BY <1>4, <2>4, <2>5, <2>11 DEF At
    <3>2. PICK j \in DOMAIN waiting : waiting[j] = s
      BY <3>1 DEF LimiterSound
    <3>3. j # 1
      BY <2>2, <3>1, <3>2
    <3>4. j - 1 \in DOMAIN waiting' /\ (j - 1) + 1 = j
      BY <1>2, <2>9, <3>3
    <3> QED
      BY <2>9, <3>2, <3>4
  <2>12. \A k, l \in DOMAIN waiting' : waiting'[k] = waiting'[l] => k = l
    <3> SUFFICES ASSUME NEW k \in DOMAIN waiting', NEW l \in DOMAIN waiting',
                        waiting'[k] = waiting'[l]
                 PROVE  k = l
      OBVIOUS
    <3>1. k + 1 = l + 1
      BY <2>10 DEF LimiterSound
    <3> QED
      BY <2>9, <3>1
  <2>13. Len(waiting') <= limit
    BY <1>2, <1>3, <2>9 DEF LimiterSound
  <2>14. LimiterSound'
    BY <1>1, <1>3, <2>7, <2>8, <2>9, <2>10, <2>11, <2>12, <2>13 DEF LimiterSound, At
  <2>15. \A s \in Requests : Probing(s)' => Probing(s)
    BY <1>4, <2>4, <2>5 DEF Probing
  <2> QED
    BY <1>1, <2>6, <2>14, <2>15, CacheStays
<1> QED
  BY <1>6, <1>7

LEMMA StartKeeps ==
  ASSUME AgentInductive, NEW r \in Requests, Start(r)
  PROVE  AgentInductive'
<1>1. req[r].pc = "start" /\ Sound(req[r]) /\ req[r] \in Handler
  BY DEF Start, At, AgentInductive, HandlersSound, Sound
<1>2. CASE req[r].gone
  BY <1>1, <1>2, GoesOn, LeaveKeeps DEF Start, Early, Running
<1>3. CASE ~req[r].gone
  <2>1. InPlace(req[r].pc, Changed(req[r], Opened).pc)
    BY <1>1 DEF InPlace, Looping, Changed, Handler, Opened
  <2> QED
    BY <1>1, <1>3, <2>1, Opens, HandlerStep DEF Start, Admission
<1> QED
  BY <1>2, <1>3

LEMMA DisposeKeeps ==
  ASSUME AgentInductive, NEW r \in Requests, Dispose(r)
  PROVE  AgentInductive'
<1>1. req[r].pc = "dispose" /\ Sound(req[r]) /\ req[r].writers = {}
  BY DEF Dispose, At, Locked, AgentInductive, HandlersSound
<1> QED
  BY <1>1, Disposes, LeaveKeeps DEF Dispose, Running, Closing

-----------------------------------------------------------------------------
(* The tool loop and the stream.                                           *)

(* A handler that is free at p.                                            *)
LEMMA FreeHandler ==
  ASSUME AgentInductive, NEW r \in Requests, NEW p, Free(r, p)
  PROVE  req[r].pc = p /\ req[r].frame = "none" /\ Sound(req[r]) /\ req[r] \in Handler
BY DEF Free, At, AgentInductive, HandlersSound, Sound

LEMMA BeginRoundKeeps ==
  ASSUME AgentInductive, NEW r \in Requests, BeginRound(r)
  PROVE  AgentInductive'
<1> DEFINE n == req[r].rounds + 1
           d == [pc |-> "model", rounds |-> n, tooled |-> Tooled(n), frame |-> "talk",
                 unmeasured |-> req[r].unmeasured + 1]
<1>1. req[r].pc = "begin" /\ req[r].frame = "none" /\ Sound(req[r]) /\ req[r] \in Handler
  BY FreeHandler DEF BeginRound
<1>2. Tooled(n) \in BOOLEAN /\ (Tooled(n) => n <= MaxToolRounds)
  BY <1>1, AgentAssumption DEF Tooled, Handler
<1>3. Sound(Changed(req[r], d))
  BY <1>1, <1>2, BeginsRound
<1>4. InPlace(req[r].pc, Changed(req[r], d).pc)
  BY <1>1 DEF InPlace, Looping, Changed, Handler
<1>5. Step(r, d) /\ UNCHANGED <<health, Admission, World>>
  BY DEF BeginRound
<1> QED
  BY <1>3, <1>4, <1>5, HandlerStep

LEMMA SayKeeps ==
  ASSUME AgentInductive, NEW r \in Requests, Say(r)
  PROVE  AgentInductive'
<1> DEFINE d == [answered |-> TRUE, frame |-> "talk"]
<1>1. req[r].pc = "model" /\ req[r].frame = "none" /\ Sound(req[r]) /\ req[r] \in Handler
  BY FreeHandler DEF Say
<1>2. Sound(Changed(req[r], d))
  BY <1>1, Says
<1>3. InPlace(req[r].pc, Changed(req[r], d).pc)
  BY <1>1 DEF InPlace, Changed, Handler
<1>4. Step(r, d) /\ UNCHANGED <<health, Admission, World>>
  BY DEF Say
<1> QED
  BY <1>2, <1>3, <1>4, HandlerStep

(* The run is over, with an outcome; the cache is left alone or marked.    *)
LEMMA CloseKeeps ==
  ASSUME AgentInductive, NEW r \in Requests, NEW p \in {"model", "tool", "end"}, Free(r, p),
         NEW o \in Outcomes \ {"none"}, o = "client_aborted" => req[r].gone,
         Step(r, Close(r, o, 0)), UNCHANGED <<Admission, World>>,
         UNCHANGED health \/ MarkUnavailable
  PROVE  AgentInductive'
<1> USE DEF AgentInductive, Admission, World
<1>1. req[r].pc = p /\ req[r].frame = "none" /\ Sound(req[r]) /\ req[r] \in Handler
  BY FreeHandler
<1>2. Sound(Changed(req[r], Close(r, o, 0)))
  BY <1>1, Closes DEF Close
<1>3. InPlace(req[r].pc, Changed(req[r], Close(r, o, 0)).pc)
  BY <1>1 DEF InPlace, Looping, Closing, Changed, Handler, Close
<1>4. BoundsSound'
  BY DEF BoundsSound
<1>5. /\ HandlersSound' /\ LimiterSound'
      /\ \A s \in Requests : Probing(s)' => Probing(s)
  BY <1>2, <1>3, StaysInPlace
<1>6. CASE UNCHANGED health
  BY <1>4, <1>5, <1>6, CacheStays
<1>7. CASE MarkUnavailable
  <2>1. health' \in Cache /\ health'.prober = health.prober /\ health'.ready = FALSE
        /\ (health.prober # NoOne => health'.unheard = "inflight")
    BY <1>7 DEF MarkUnavailable, CacheSound, Cache
  <2>2. CacheSound'
    BY <1>5, <2>1 DEF CacheSound
  <2> QED
    BY <1>4, <1>5, <2>2
<1> QED
  BY <1>6, <1>7

LEMMA CancelledOutcome ==
  ASSUME NEW r \in Requests
  PROVE  /\ Cancelled(r) \in Outcomes \ {"none"}
         /\ Cancelled(r) = "client_aborted" => req[r].gone
BY DEF Cancelled, Outcomes

LEMMA EndRoundKeeps ==
  ASSUME AgentInductive, NEW r \in Requests, EndRound(r)
  PROVE  AgentInductive'
<1>1. /\ Free(r, "model") /\ req[r].pc = "model" /\ req[r].frame = "none"
      /\ Sound(req[r]) /\ req[r] \in Handler
  BY FreeHandler DEF EndRound
<1>2. Measured(r, TRUE) = 0 /\ Measured(r, FALSE) = req[r].unmeasured - 1
  BY <1>1 DEF Measured, Sound, CountsSound
<1>3. CASE /\ req[r].tooled /\ UNCHANGED health
           /\ Step(r, [pc |-> "tool", frame |-> "talk", unmeasured |-> Measured(r, FALSE)])
  <2> DEFINE d == [pc |-> "tool", frame |-> "talk", unmeasured |-> req[r].unmeasured - 1]
  <2>1. Sound(Changed(req[r], d))
    BY <1>1, <1>3, CallsTools
  <2>2. InPlace(req[r].pc, Changed(req[r], d).pc)
    BY <1>1 DEF InPlace, Looping, Changed, Handler
  <2>3. Step(r, d)
    BY <1>2, <1>3
  <2> QED
    BY <1>3, <2>1, <2>2, <2>3, HandlerStep DEF EndRound
<1>4. CASE Step(r, [pc |-> "end", unmeasured |-> Measured(r, FALSE)]) /\ UNCHANGED health
  <2> DEFINE d == [pc |-> "end", unmeasured |-> req[r].unmeasured - 1]
  <2>1. Sound(Changed(req[r], d))
    BY <1>1, EndsAnswer
  <2>2. InPlace(req[r].pc, Changed(req[r], d).pc)
    BY <1>1 DEF InPlace, Looping, Changed, Handler
  <2>3. Step(r, d)
    BY <1>2, <1>4
  <2> QED
    BY <1>4, <2>1, <2>2, <2>3, HandlerStep DEF EndRound
<1>5. CASE Step(r, Close(r, Cancelled(r), Measured(r, TRUE))) /\ UNCHANGED health
  BY <1>1, <1>2, <1>5, CloseKeeps, CancelledOutcome DEF EndRound
<1>6. CASE Step(r, Close(r, "llm_unavailable", Measured(r, TRUE))) /\ MarkUnavailable
  BY <1>1, <1>2, <1>6, CloseKeeps DEF EndRound, Outcomes
<1>7. CASE Step(r, Close(r, "internal", Measured(r, TRUE))) /\ UNCHANGED health
  BY <1>1, <1>2, <1>7, CloseKeeps DEF EndRound, Outcomes
<1> QED
  BY <1>3, <1>4, <1>5, <1>6, <1>7 DEF EndRound

LEMMA RunToolKeeps ==
  ASSUME AgentInductive, NEW r \in Requests, RunTool(r)
  PROVE  AgentInductive'
<1>1. /\ Free(r, "tool") /\ req[r].pc = "tool" /\ req[r].frame = "none"
      /\ Sound(req[r]) /\ req[r] \in Handler /\ req[r].unmeasured = 0
  BY FreeHandler DEF RunTool, Sound, CountsSound
<1>2. UNCHANGED <<health, Admission, World>>
  BY DEF RunTool
<1>3. \E a \in {"answer", "cms_unavailable", "cancelled", "broken"} : Step(r, ToolEnds(r, a))
  BY DEF RunTool, CmsReply
<1>4. CASE Step(r, ToolEnds(r, "answer"))
  <2> DEFINE d == [pc |-> "begin"]
  <2>1. Sound(Changed(req[r], d))
    BY <1>1, BeginsAgain
  <2>2. InPlace(req[r].pc, Changed(req[r], d).pc)
    BY <1>1 DEF InPlace, Looping, Changed, Handler
  <2>3. Step(r, d)
    BY <1>4 DEF ToolEnds
  <2> QED
    BY <1>2, <2>1, <2>2, <2>3, HandlerStep
<1>5. CASE Step(r, ToolEnds(r, "cms_unavailable"))
  <2>1. Step(r, Close(r, "cms_unavailable", 0))
    BY <1>1, <1>5 DEF ToolEnds
  <2> QED
    BY <1>1, <1>2, <2>1, CloseKeeps DEF Outcomes
<1>6. CASE Step(r, ToolEnds(r, "cancelled"))
  <2>1. Step(r, Close(r, Cancelled(r), 0))
    BY <1>1, <1>6 DEF ToolEnds
  <2> QED
    BY <1>1, <1>2, <2>1, CloseKeeps, CancelledOutcome
<1>7. CASE Step(r, ToolEnds(r, "broken"))
  <2>1. Step(r, Close(r, "internal", 0))
    BY <1>1, <1>7 DEF ToolEnds
  <2> QED
    BY <1>1, <1>2, <2>1, CloseKeeps DEF Outcomes
<1> QED
  BY <1>3, <1>4, <1>5, <1>6, <1>7

LEMMA EndOfAnswerKeeps ==
  ASSUME AgentInductive, NEW r \in Requests, EndOfAnswer(r)
  PROVE  AgentInductive'
<1>1. Free(r, "end") /\ req[r].unmeasured = 0
  BY FreeHandler DEF EndOfAnswer, Sound, CountsSound
<1>2. PICK o \in {"ok", "tool_limit", "empty_answer"} : Step(r, Close(r, o, 0))
  BY <1>1 DEF EndOfAnswer
<1> QED
  BY <1>1, <1>2, CloseKeeps DEF EndOfAnswer, Outcomes

(* A frame of the loop.                                                    *)
LEMMA SkipFrameKeeps ==
  ASSUME AgentInductive, NEW r \in Requests, SkipFrame(r)
  PROVE  AgentInductive'
<1>1. Sound(req[r]) /\ req[r] \in Handler
  BY DEF AgentInductive, HandlersSound, Sound
<1>2. Sound(Changed(req[r], [frame |-> "none"]))
  BY <1>1, Skips DEF SkipFrame
<1>3. InPlace(req[r].pc, Changed(req[r], [frame |-> "none"]).pc)
  BY <1>1 DEF InPlace, Changed, Handler
<1> QED
  BY <1>2, <1>3, HandlerStep DEF SkipFrame

LEMMA LockFrameKeeps ==
  ASSUME AgentInductive, NEW r \in Requests, LockFrame(r)
  PROVE  AgentInductive'
<1> DEFINE d == [writers |-> req[r].writers \cup {"loop"}]
<1>1. Sound(req[r]) /\ req[r] \in Handler
  BY DEF AgentInductive, HandlersSound, Sound
<1>2. Sound(Changed(req[r], d))
  BY <1>1, LocksFrame DEF LockFrame, Locked
<1>3. InPlace(req[r].pc, Changed(req[r], d).pc)
  BY <1>1 DEF InPlace, Changed, Handler
<1>4. Step(r, d) /\ UNCHANGED <<health, Admission, World>>
  BY DEF LockFrame
<1> QED
  BY <1>2, <1>3, <1>4, HandlerStep

(* A frame that ends the stream is its first ending.                       *)
LEMMA WriteFrameKeeps ==
  ASSUME AgentInductive, NEW r \in Requests, WriteFrame(r)
  PROVE  AgentInductive'
<1> DEFINE ends == ~req[r].gone /\ req[r].frame \in {"done", "error"}
           x == IF ends THEN req[r].frame ELSE req[r].ending
           d == [writers |-> req[r].writers \ {"loop"}, frame |-> "none", ending |-> x]
<1>1. Sound(req[r]) /\ req[r] \in Handler /\ "loop" \in req[r].writers
  BY DEF AgentInductive, HandlersSound, Sound, WriteFrame
<1>2. ends => req[r].ending = "none"
  BY <1>1 DEF Sound, StreamSound, Looping, Closing
<1>3. x = CASE ends /\ req[r].ending = "none" -> req[r].frame
            [] ends /\ req[r].ending # "none" -> "twice"
            [] OTHER -> req[r].ending
  <2>1. CASE ends
    BY <1>2, <2>1
  <2>2. CASE ~ends
    BY <2>2
  <2> QED
    BY <2>1, <2>2
<1>4. Step(r, d) /\ UNCHANGED <<health, Admission, World>>
  BY <1>3 DEF WriteFrame
<1>5. Sound(Changed(req[r], d))
  BY <1>1, WritesFrame
<1>6. InPlace(req[r].pc, Changed(req[r], d).pc)
  BY <1>1 DEF InPlace, Changed, Handler
<1> QED
  BY <1>4, <1>5, <1>6, HandlerStep

(* The heartbeat.                                                          *)
LEMMA BeatKeeps ==
  ASSUME AgentInductive, NEW r \in Requests, Beat(r)
  PROVE  AgentInductive'
<1>1. Sound(req[r]) /\ req[r] \in Handler
  BY DEF AgentInductive, HandlersSound, Sound
<1>2. Sound(Changed(req[r], [beat |-> "waiting"]))
  BY <1>1, BeatStarts DEF Beat
<1>3. InPlace(req[r].pc, Changed(req[r], [beat |-> "waiting"]).pc)
  BY <1>1 DEF InPlace, Changed, Handler
<1>4. BoundsSound'
  BY AgentAssumption DEF AgentInductive, BoundsSound, Beat, Admission
<1> QED
  BY <1>2, <1>3, <1>4, StepKeeps DEF Beat, Admission

LEMMA LockBeatKeeps ==
  ASSUME AgentInductive, NEW r \in Requests, LockBeat(r)
  PROVE  AgentInductive'
<1>1. /\ Sound(req[r]) /\ req[r] \in Handler
      /\ req[r].beat = "waiting" /\ req[r].writers = {}
  BY DEF AgentInductive, HandlersSound, Sound, LockBeat, Locked
<1>2. UNCHANGED <<health, Admission, World>>
  BY DEF LockBeat
<1>3. CASE At(r, "over")
  <2>1. Sound(Changed(req[r], [beat |-> "off"]))
    BY <1>1, BeatStops
  <2>2. InPlace(req[r].pc, Changed(req[r], [beat |-> "off"]).pc)
    BY <1>1 DEF InPlace, Changed, Handler
  <2> QED
    BY <1>2, <1>3, <2>1, <2>2, HandlerStep DEF LockBeat
<1>4. CASE ~At(r, "over")
  <2> DEFINE d == [beat |-> "writing", writers |-> req[r].writers \cup {"beat"}]
  <2>1. Sound(Changed(req[r], d))
    BY <1>1, <1>4, LocksBeat DEF At
  <2>2. InPlace(req[r].pc, Changed(req[r], d).pc)
    BY <1>1 DEF InPlace, Changed, Handler
  <2>3. Step(r, d)
    BY <1>4 DEF LockBeat
  <2> QED
    BY <1>2, <2>1, <2>2, <2>3, HandlerStep
<1> QED
  BY <1>3, <1>4

LEMMA WriteBeatKeeps ==
  ASSUME AgentInductive, NEW r \in Requests, WriteBeat(r)
  PROVE  AgentInductive'
<1> DEFINE b == IF req[r].pc \in {"dispose", "over"} THEN "off" ELSE "on"
           d == [writers |-> req[r].writers \ {"beat"}, beat |-> b]
<1>1. Sound(req[r]) /\ req[r] \in Handler /\ req[r].beat = "writing"
  BY DEF AgentInductive, HandlersSound, Sound, WriteBeat
<1>2. Sound(Changed(req[r], d))
  BY <1>1, WritesBeat
<1>3. InPlace(req[r].pc, Changed(req[r], d).pc)
  BY <1>1 DEF InPlace, Changed, Handler
<1>4. Step(r, d) /\ UNCHANGED <<health, Admission, World>>
  BY DEF WriteBeat
<1> QED
  BY <1>2, <1>3, <1>4, HandlerStep

LEMMA ReportKeeps ==
  ASSUME AgentInductive, NEW r \in Requests, Report(r)
  PROVE  AgentInductive'
<1> DEFINE d == [pc |-> "dispose", counted |-> req[r].counted + 1, rounds |-> 0,
                 beat |-> IF req[r].beat = "on" THEN "off" ELSE req[r].beat]
<1>1. req[r].pc = "close" /\ req[r].frame = "none" /\ Sound(req[r]) /\ req[r] \in Handler
  BY FreeHandler DEF Report
<1>2. Sound(Changed(req[r], d))
  BY <1>1, Reports
<1>3. InPlace(req[r].pc, Changed(req[r], d).pc)
  BY <1>1 DEF InPlace, Closing, Changed, Handler
<1>4. Step(r, d) /\ UNCHANGED <<health, Admission, World>>
  BY DEF Report
<1> QED
  BY <1>2, <1>3, <1>4, HandlerStep

-----------------------------------------------------------------------------
(* The world.                                                              *)

LEMMA GoAwayKeeps ==
  ASSUME AgentInductive, NEW r \in Requests, GoAway(r)
  PROVE  AgentInductive'
<1>1. Sound(req[r]) /\ req[r] \in Handler
  BY DEF AgentInductive, HandlersSound, Sound
<1>2. PICK b \in BOOLEAN : b /\ Step(r, [gone |-> b])
  BY DEF GoAway
<1>3. Sound(Changed(req[r], [gone |-> b]))
  BY <1>1, <1>2, Goes
<1>4. InPlace(req[r].pc, Changed(req[r], [gone |-> b]).pc)
  BY <1>1 DEF InPlace, Changed, Handler
<1>5. UNCHANGED <<health, Admission, World>>
  BY DEF GoAway
<1> QED
  BY <1>2, <1>3, <1>4, <1>5, HandlerStep

(* Steps that leave every request alone.                                   *)
LEMMA AllStay ==
  ASSUME AgentInductive, UNCHANGED <<req, leases, waiting, limit>>
  PROVE  HandlersSound' /\ LimiterSound' /\ \A s \in Requests : Probing(s)' = Probing(s)
<1>1. \A s \in Requests : Running(s)' = Running(s) /\ At(s, "queued")' = At(s, "queued")
  BY DEF Running, At
<1>2. \A s \in Requests : Probing(s)' = Probing(s)
  BY DEF Probing
<1> QED
  BY <1>1, <1>2, LimiterStays DEF AgentInductive, HandlersSound

LEMMA FlipKeeps ==
  ASSUME AgentInductive, Flip
  PROVE  AgentInductive'
<1>1. BoundsSound'
  BY AgentAssumption DEF AgentInductive, BoundsSound, Flip, Admission
<1> QED
  BY <1>1, AllStay, CacheStays DEF AgentInductive, Flip, Admission

LEMMA ExpireKeeps ==
  ASSUME AgentInductive, Expire
  PROVE  AgentInductive'
<1>1. BoundsSound'
  BY AgentAssumption DEF AgentInductive, BoundsSound, Expire
<1>2. HandlersSound' /\ LimiterSound' /\ \A s \in Requests : Probing(s)' = Probing(s)
  BY AllStay DEF Expire
<1>3. /\ health' \in Cache /\ health'.prober = health.prober /\ health'.ready = health.ready
      /\ health'.unheard = health.unheard
  <2>1. health' = health \/ health' = [health EXCEPT !.fresh = FALSE]
    BY DEF Expire
  <2> QED
    BY <2>1 DEF AgentInductive, CacheSound, Cache
<1>4. CacheSound'
  BY <1>2, <1>3 DEF AgentInductive, CacheSound
<1> QED
  BY <1>1, <1>2, <1>4 DEF AgentInductive

-----------------------------------------------------------------------------
(* Together.                                                               *)

LEMMA FreshSound == Sound(Fresh)
<1>1. FALSE \in BOOLEAN
  OBVIOUS
<1>2. ASSUME NEW b \in BOOLEAN,
             NEW h, h = [pc |-> "idle", kind |-> "chat", gone |-> b, reply |-> "none", seen |-> b,
                         rounds |-> 0, tooled |-> b, answered |-> b, outcome |-> "none",
                         frame |-> "none", writers |-> {}, beat |-> "off", ending |-> "none",
                         unmeasured |-> 0, counted |-> 0]
      PROVE  Sound(h)
  <2>1. h \in Handler
    BY <1>2 DEF Handler, Early, Replies, Outcomes
  <2> QED
    BY <1>2, <2>1, AgentAssumption
       DEF Sound, EarlySound, RoundsSound, StreamSound, CountsSound, Looping, Closing
<1> QED
  BY <1>1, <1>2 DEF Fresh

LEMMA InitInductive ==
  ASSUME Init
  PROVE  AgentInductive
<1>1. HandlersSound
  BY FreshSound DEF Init, HandlersSound, Sound
<1>2. \A r \in Requests : req[r].pc = "idle"
  BY DEF Init, Fresh
<1>3. LimiterSound
  <2>1. leases = {} /\ {r \in Requests : Running(r)} = {}
    BY <1>2 DEF Init, Running, Looping, Closing
  <2>2. Cardinality(leases) = 0
    BY <2>1, FS_EmptySet
  <2>3. waiting = <<>> /\ waiting \in Seq(Requests) /\ Len(waiting) = 0 /\ DOMAIN waiting = {}
    BY EmptySeq DEF Init
  <2>4. limit \in Nat /\ Permits \in Nat
    BY AgentAssumption DEF Init
  <2> QED
    BY <1>2, <2>1, <2>2, <2>3, <2>4 DEF LimiterSound, At
<1>4. CacheSound
  BY <1>2 DEF Init, CacheSound, Cache, Probing
<1>5. BoundsSound
  BY AgentAssumption DEF Init, BoundsSound
<1> QED
  BY <1>1, <1>3, <1>4, <1>5 DEF AgentInductive

LEMMA NextInductive ==
  ASSUME AgentInductive, [Next]_vars
  PROVE  AgentInductive'
<1>1. ASSUME NEW r \in Requests, Serve(r)
      PROVE  AgentInductive'
  BY <1>1, CheckCacheKeeps, TakeProbeLockKeeps, ProbeAnsweredKeeps, StoreProbeKeeps,
     AcquireKeeps, AbandonQueueKeeps, StartKeeps, BeginRoundKeeps, EndRoundKeeps, RunToolKeeps,
     EndOfAnswerKeeps, SkipFrameKeeps, LockFrameKeeps, WriteFrameKeeps, ReportKeeps, DisposeKeeps
     DEF Serve
<1>2. ASSUME NEW r \in Requests, Arrive(r) \/ Say(r) \/ Beat(r) \/ Pulse(r) \/ GoAway(r)
      PROVE  AgentInductive'
  BY <1>2, ArriveKeeps, SayKeeps, BeatKeeps, LockBeatKeeps, WriteBeatKeeps, GoAwayKeeps DEF Pulse
<1>3. CASE UNCHANGED vars
  <2>1. BoundsSound'
    BY <1>3 DEF AgentInductive, BoundsSound, vars
  <2> QED
    BY <1>3, <2>1, AllStay, CacheStays DEF AgentInductive, vars
<1> QED
  BY <1>1, <1>2, <1>3, FlipKeeps, ExpireKeeps DEF Next, Quiet

THEOREM AgentInductiveHolds == Spec => []AgentInductive
<1>1. Init => AgentInductive
  BY InitInductive
<1>2. AgentInductive /\ [Next]_vars => AgentInductive'
  BY NextInductive
<1> QED
  BY <1>1, <1>2, PTL DEF Spec

(* Every variable keeps its type, the queue its limit and every run its    *)
(* number of rounds: one more than MaxToolRounds, the last without tools.  *)
THEOREM AgentTypeCorrect == Spec => []AgentTypeOK
<1>1. AgentInductive => AgentTypeOK
  BY DEF AgentInductive, HandlersSound, Sound, RoundsSound, LimiterSound, CacheSound, BoundsSound,
         AgentTypeOK
<1> QED
  BY <1>1, AgentInductiveHolds, PTL

(* A permit of the limiter is held exactly while a chat runs, and no       *)
(* request waits beside a free one (Program.cs).                           *)
THEOREM PermitsAreReturned == Spec => []PermitsReturn
<1>1. AgentInductive => PermitsReturn
  BY DEF AgentInductive, LimiterSound, PermitsReturn
<1> QED
  BY <1>1, AgentInductiveHolds, PTL

(* A stream whose client stayed has the one ending of its outcome, and its *)
(* frames never interleave (AgentChatService, SseWriter).                  *)
THEOREM StreamsEnd == Spec => []StreamsEndWhole
<1>1. ASSUME AgentInductive, NEW r \in Requests
      PROVE  /\ Cardinality(req[r].writers) <= 1
             /\ At(r, "over") => req[r].writers = {}
             /\ At(r, "over") /\ req[r].reply = "stream" /\ ~req[r].gone
                  => req[r].ending = IF req[r].outcome = "ok" THEN "done" ELSE "error"
  <2>1. Sound(req[r])
    BY <1>1 DEF AgentInductive, HandlersSound
  <2>2. Cardinality(req[r].writers) <= 1
    <3>1. req[r].writers \in {{}, {"loop"}, {"beat"}}
      BY <2>1 DEF Sound, Handler
    <3>2. Cardinality({}) = 0 /\ Cardinality({"loop"}) = 1 /\ Cardinality({"beat"}) = 1
      BY FS_EmptySet, FS_Singleton
    <3> QED
      BY <3>1, <3>2
  <2>3. At(r, "over") => req[r].writers = {} /\ req[r].frame = "none"
    BY <2>1 DEF Sound, StreamSound, At
  <2>4. ASSUME At(r, "over"), req[r].reply = "stream", ~req[r].gone
        PROVE  req[r].ending = IF req[r].outcome = "ok" THEN "done" ELSE "error"
    <3>1. req[r].outcome # "client_aborted" /\ req[r].ending = Frame(req[r].outcome)
      BY <2>1, <2>3, <2>4 DEF Sound, StreamSound, At
    <3> QED
      BY <3>1 DEF Frame
  <2> QED
    BY <2>2, <2>3, <2>4
<1>2. AgentInductive => StreamsEndWhole
  BY <1>1 DEF StreamsEndWhole
<1> QED
  BY <1>2, AgentInductiveHolds, PTL

(* The telemetry measures every round and counts every run once, however   *)
(* it ends (InferenceTelemetryChatClient, RunAsync).                       *)
THEOREM RunsAreCounted == Spec => []RunsAreAccounted
<1>1. AgentInductive => RunsAreAccounted
  BY DEF AgentInductive, HandlersSound, Sound, CountsSound, RunsAreAccounted, At
<1> QED
  BY <1>1, AgentInductiveHolds, PTL

(* The cache never says "ready" against a mark that no probe was racing    *)
(* (LlmHealth).                                                            *)
THEOREM MarksAreHeard == Spec => []MarkIsHeard
<1>1. AgentInductive => MarkIsHeard
  BY DEF AgentInductive, CacheSound, MarkIsHeard
<1> QED
  BY <1>1, AgentInductiveHolds, PTL
=============================================================================
