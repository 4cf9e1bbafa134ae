------------------------------ MODULE LoadEngine ------------------------------
(***************************************************************************)
(* The engine of the load generator: a map of virtual browser users, and   *)
(* calls of the control API, of timers and of the leader's synchronisation *)
(* that ramp it up and down, pause it and resume it.  JavaScript runs one  *)
(* step at a time, so a call is cut at its awaits, and the calls that are  *)
(* in flight interleave.                                                   *)
(*                                                                         *)
(* A ramp runs inside another call, named by the field "then", which goes  *)
(* on when the ramp returns or throws.                                     *)
(***************************************************************************)
EXTENDS Naturals, FiniteSets, Functions, FiniteSetsExt

CONSTANTS
  MaxTarget,     \* the most users that a pod is asked for
  Objects,       \* user objects; one that is gone is used again
  Calls,         \* places for calls in flight
  NoUser, Idle,
  MaxCalls,      \* bound on calls
  MaxFlips       \* bound on changes of the target frontend and of the leader

Keys == 0 .. MaxTarget - 1

(* The locals of a call, and what it does when its ramp or pause returns;  *)
(* "back" when it will then resume, as the engine was not paused.          *)
Task ==
  [pc : {"begin", "probing", "opening", "nap", "stopping", "rest", "pausing", "asking", "ping", "cms",
         "exit"},
   then : {"none", "scenario", "resume", "rumdown", "rumup", "stop", "exit", "retarget", "probe", "auto"},
   to : 0 .. MaxTarget, i : 0 .. MaxTarget, keys : SUBSET Keys, user : Objects \cup {NoUser},
   back : BOOLEAN]

(* A scenario has at least one user.                                       *)
ASSUME EngineAssumption ==
  /\ {MaxTarget, MaxCalls, MaxFlips} \subseteq Nat /\ MaxTarget > 0
  /\ NoUser \notin Objects /\ Idle \notin Task
  /\ IsFiniteSet(Objects)

VARIABLES
  eng,      \* fields of BrowserLoadEngine
  users,    \* its map from index to user
  user,     \* what each user object is doing
  task,     \* the calls in flight
  world,    \* is the frontend up; what the leader, if it is another pod, does
  spent,
  excuse    \* history: `collided`, users that were given an index that was taken, and those that
            \* had it; `muddled`, since the last pause calls have overlapped or a ramp has given up;
            \* `kept`, since then a ramp or a resume has failed and paused without stopping users;
            \* `held`, the operator, or the leader, has paused and not resumed; `raced`, a call
            \* that was under way then leaves the mark of a target that is down, or will resume

vars == <<eng, users, user, task, world, spent, excuse>>

(* A user is "opening" while newContext is awaited, and "doomed" when      *)
(* stop() has been called already; "paging" while newPage is awaited, and  *)
(* "cut" when stop() has closed the context; "live" while the loop of      *)
(* profiles runs, "winding" when it has been told to stop; "barren" when   *)
(* its context has no page; an "orphan" when the context opened after      *)
(* stop(), and stays; else "gone".                                         *)

Blank == [pc |-> "begin", then |-> "none", to |-> 0, i |-> 0, keys |-> {}, user |-> NoUser,
          back |-> FALSE]

(* The state start() leaves, with run.paused or on its way to the first    *)
(* ramp, and the first probe not yet made.                                 *)
Started ==
  [paused |-> world.wait, down |-> FALSE, ramping |-> FALSE, degraded |-> FALSE, target |-> MaxTarget,
   phase |-> IF world.wait THEN "paused" ELSE "idle", reach |-> FALSE, browser |-> TRUE, timers |-> TRUE]

NoExcuse == [collided |-> {}, muddled |-> FALSE, kept |-> FALSE,
             held |-> FALSE, raced |-> FALSE]

Init ==
  /\ world \in [up : {TRUE}, leads : BOOLEAN, paused : {FALSE}, wait : BOOLEAN]
  /\ users = [k \in Keys |-> NoUser]
  /\ user = [u \in Objects |-> "gone"]
  /\ eng = Started
  /\ \E first \in Calls : task = [c \in Calls |-> IF c = first /\ ~world.wait THEN Blank ELSE Idle]
  /\ spent = [calls |-> 0, flips |-> 0]
  /\ excuse = NoExcuse

-----------------------------------------------------------------------------
Filled == {k \in Keys : users[k] # NoUser}

Size == Cardinality(Filled)

Free(c) == task[c] = Idle

At(c, pc) == ~Free(c) /\ task[c].pc = pc

(* A call begins while others are in flight, or a ramp gives up.           *)
OthersIn(ts, c) == \E d \in Calls \ {c} : ts[d] # Idle

Others(c) == OthersIn(task, c)

Muddle(c) == excuse' = [excuse EXCEPT !.muddled = @ \/ Others(c)]

Spend == spent.calls < MaxCalls /\ spent' = [spent EXCEPT !.calls = @ + 1]

Set(c, new) == task' = [task EXCEPT ![c] = new]

-----------------------------------------------------------------------------
(* The end of a ramp, with the engine e as it leaves it: on with its       *)
(* caller.  k is the call.                                                 *)

(* Fault: the flag that a ramp is in progress is reset only when it works. *)
ReturnKeepingFlag(c, k, e, us) ==
  /\ eng' = [e EXCEPT !.ramping = @ /\ (e.paused \/ k.then \notin {"resume", "rumup"})]
  /\ Set(c, Idle)
  /\ user' = us

(* us are the user objects.  stop() closes the browser.                    *)
Return(c, k, e, us) ==
  CASE k.then = "resume" ->
         /\ eng' = IF e.paused THEN [e EXCEPT !.ramping = FALSE]
                   ELSE IF Filled = {}
                   THEN [e EXCEPT !.ramping = FALSE, !.paused = TRUE, !.phase = "paused"]
                   ELSE [e EXCEPT !.ramping = FALSE, !.phase = "running"]
         /\ Set(c, Idle) /\ user' = us
    [] k.then = "rumdown" /\ ~e.paused ->
         /\ eng' = e
         /\ Set(c, [Blank EXCEPT !.pc = "probing", !.then = "rumup", !.to = k.i])
         /\ user' = us
    [] k.then \in {"stop", "exit"} ->
         /\ eng' = [e EXCEPT !.browser = FALSE, !.phase = "stopped", !.timers = FALSE]
         /\ user' = [u \in Objects |-> IF us[u] \in {"opening", "paging", "doomed", "cut"}
                                       THEN "cut" ELSE "gone"]
         /\ Set(c, IF k.then = "exit" THEN [Blank EXCEPT !.pc = "exit"] ELSE Idle)
    [] OTHER ->
         /\ eng' = [e EXCEPT !.ramping = @ /\ k.then \in {"none", "scenario"}]
         /\ Set(c, Idle) /\ user' = us

(* The process starts again, and knows of no pause.                        *)
StartAgain(c) ==
  /\ eng' = Started
  /\ user' = [o \in Objects |-> "gone"]
  /\ users' = [i \in Keys |-> NoUser]
  /\ task' = [d \in Calls |-> IF d = c /\ ~world.wait THEN Blank ELSE Idle]
  /\ excuse' = [NoExcuse EXCEPT !.held = excuse.held, !.raced = TRUE]

(* A ramp throws and leaves the user objects us.  Resuming and applying    *)
(* RUM catch it and pause, the route of a scenario answers 400; elsewhere  *)
(* nobody handles the rejection, and the process ends.                     *)
Throw(c, us) ==
  LET caught == task[c].then \in {"resume", "rumdown", "rumup"}
  IN  IF caught \/ task[c].then = "scenario"
      THEN /\ eng' = IF caught THEN [eng EXCEPT !.paused = TRUE, !.phase = "paused", !.ramping = FALSE]
                     ELSE eng
           /\ user' = us
           /\ Set(c, Idle)
           /\ excuse' = [excuse EXCEPT !.muddled = TRUE, !.kept = @ \/ Filled # {}]
           /\ UNCHANGED users
      ELSE StartAgain(c)

Unused == {o \in Objects : /\ user[o] = "gone" /\ o \notin Range(users)
                            /\ \A d \in Calls : ~Free(d) => task[d].user # o}

(* Fault: the ramp up ends one user early.                                 *)
ClimbShort(c, k, e, i, us) ==
  IF e.paused \/ i + 1 >= k.to
  THEN Return(c, k, [e EXCEPT !.phase = "running"], us) /\ UNCHANGED <<users, excuse>>
  ELSE LET u == CHOOSE o \in Unused : TRUE IN
       /\ Unused # {}
       /\ user' = [us EXCEPT ![u] = "opening"]
       /\ users' = [users EXCEPT ![i] = u]
       /\ Set(c, [k EXCEPT !.pc = "opening", !.i = i, !.user = u])
       /\ eng' = e
       /\ UNCHANGED excuse

(* One turn of the ramp up, from index i.  users.set replaces whoever has  *)
(* the index.  Without a browser nobody is spawned.                        *)
Climb(c, k, e, i, us) ==
  CASE e.paused \/ i >= k.to ->
         Return(c, k, [e EXCEPT !.phase = "running"], us) /\ UNCHANGED <<users, excuse>>
    [] ~e.paused /\ i < k.to /\ ~e.browser ->
         /\ Set(c, [k EXCEPT !.pc = "nap", !.i = i + 1])
         /\ eng' = e /\ user' = us /\ UNCHANGED <<users, excuse>>
    [] OTHER -> LET u == CHOOSE o \in Unused : TRUE IN
         /\ Unused # {}
         /\ user' = [us EXCEPT ![u] = "opening"]
         /\ users' = [users EXCEPT ![i] = u]
         /\ Set(c, [k EXCEPT !.pc = "opening", !.i = i, !.user = u])
         /\ eng' = e
         /\ excuse' = IF users[i] = NoUser THEN [excuse EXCEPT !.collided = @ \ {u}]
                      ELSE [excuse EXCEPT !.collided = @ \cup {u, users[i]}, !.muddled = TRUE]

(* The next user, after a while; the last is not waited for.               *)
Spawned(c, us) ==
  LET k == task[c]
  IN  IF k.i + 1 < k.to
      THEN /\ Set(c, [k EXCEPT !.pc = "nap", !.i = @ + 1])
           /\ user' = us /\ UNCHANGED <<eng, users, excuse>>
      ELSE Climb(c, k, eng, k.to, us)

StopUser(u) ==
  [user EXCEPT ![u] = CASE @ = "opening" -> "doomed" [] @ = "paging" -> "cut"
                        [] @ = "live" -> "winding" [] @ \in {"barren", "orphan"} -> "gone"
                        [] OTHER -> @]

(* One turn of the ramp down: the next of the indices it chose.            *)
Descend(c, k, e, keys) ==
  /\ UNCHANGED users
  /\ IF keys = {}
     THEN Return(c, k, [e EXCEPT !.phase = IF Filled = {} THEN "idle" ELSE "running"], user)
     ELSE LET i == Min(keys) IN
          /\ user' = IF users[i] = NoUser THEN user ELSE StopUser(users[i])
          /\ Set(c, [k EXCEPT !.pc = "stopping", !.keys = keys, !.user = users[i]])
          /\ eng' = e

(* The rest of rampTo, once the browser is there and the target answers.   *)
(* The first users in the map are those that go.                           *)
Plan(c, k, e) ==
  LET first == {i \in Filled : Cardinality({j \in Filled : j < i}) < Size - k.to}
  IN  IF k.to > Size THEN Climb(c, k, [e EXCEPT !.phase = "ramping_up"], Size, user)
      ELSE /\ UNCHANGED excuse
           /\ IF k.to < Size THEN Descend(c, k, [e EXCEPT !.phase = "ramping_down"], first)
              ELSE /\ Return(c, k, [e EXCEPT !.phase = IF k.to = 0 THEN "idle" ELSE "running"], user)
                   /\ UNCHANGED users

(* rampTo with users is called: nothing while the engine is paused, else   *)
(* the browser and the target are awaited.                                 *)
RampTo(c, e, to, then) ==
  /\ eng' = e
  /\ IF e.paused THEN UNCHANGED task
     ELSE Set(c, [Blank EXCEPT !.pc = "probing", !.to = to, !.then = then])
  /\ UNCHANGED <<users, user>>

(* rampTo(0) is called: it goes to work at once when there is a browser.   *)
RampDown(c, e, then, goal) ==
  LET k == [Blank EXCEPT !.pc = "probing", !.then = then, !.i = goal]
  IN  IF e.paused THEN Return(c, k, e, user) /\ UNCHANGED users
      ELSE IF e.browser
           THEN Descend(c, k, [e EXCEPT !.phase = IF Filled = {} THEN "idle" ELSE "ramping_down"], Filled)
           ELSE Set(c, k) /\ eng' = e /\ UNCHANGED <<users, user>>

(* After ensureBrowser, which launches the browser if there is none, and   *)
(* probeFrontend.                                                          *)
Probed(c) ==
  /\ At(c, "probing")
  /\ LET k == task[c]
         e == [eng EXCEPT !.browser = TRUE, !.reach = IF k.to > 0 THEN world.up ELSE @]
     IN  \/ ~eng.browser /\ Throw(c, user)
         \/ (k.to = 0 \/ world.up) /\ Plan(c, k, e)
         \/ /\ k.to > 0 /\ ~world.up
            /\ Return(c, k, IF Size > 0 THEN e
                            ELSE [e EXCEPT !.paused = TRUE, !.down = TRUE, !.phase = "paused"], user)
            /\ excuse' = [excuse EXCEPT !.muddled = TRUE, !.raced = @ \/ (excuse.held /\ Size = 0)]
            /\ UNCHANGED users
  /\ UNCHANGED <<world, spent>>

(* VirtualBrowserUser.start: the context, then the page.  Both may fail.   *)
OpenContext(c) ==
  /\ At(c, "opening") /\ user[task[c].user] \in {"opening", "doomed"}
  /\ LET u == task[c].user
     IN  \/ user[u] = "doomed" /\ Spawned(c, [user EXCEPT ![u] = "orphan"])
         \/ /\ user[u] = "opening" /\ user' = [user EXCEPT ![u] = "paging"]
            /\ UNCHANGED <<eng, users, task, excuse>>
         \/ Throw(c, [user EXCEPT ![u] = "gone"])
  /\ UNCHANGED <<world, spent>>

OpenPage(c) ==
  /\ At(c, "opening") /\ user[task[c].user] \in {"paging", "cut"}
  /\ LET u == task[c].user
     IN  \/ user[u] = "paging" /\ Spawned(c, [user EXCEPT ![u] = "live"])
         \/ Throw(c, [user EXCEPT ![u] = IF @ = "cut" THEN "gone" ELSE "barren"])
  /\ UNCHANGED <<world, spent>>

(* The pause between two users.                                            *)
Awake(c) ==
  /\ \/ At(c, "nap") /\ Climb(c, task[c], eng, task[c].i, user)
     \/ At(c, "rest") /\ Descend(c, task[c], eng, task[c].keys) /\ UNCHANGED excuse
  /\ UNCHANGED <<world, spent>>

Awaited(u) == u # NoUser /\ user[u] = "winding"

(* The user has stopped; its index is removed, whoever has it now.         *)
Stopped(c) ==
  /\ At(c, "stopping")
  /\ ~Awaited(task[c].user)
  /\ LET k == Min(task[c].keys)
         passed == [d \in Calls |-> IF At(d, "pausing") THEN [task[d] EXCEPT !.keys = @ \ {k}] ELSE task[d]]
     IN  /\ users' = IF task[c].user = NoUser THEN users ELSE [users EXCEPT ![k] = NoUser]
         /\ task' = [passed EXCEPT ![c] = [task[c] EXCEPT !.pc = "rest", !.keys = @ \ {k}]]
         /\ excuse' = IF task[c].user # NoUser /\ users[k] # task[c].user
                      THEN [excuse EXCEPT !.collided = @ \cup {users[k]}, !.muddled = TRUE] ELSE excuse
  /\ UNCHANGED <<eng, user, world, spent>>

(* The profile that a user is running comes to an end.                     *)
LoopEnds(u) ==
  /\ user[u] = "winding"
  /\ user' = [user EXCEPT ![u] = "gone"]
  /\ UNCHANGED <<eng, users, task, world, spent, excuse>>

-----------------------------------------------------------------------------
(* pause.                                                                  *)

(* Fault: pausing leaves the mark of a pause for a target that is down.    *)
PausedKeepingMark == [eng EXCEPT !.paused = TRUE, !.phase = "paused"]

Paused == [eng EXCEPT !.paused = TRUE, !.down = FALSE, !.phase = "paused"]

Asking(then) == [Blank EXCEPT !.pc = "asking", !.then = then]

(* applyScenario has changed the target, and resumes unless it had found   *)
(* the engine paused.                                                      *)
Onward(k, e) == IF k.back /\ e.reach /\ ~e.ramping THEN Asking("none") ELSE Idle

(* users.clear(), and on with the caller: a probe leaves its mark, a new   *)
(* target is probed if the configuration is still valid.                   *)
Clear(ts, c, k, e, x) ==
  \E valid \in BOOLEAN :
    /\ users' = [i \in Keys |-> NoUser]
    /\ task' = [d \in Calls |->
         IF d = c THEN CASE k.then = "probe" -> Onward(k, e)
                         [] k.then = "retarget" /\ valid -> [Blank EXCEPT !.pc = "ping", !.back = k.back]
                         [] OTHER -> Idle
         ELSE IF At(d, "pausing") THEN [ts[d] EXCEPT !.keys = {}] ELSE ts[d]]
    /\ eng' = [e EXCEPT !.down = @ \/ k.then = "probe",
                        !.degraded = @ /\ ~(k.then = "retarget" /\ valid)]
    /\ excuse' = [x EXCEPT !.muddled = OthersIn(ts, c) \/ ~e.paused, !.kept = FALSE,
                           !.raced = @ \/ (x.held /\ k.then = "probe")]
    /\ UNCHANGED user

(* Fault: users are dropped without waiting for those that are starting.   *)
DrainHasty(ts, c, k, e, x) == Clear(ts, c, k, e, x)

(* One turn of the loop over the map, which also visits users that are     *)
(* added while it runs.                                                    *)
Drain(ts, c, k, e, x) ==
  \/ Filled \subseteq k.keys /\ Clear(ts, c, k, e, x)
  \/ \E i \in Filled \ k.keys :
       /\ user' = StopUser(users[i])
       /\ task' = [ts EXCEPT ![c] = [k EXCEPT !.keys = @ \cup {i}, !.user = users[i]]]
       /\ eng' = e
       /\ excuse' = [x EXCEPT !.muddled = @ \/ Others(c)]
       /\ UNCHANGED users

Pausing(then) == [Blank EXCEPT !.pc = "pausing", !.then = then]

(* The user that pause waits for has stopped.                              *)
Drained(c) ==
  /\ At(c, "pausing")
  /\ ~Awaited(task[c].user)
  /\ Drain(task, c, task[c], eng, excuse)
  /\ UNCHANGED <<world, spent>>

-----------------------------------------------------------------------------
(* The calls.                                                              *)

(* The operator, or the leader, pauses: some call may be about to resume.  *)
Hold(c) == [excuse EXCEPT !.held = TRUE,
              !.raced = \E d \in Calls \ {c} : ~Free(d) /\ (task[d].pc = "asking" \/ task[d].back)]

Release == [excuse EXCEPT !.held = FALSE]

CallPause(c) ==
  /\ Free(c) /\ Spend
  /\ Drain(task, c, Pausing("none"), Paused, Hold(c))
  /\ UNCHANGED world

(* resume, up to its probe.                                                *)
CallResume(c) ==
  /\ Free(c) /\ ~eng.ramping /\ Spend
  /\ Set(c, Asking("none"))
  /\ excuse' = [Release EXCEPT !.muddled = @ \/ Others(c)]
  /\ UNCHANGED <<eng, users, user, world>>

(* The rest of resume: the browser may not start, the target be down.      *)
Asked(c) ==
  /\ At(c, "asking")
  /\ LET auto == task[c].then = "auto"
         e == [eng EXCEPT !.browser = TRUE]
         Refused(x) == /\ eng' = [x EXCEPT !.down = @ \/ auto]
                       /\ Set(c, Onward(task[c], x))
                       /\ excuse' = [excuse EXCEPT !.muddled = TRUE, !.kept = @ \/ Filled # {}]
                       /\ UNCHANGED <<users, user>>
     IN  \/ ~eng.browser /\ Refused(eng)
         \/ ~world.up /\ Refused([e EXCEPT !.paused = TRUE, !.phase = "paused"])
         \/ /\ world.up
            /\ RampTo(c, [e EXCEPT !.paused = FALSE, !.down = FALSE, !.degraded = FALSE,
                                   !.reach = TRUE, !.ramping = TRUE, !.phase = "ramping_up"],
                      eng.target, "resume")
            /\ UNCHANGED excuse
  /\ UNCHANGED <<world, spent>>

(* mergeConfig with another number of users.                               *)
SetUsers(c) ==
  /\ Free(c) /\ Spend
  /\ \E n \in 1 .. MaxTarget : RampTo(c, [eng EXCEPT !.target = n], n, "none")
  /\ Muddle(c)
  /\ UNCHANGED world

(* applyScenario: a scenario of another app also changes the target.       *)
SetScenario(c) ==
  /\ Free(c) /\ Spend
  /\ \E n \in 1 .. MaxTarget :
       \/ RampTo(c, [eng EXCEPT !.target = n], n, "scenario") /\ Muddle(c)
       \/ Drain(task, c, [Pausing("retarget") EXCEPT !.back = ~eng.paused],
                [Paused EXCEPT !.target = n], excuse)
  /\ UNCHANGED world

(* applyRumScenario, disableRumDemo, and applyRumBatchPreset, which may    *)
(* ask for more users.                                                     *)
ApplyRum(c) ==
  /\ Free(c) /\ Spend
  /\ \E n \in eng.target .. MaxTarget :
       LET e == [eng EXCEPT !.target = n]
       IN  IF eng.paused \/ eng.ramping THEN eng' = e /\ UNCHANGED <<users, user, task>>
           ELSE RampDown(c, [e EXCEPT !.ramping = TRUE, !.phase = "ramping_up"], "rumdown", n)
  /\ Muddle(c)
  /\ UNCHANGED world

(* A new target alone: reload-target, and mergeConfig.                     *)
Retarget(c) ==
  /\ Free(c) /\ Spend
  /\ Drain(task, c, Pausing("retarget"), Paused, excuse)
  /\ UNCHANGED world

(* The duration of the run is over.                                        *)
Stop(c) ==
  /\ Free(c) /\ eng.timers /\ Spend
  /\ RampDown(c, [eng EXCEPT !.phase = "ramping_down"], "stop", 0)
  /\ Muddle(c)
  /\ UNCHANGED world

(* The abort monitor, when too many actions fail: on_abort is any of pause,*)
(* degrade and exit (continue does nothing).                               *)
Monitor(c) ==
  /\ Free(c) /\ eng.timers /\ Spend
  /\ \/ Drain(task, c, Pausing("none"), Paused, excuse)
     \/ /\ RampTo(c, [eng EXCEPT !.degraded = TRUE, !.phase = "degraded"], eng.target, "none")
        /\ Muddle(c)
     \/ RampDown(c, [eng EXCEPT !.phase = "ramping_down"], "exit", 0) /\ Muddle(c)
  /\ UNCHANGED world

(* The process ends when stop() is done, and is started again.             *)
Exit(c) == At(c, "exit") /\ StartAgain(c) /\ UNCHANGED <<world, spent>>

(* A worker mirrors the leader: its configuration, and whether it is       *)
(* paused, if that is known too.  While neither is paused, every           *)
(* synchronisation ramps; a pause begins beside the ramp, in call d.       *)
SyncUsers(c) ==
  \E n \in 1 .. MaxTarget :
    LET e == [eng EXCEPT !.target = n]
    IN  \/ RampTo(c, e, n, "none") /\ Muddle(c)
        \/ /\ ~eng.paused /\ world.paused
           /\ \E d \in Calls \ {c} :
                /\ Free(d)
                /\ Drain([task EXCEPT ![d] = [Blank EXCEPT !.pc = "probing", !.to = n]], c,
                         Pausing("none"), [Paused EXCEPT !.target = n], [Hold(c) EXCEPT !.muddled = TRUE])
        \/ /\ eng.paused /\ ~world.paused /\ ~eng.ramping
           /\ eng' = e /\ Set(c, Asking("none"))
           /\ excuse' = [Release EXCEPT !.muddled = @ \/ Others(c)]
           /\ UNCHANGED <<users, user>>

(* A new target pauses the worker, which may resume at once, in call d.    *)
SyncTarget(c) ==
  \/ Drain(task, c, Pausing("retarget"), Paused, excuse)
  \/ /\ ~world.paused /\ ~eng.ramping
     /\ \E d \in Calls \ {c} :
          /\ Free(d)
          /\ Drain([task EXCEPT ![d] = Asking("none")], c, Pausing("retarget"), Paused,
                   [Release EXCEPT !.muddled = TRUE])

Sync(c) ==
  /\ ~world.leads /\ Free(c) /\ Spend
  /\ SyncUsers(c) \/ SyncTarget(c)
  /\ UNCHANGED world

-----------------------------------------------------------------------------
(* The probe loop.                                                         *)

Tick(c) ==
  /\ Free(c) /\ eng.timers /\ Spend
  /\ Set(c, [Blank EXCEPT !.pc = "ping"])
  /\ Muddle(c)
  /\ UNCHANGED <<eng, users, user, world>>

Pinged(c) ==
  /\ At(c, "ping")
  /\ eng' = [eng EXCEPT !.reach = world.up]
  /\ Set(c, [task[c] EXCEPT !.pc = "cms"])
  /\ UNCHANGED <<users, user, world, spent, excuse>>

ShouldAutoResume == eng.down /\ eng.paused /\ ~eng.degraded /\ eng.reach /\ ~eng.ramping

(* The rest of runProbeOnce, after the CMS was probed too.                 *)
Decide(c) ==
  /\ At(c, "cms")
  /\ LET back == task[c].back
         drop == ~eng.reach /\ Size > 0 /\ ~eng.paused
     IN  \/ drop /\ Drain(task, c, [Pausing("probe") EXCEPT !.back = back], Paused, excuse)
         \/ /\ ~drop
            /\ Set(c, IF ShouldAutoResume THEN [Asking("auto") EXCEPT !.back = back]
                      ELSE Onward(task[c], eng))
            /\ UNCHANGED <<eng, users, user, excuse>>
  /\ UNCHANGED <<world, spent>>

(* start: waitForFrontend, for two minutes at most.                        *)
Begin(c) ==
  /\ At(c, "begin")
  /\ \/ /\ world.up
        /\ eng' = [eng EXCEPT !.reach = TRUE]
        /\ Set(c, IF eng.paused THEN Idle ELSE [Blank EXCEPT !.pc = "probing", !.to = eng.target])
        /\ UNCHANGED excuse
     \/ /\ ~world.up
        /\ eng' = [eng EXCEPT !.paused = TRUE, !.down = TRUE, !.phase = "paused"]
        /\ Set(c, Idle)
        /\ excuse' = [excuse EXCEPT !.raced = @ \/ excuse.held, !.kept = @ \/ Filled # {}]
  /\ UNCHANGED <<users, user, world, spent>>

(* The frontend goes down or comes back; the leader changes its mind.      *)
Flip ==
  /\ spent.flips < MaxFlips
  /\ spent' = [spent EXCEPT !.flips = @ + 1]
  /\ \/ world' = [world EXCEPT !.up = ~@]
     \/ ~world.leads /\ world' = [world EXCEPT !.paused = ~@]
  /\ UNCHANGED <<eng, users, user, task, excuse>>

-----------------------------------------------------------------------------
Step(c) ==
  \/ Begin(c) \/ Probed(c) \/ OpenContext(c) \/ OpenPage(c) \/ Awake(c) \/ Stopped(c)
  \/ Drained(c) \/ Asked(c) \/ Pinged(c) \/ Decide(c) \/ Exit(c)

Call(c) ==
  \/ world.leads /\ (\/ CallPause(c) \/ CallResume(c) \/ SetUsers(c) \/ SetScenario(c)
                     \/ ApplyRum(c) \/ Retarget(c))
  \/ Stop(c) \/ Monitor(c) \/ Tick(c) \/ Sync(c)

Next ==
  \/ \E c \in Calls : Step(c) \/ Call(c)
  \/ \E u \in Objects : LoopEnds(u)
  \/ Flip

Spec == Init /\ [][Next]_vars

(* Promises settle, timers fire, and a profile that is aborted returns.    *)
FairSpec ==
  /\ Spec
  /\ \A c \in Calls : WF_vars(Step(c))
  /\ \A u \in Objects : WF_vars(LoopEnds(u))

-----------------------------------------------------------------------------
Resting == \A c \in Calls : Free(c)

(* A user whose browser context is open is in the map, where pause, ramps  *)
(* and the metrics find it; but for those that were given an index that    *)
(* was taken (rampTo counts from the size of the map), and those that were *)
(* stopped before they had a context.                                      *)
NoUserEscapes ==
  \A u \in Objects :
    user[u] \in {"opening", "paging", "live", "barren"} => u \in Range(users) \cup excuse.collided

(* When nothing is going on, the engine is what it says.  Paused, it has   *)
(* no user left, however its calls overlapped; but the code pauses without *)
(* stopping anyone when a resume finds the target down, a ramp of resume   *)
(* or RUM cannot start a user, or start() has waited in vain.  Running, it *)
(* has the users it was asked for, all at work, unless since the last      *)
(* pause calls overlapped, or a ramp gave up on a target that was down or  *)
(* a user that did not start.                                              *)
RestsAtTarget ==
  Resting /\ eng.timers =>
    IF eng.paused THEN Filled = {} \/ excuse.kept
    ELSE \/ Size = eng.target /\ eng.phase = "running" /\ \A k \in Filled : user[users[k]] = "live"
         \/ excuse.muddled

(* A pause, of the operator or of the leader on the pods that follow it,   *)
(* lasts until that one resumes; unless a call that was under way when it  *)
(* began resumes (a resume, or a scenario that changes the app) or leaves  *)
(* the mark on which auto-resume acts (a probe that finds the target       *)
(* down), or the process starts again.                                     *)
PauseHolds == excuse.held /\ ~excuse.raced => eng.paused

(* The flag that guards resume and RUM is released, however a ramp ends.   *)
RampsEnd == eng.ramping ~> ~eng.ramping
=============================================================================
