------------------------ MODULE LoadGenerator_proofs ------------------------
(***************************************************************************)
(* Theorems about the load generator: LoadEngine, for any number of users, *)
(* of user objects and of calls in flight, and LoadControl, for any pods,  *)
(* bodies, targets and scenarios that ControlAssumption admits, and        *)
(* however many calls and restarts.                                        *)
(*                                                                         *)
(*   NoUserIsLost        an open browser context is in the map of users    *)
(*   PausesHold          the pause that the operator or the leader has     *)
(*                       ordered lasts, unless a call under way ends it    *)
(*   RestIsAtTarget      an engine without overlapping calls comes to rest *)
(*                       with the users it was asked for, or paused and    *)
(*                       without users unless a ramp of it failed          *)
(*   ConfigsStayValid    what is in force on a pod passes the validation   *)
(*   SharesAreFair        pods that follow the leader share its users       *)
(*                                                                         *)
(* The first three follow from EngineInductive, which has four parts.      *)
(* Structure says what the map, the user objects and the locals of each    *)
(* call hold at every await: it is kept by a handful of kinds of step, to  *)
(* which the helpers that end a ramp, climb, descend and drain are         *)
(* reduced.  PauseSound says what may not be under way while a pause       *)
(* holds.  PausedSound says that the users left over while the engine is   *)
(* paused are being stopped or are those of a ramp that failed.  RestSound *)
(* says how far a call that is alone has got: its ramp down chooses as     *)
(* many indices as it has users to stop, which is proved of sets of        *)
(* numbers in general (FirstAreMany).                                      *)
(*                                                                         *)
(* ConfigsAreValid is kept by what a pod has fetched from the leader and   *)
(* will merge later: that was valid when it was read, and what is left of  *)
(* the pod's own configuration after the merge, nothing that is validated, *)
(* cannot spoil it.  Targets that wait may be anything, as they are        *)
(* resolved when they are put in force.                                    *)
(***************************************************************************)
EXTENDS LoadEngine, LoadControl, FiniteSetTheorems, WellFoundedInduction, TLAPS

Phases == {"idle", "ramping_up", "running", "ramping_down", "paused", "degraded", "stopped"}
States == {"opening", "doomed", "paging", "cut", "live", "winding", "barren", "orphan", "gone"}
Opened == {"opening", "paging", "live", "barren"}

Engine == [paused : BOOLEAN, down : BOOLEAN, ramping : BOOLEAN, degraded : BOOLEAN,
           target : 1 .. MaxTarget, phase : Phases, reach : BOOLEAN, browser : BOOLEAN,
           timers : BOOLEAN]

Excuse == [collided : SUBSET (Objects \cup {NoUser}), muddled : BOOLEAN, kept : BOOLEAN,
           held : BOOLEAN, raced : BOOLEAN]

World == [up : BOOLEAN, leads : BOOLEAN, paused : BOOLEAN, wait : BOOLEAN]

EngineTypeOK ==
  /\ eng \in Engine
  /\ users \in [Keys -> Objects \cup {NoUser}]
  /\ user \in [Objects -> States]
  /\ task \in [Calls -> Task \cup {Idle}]
  /\ world \in World
  /\ excuse \in Excuse

(* What the locals t of a call hold at its awaits, with the map m, the     *)
(* user objects us and the excused users x.  A user that is being stopped  *)
(* does not open again, and an index that a pause has been at has no user  *)
(* that it would lose.                                                     *)
Fits(t, m, us, x) ==
  /\ t \in Task
  /\ t.pc = "opening" => t.user \in Objects /\ t.i < t.to
  /\ t.pc = "stopping" => t.keys # {} /\ (t.user # NoUser => us[t.user] \notin Opened)
  /\ t.pc = "pausing" => \A i \in t.keys : m[i] # NoUser /\ (us[m[i]] \in Opened => m[i] \in x)

(* No user has two indices, and there is a browser until the timers are    *)
(* cleared.                                                                *)
MapSound ==
  /\ \A i, j \in Filled : users[i] = users[j] => i = j
  /\ eng.timers => eng.browser

Structure ==
  /\ EngineTypeOK /\ MapSound /\ NoUserEscapes
  /\ \A c \in Calls : ~Free(c) => Fits(task[c], users, user, excuse.collided)

-----------------------------------------------------------------------------
(* Indices and records *)

(* A set of indices that is not empty has a least one.                     *)
LEMMA Least ==
  ASSUME NEW S \in SUBSET Nat, S # {}
  PROVE  Min(S) \in S /\ \A j \in S : Min(S) <= j
<1>1. IsWellFoundedOn(OpToRel(<, Nat), Nat)
  BY NatLessThanWellFounded
<1>2. PICK i \in S : \A j \in S : <<j, i>> \notin OpToRel(<, Nat)
  BY <1>1, WFMin
<1>3. \A j \in S : i <= j
  <2> SUFFICES ASSUME NEW j \in S, j < i PROVE FALSE
    OBVIOUS
  <2>1. <<j, i>> \in Nat \X Nat
    OBVIOUS
  <2>2. <<j, i>> \in {ss \in Nat \X Nat : ss[1] < ss[2]}
    BY <2>1
  <2>3. <<j, i>> \in OpToRel(<, Nat)
    BY <2>2 DEF OpToRel
  <2> QED
    BY <1>2, <2>3
<1> QED
  BY <1>2, <1>3 DEF Min

LEMMA KeysNat ==
  ASSUME EngineAssumption
  PROVE  /\ Keys \subseteq Nat /\ Keys \subseteq 0 .. MaxTarget /\ IsFiniteSet(Keys)
         /\ MaxTarget \in Nat /\ MaxTarget >= 1
<1>1. MaxTarget \in Nat /\ MaxTarget >= 1
  BY DEF EngineAssumption
<1>2. IsFiniteSet(0 .. MaxTarget - 1)
  BY <1>1, FS_Interval
<1> QED
  BY <1>1, <1>2 DEF Keys

LEMMA SizeNat ==
  ASSUME EngineAssumption
  PROVE  /\ Filled \subseteq Keys /\ IsFiniteSet(Filled) /\ Size \in Nat
         /\ Size = 0 <=> Filled = {}
<1>1. Filled \subseteq Keys
  BY DEF Filled
<1>2. IsFiniteSet(Filled)
  BY <1>1, KeysNat, FS_Subset
<1> QED
  BY <1>1, <1>2, FS_CardinalityType, FS_EmptySet DEF Size

LEMMA BlankTask ==
  ASSUME EngineAssumption
  PROVE  /\ Blank \in Task /\ Blank.pc = "begin" /\ Blank.then = "none" /\ Blank.to = 0
         /\ Blank.i = 0 /\ Blank.keys = {} /\ Blank.user = NoUser /\ ~Blank.back
BY KeysNat DEF Blank, Task

LEMMA SameTask ==
  ASSUME NEW t \in Task, NEW k \in Task, t.pc = k.pc, t.then = k.then, t.to = k.to, t.i = k.i,
         t.keys = k.keys, t.user = k.user, t.back = k.back
  PROVE  t = k
BY DEF Task

LEMMA StartedEngine ==
  ASSUME EngineAssumption, world \in World
  PROVE  /\ Started \in Engine /\ Started.timers /\ Started.browser /\ ~Started.down
         /\ Started.paused = world.wait /\ Started.target = MaxTarget /\ ~Started.ramping
<1>1. world.wait \in BOOLEAN
  BY DEF World
<1>2. MaxTarget \in 1 .. MaxTarget
  BY KeysNat
<1> QED
  BY <1>1, <1>2 DEF Started, Engine, Phases

(* What fits goes on to fit when users close and excuses are added.        *)
LEMMA StillFits ==
  ASSUME NEW t, NEW m, NEW us, NEW x, Fits(t, m, us, x), m \in [Keys -> Objects \cup {NoUser}],
         NEW vs, NEW y, x \subseteq y,
         \A u \in Objects : vs[u] \in Opened => us[u] \in Opened
  PROVE  Fits(t, m, vs, y)
<1>1. t \in Task /\ t.user \in Objects \cup {NoUser} /\ t.keys \subseteq Keys
  BY DEF Fits, Task
<1> QED
  BY <1>1 DEF Fits

-----------------------------------------------------------------------------
(* The kinds of step that keep the structure *)

(* The map stays: no user opens that was not open, and every call keeps    *)
(* its locals, ends or goes on with some that fit.                         *)
LEMMA MapStays ==
  ASSUME Structure, users' = users, eng' \in Engine, eng'.timers => eng'.browser,
         user' \in [Objects -> States],
         \A u \in Objects : user'[u] \in Opened => user[u] \in Opened,
         world' \in World, excuse' \in Excuse, excuse.collided \subseteq excuse'.collided,
         task' \in [Calls -> Task \cup {Idle}],
         \A d \in Calls : \/ task'[d] = task[d] \/ task'[d] = Idle
                          \/ Fits(task'[d], users, user', excuse'.collided)
  PROVE  Structure'
<1>1. EngineTypeOK'
  BY DEF Structure, EngineTypeOK
<1>2. Filled' = Filled /\ Range(users)' = Range(users)
  BY DEF Filled
<1>3. MapSound'
  BY <1>2 DEF Structure, MapSound
<1>4. NoUserEscapes'
  BY <1>2 DEF Structure, NoUserEscapes, Opened
<1>5. ASSUME NEW d \in Calls, ~Free(d)'
      PROVE  Fits(task'[d], users', user', excuse'.collided)
  <2>1. task'[d] # Idle
    BY <1>5 DEF Free
  <2>2. CASE task'[d] = task[d]
    <3>1. Fits(task[d], users, user, excuse.collided)
      BY <2>1, <2>2 DEF Free, Structure
    <3>2. users \in [Keys -> Objects \cup {NoUser}]
      BY DEF Structure, EngineTypeOK
    <3> QED
      BY <2>2, <3>1, <3>2, StillFits
  <2> QED
    BY <1>5, <2>1, <2>2
<1> QED
  BY <1>1, <1>3, <1>4, <1>5 DEF Structure

(* A user is spawned at an index: one that was taken excuses both.         *)
LEMMA UserSpawned ==
  ASSUME Structure, EngineAssumption, NEW i \in Keys, NEW u \in Unused, NEW c \in Calls,
         users' = [users EXCEPT ![i] = u], user' = [user EXCEPT ![u] = "opening"],
         eng' \in Engine, eng'.timers => eng'.browser, world' = world,
         excuse' = IF users[i] = NoUser THEN [excuse EXCEPT !.collided = @ \ {u}]
                   ELSE [excuse EXCEPT !.collided = @ \cup {u, users[i]}, !.muddled = TRUE],
         task' \in [Calls -> Task \cup {Idle}],
         \A d \in Calls \ {c} : task'[d] = task[d],
         Fits(task'[c], users', user', excuse'.collided)
  PROVE  Structure'
<1>1. /\ u \in Objects /\ user[u] = "gone" /\ u \notin Range(users)
      /\ \A d \in Calls : ~Free(d) => task[d].user # u
  BY DEF Unused
<1>2. /\ users \in [Keys -> Objects \cup {NoUser}] /\ user \in [Objects -> States]
      /\ excuse \in Excuse /\ eng \in Engine /\ world \in World /\ u # NoUser
  BY <1>1 DEF Structure, EngineTypeOK, EngineAssumption
<1>3. \A k \in Keys : users[k] # u
  BY <1>1, <1>2 DEF Range
<1>4. /\ excuse' \in Excuse
      /\ excuse'.collided = IF users[i] = NoUser THEN excuse.collided \ {u}
                            ELSE excuse.collided \cup {u, users[i]}
  <2>1. CASE users[i] = NoUser
    BY <1>2, <2>1 DEF Excuse
  <2>2. CASE users[i] # NoUser
    <3>1. users[i] \in Objects
      BY <1>2, <2>2
    <3>2. excuse' = [excuse EXCEPT !.collided = @ \cup {u, users[i]}, !.muddled = TRUE]
      BY <2>2
    <3>3. excuse.collided \cup {u, users[i]} \in SUBSET (Objects \cup {NoUser})
      BY <1>1, <1>2, <3>1 DEF Excuse
    <3> QED
      BY <1>2, <2>2, <3>2, <3>3 DEF Excuse
  <2> QED
    BY <2>1, <2>2
<1>5. /\ users' \in [Keys -> Objects \cup {NoUser}] /\ users'[i] = u
      /\ \A k \in Keys : k # i => users'[k] = users[k]
  BY <1>1, <1>2
<1>6. /\ user' \in [Objects -> States] /\ user'[u] = "opening"
      /\ \A v \in Objects : v # u => user'[v] = user[v]
  BY <1>1, <1>2 DEF States
<1>7. EngineTypeOK'
  BY <1>2, <1>4, <1>5, <1>6 DEF EngineTypeOK
<1>8. MapSound'
  <2>1. ASSUME NEW j \in Filled', NEW k \in Filled', users'[j] = users'[k] PROVE j = k
    BY <1>2, <1>3, <1>5, <2>1 DEF Structure, MapSound, Filled
  <2> QED
    BY <2>1 DEF MapSound
<1>9. NoUserEscapes'
  <2> SUFFICES ASSUME NEW v \in Objects, user'[v] \in Opened
               PROVE  v \in Range(users') \cup excuse'.collided
    BY DEF NoUserEscapes, Opened
  <2>1. CASE v = u
    BY <1>5, <2>1 DEF Range
  <2>2. CASE v # u
    <3>1. v \in Range(users) \cup excuse.collided
      BY <1>6, <2>2 DEF Structure, NoUserEscapes, Opened
    <3>2. CASE v \in excuse.collided
      BY <1>4, <2>2, <3>2
    <3>3. CASE v \in Range(users)
      <4>1. PICK k \in Keys : users[k] = v
        BY <1>2, <3>3 DEF Range
      <4>2. CASE k = i
        BY <1>2, <1>4, <4>1, <4>2, EngineAssumption DEF EngineAssumption
      <4>3. CASE k # i
        BY <1>5, <4>1, <4>3 DEF Range
      <4> QED
        BY <4>2, <4>3
    <3> QED
      BY <3>1, <3>2, <3>3
  <2> QED
    BY <2>1, <2>2
<1>10. ASSUME NEW d \in Calls, ~Free(d)'
       PROVE  Fits(task'[d], users', user', excuse'.collided)
  <2>1. CASE d # c
    <3>1. task'[d] = task[d] /\ ~Free(d)
      BY <1>10, <2>1 DEF Free
    <3> DEFINE t == task[d]
    <3>2. Fits(t, users, user, excuse.collided) /\ t.user # u
      BY <1>1, <3>1 DEF Structure
    <3>3. t \in Task /\ t.user \in Objects \cup {NoUser} /\ t.keys \subseteq Keys
      BY <3>2 DEF Fits, Task
    <3> HIDE DEF t
    <3>4. t.pc = "stopping" => t.keys # {} /\ (t.user # NoUser => user'[t.user] \notin Opened)
      BY <1>6, <3>2, <3>3 DEF Fits
    <3>5. ASSUME t.pc = "pausing", NEW k \in t.keys
          PROVE  /\ users'[k] # NoUser
                 /\ user'[users'[k]] \in Opened => users'[k] \in excuse'.collided
      <4>1. users[k] # NoUser /\ (user[users[k]] \in Opened => users[k] \in excuse.collided)
        BY <3>2, <3>5 DEF Fits
      <4>2. CASE k = i
        BY <1>2, <1>4, <1>5, <4>1, <4>2
      <4>3. CASE k # i
        <5>1. users'[k] = users[k] /\ users[k] # u /\ users[k] \in Objects
          BY <1>2, <1>3, <1>5, <3>3, <4>1, <4>3
        <5> QED
          BY <1>4, <1>6, <4>1, <5>1
      <4> QED
        BY <4>2, <4>3
    <3> QED
      BY <3>1, <3>2, <3>3, <3>4, <3>5 DEF Fits, t
  <2> QED
    BY <2>1
<1> QED
  BY <1>7, <1>8, <1>9, <1>10 DEF Structure

(* The map is emptied, and no open user was in it but those of the excuse. *)
LEMMA MapCleared ==
  ASSUME Structure, users' = [i \in Keys |-> NoUser],
         \A i \in Filled : user[users[i]] \in Opened => users[i] \in excuse.collided,
         user' = user, eng' \in Engine, eng'.timers => eng'.browser, world' \in World,
         excuse' \in Excuse, excuse.collided \subseteq excuse'.collided,
         task' \in [Calls -> Task \cup {Idle}],
         \A d \in Calls : task'[d] # Idle => Fits(task'[d], users', user', excuse'.collided)
  PROVE  Structure'
<1>1. EngineTypeOK'
  BY DEF Structure, EngineTypeOK
<1>2. MapSound'
  BY DEF MapSound, Filled
<1>3. NoUserEscapes'
  <2> SUFFICES ASSUME NEW v \in Objects, user[v] \in Opened PROVE v \in excuse'.collided
    BY DEF NoUserEscapes, Opened
  <2>1. v \in Range(users) \cup excuse.collided
    BY DEF Structure, NoUserEscapes, Opened
  <2>2. CASE v \in Range(users)
    <3>1. PICK k \in Keys : users[k] = v
      BY <2>2 DEF Range, Structure, EngineTypeOK
    <3>2. v # NoUser
      BY EngineAssumption DEF EngineAssumption
    <3>3. k \in Filled
      BY <3>1, <3>2 DEF Filled
    <3> QED
      BY <3>1, <3>3
  <2> QED
    BY <2>1, <2>2
<1> QED
  BY <1>1, <1>2, <1>3 DEF Structure, Free

-----------------------------------------------------------------------------
(* What the helpers do *)

OnlyCall(c) ==
  /\ task' \in [Calls -> Task \cup {Idle}]
  /\ \A d \in Calls \ {c} : task'[d] = task[d]

LEMMA SetCall ==
  ASSUME Structure, NEW c \in Calls, NEW new \in Task \cup {Idle}, Set(c, new)
  PROVE  OnlyCall(c) /\ task'[c] = new
<1>1. task \in [Calls -> Task \cup {Idle}] /\ task' = [task EXCEPT ![c] = new]
  BY DEF Structure, EngineTypeOK, Set
<1> QED
  BY <1>1 DEF OnlyCall

(* Locals at an await that holds nothing of the map.                       *)
LEMMA PlainFits ==
  ASSUME NEW t \in Task, t.pc \notin {"opening", "stopping", "pausing"}
  PROVE  \A m, us, x : Fits(t, m, us, x)
BY DEF Fits

RumUp(k) == [Blank EXCEPT !.pc = "probing", !.then = "rumup", !.to = k.i]

LEMMA RumUpTask ==
  ASSUME EngineAssumption, NEW k \in Task
  PROVE  /\ RumUp(k) \in Task /\ RumUp(k).pc = "probing" /\ RumUp(k).then = "rumup"
         /\ RumUp(k).to = k.i /\ ~RumUp(k).back
BY BlankTask DEF RumUp, Task

Exiting == [Blank EXCEPT !.pc = "exit"]

(* Where a call is when its ramp has ended.                                *)
After(k) == {Idle, RumUp(k), Exiting}

LEMMA AfterFits ==
  ASSUME EngineAssumption, NEW k \in Task
  PROVE  /\ After(k) \subseteq Task \cup {Idle}
         /\ \A t \in After(k) \ {Idle} : \A m, us, x : Fits(t, m, us, x)
         /\ Exiting.pc = "exit" /\ Exiting.then = "none" /\ ~Exiting.back
<1>1. /\ Exiting \in Task /\ Exiting.pc = "exit" /\ Exiting.then = "none" /\ ~Exiting.back
  BY BlankTask DEF Exiting, Task
<1>2. \A m, us, x : Fits(Exiting, m, us, x) /\ Fits(RumUp(k), m, us, x)
  BY <1>1, RumUpTask, PlainFits
<1> QED
  BY <1>1, <1>2, RumUpTask DEF After

(* The end of a ramp: its call ends, but for the second ramp of RUM and    *)
(* the end of the process; only stop() touches the users, and closes them. *)
Returned(c, k, e, us) ==
  /\ eng' \in Engine /\ (eng'.timers => eng'.browser)
  /\ eng'.down = e.down /\ eng'.target = e.target
  /\ e.paused => eng'.paused /\ task'[c] \in {Idle, Exiting}
  /\ user' \in [Objects -> States]
  /\ \A u \in Objects : user'[u] \in Opened => user'[u] = us[u]
  /\ OnlyCall(c) /\ task'[c] \in After(k)
  /\ k.then \notin {"rumdown", "exit"} => task'[c] = Idle
  /\ k.then = "rumdown" /\ ~e.paused => task'[c] = RumUp(k) /\ eng' = e
  /\ k.then \in {"stop", "exit"} => ~eng'.timers /\ eng'.paused = e.paused
  /\ k.then \notin {"stop", "exit"} => user' = us /\ eng'.timers = e.timers
  /\ k.then \in {"none", "scenario", "rumup"} => eng'.paused = e.paused /\ eng'.phase = e.phase
  /\ k.then = "resume" /\ ~e.paused =>
       IF Filled = {} THEN eng'.paused ELSE ~eng'.paused /\ eng'.phase = "running"
  /\ eng'.paused => e.paused \/ Filled = {}
  /\ eng'.ramping => e.ramping /\ k.then \notin {"resume", "rumup"}

LEMMA ReturnDoes ==
  ASSUME EngineAssumption, Structure, NEW c \in Calls, NEW k \in Task, NEW e \in Engine,
         e.timers => e.browser, NEW us \in [Objects -> States], Return(c, k, e, us)
  PROVE  Returned(c, k, e, us)
<1>1. RumUp(k) \in Task
  BY RumUpTask
<1>2. CASE k.then = "resume"
  <2>1. /\ eng' = IF e.paused THEN [e EXCEPT !.ramping = FALSE]
                  ELSE IF Filled = {}
                  THEN [e EXCEPT !.ramping = FALSE, !.paused = TRUE, !.phase = "paused"]
                  ELSE [e EXCEPT !.ramping = FALSE, !.phase = "running"]
        /\ Set(c, Idle) /\ user' = us
    BY <1>2 DEF Return
  <2>2. OnlyCall(c) /\ task'[c] = Idle
    BY <2>1, SetCall
  <2>3. /\ eng' \in Engine /\ eng'.timers = e.timers /\ eng'.browser = e.browser
        /\ eng'.down = e.down /\ eng'.target = e.target
        /\ e.paused => eng'.paused
        /\ ~e.paused => IF Filled = {} THEN eng'.paused ELSE ~eng'.paused /\ eng'.phase = "running"
        /\ ~eng'.ramping
    <3>1. CASE e.paused
      BY <2>1, <3>1 DEF Engine, Phases
    <3>2. CASE ~e.paused /\ Filled = {}
      BY <2>1, <3>2 DEF Engine, Phases
    <3>3. CASE ~e.paused /\ Filled # {}
      BY <2>1, <3>3 DEF Engine, Phases
    <3> QED
      BY <3>1, <3>2, <3>3
  <2> QED
    BY <1>2, <2>1, <2>2, <2>3 DEF Returned, After
<1>3. CASE k.then = "rumdown" /\ ~e.paused
  <2>1. eng' = e /\ Set(c, RumUp(k)) /\ user' = us
    BY <1>3 DEF Return, RumUp
  <2>2. OnlyCall(c) /\ task'[c] = RumUp(k)
    BY <1>1, <2>1, SetCall
  <2> QED
    BY <1>3, <2>1, <2>2 DEF Returned, After
<1>4. CASE k.then \in {"stop", "exit"}
  <2>1. /\ eng' = [e EXCEPT !.browser = FALSE, !.phase = "stopped", !.timers = FALSE]
        /\ user' = [u \in Objects |-> IF us[u] \in {"opening", "paging", "doomed", "cut"}
                                      THEN "cut" ELSE "gone"]
        /\ Set(c, IF k.then = "exit" THEN Exiting ELSE Idle)
    BY <1>4 DEF Return, Exiting
  <2>2. OnlyCall(c) /\ task'[c] = IF k.then = "exit" THEN Exiting ELSE Idle
    BY <2>1, AfterFits, SetCall DEF After
  <2>3. /\ eng' \in Engine /\ ~eng'.timers /\ eng'.down = e.down /\ eng'.target = e.target
        /\ eng'.paused = e.paused /\ eng'.ramping = e.ramping
    BY <2>1 DEF Engine, Phases
  <2>4. user' \in [Objects -> States] /\ \A u \in Objects : user'[u] \notin Opened
    BY <2>1 DEF States, Opened
  <2> QED
    BY <1>4, <2>1, <2>2, <2>3, <2>4 DEF Returned, After
<1>5. CASE k.then \notin {"resume", "stop", "exit"} /\ ~(k.then = "rumdown" /\ ~e.paused)
  <2>1. /\ eng' = [e EXCEPT !.ramping = @ /\ k.then \in {"none", "scenario"}]
        /\ Set(c, Idle) /\ user' = us
    BY <1>5 DEF Return
  <2>2. OnlyCall(c) /\ task'[c] = Idle
    BY <2>1, SetCall
  <2>3. (e.ramping /\ k.then \in {"none", "scenario"}) \in BOOLEAN
    OBVIOUS
  <2>4. /\ eng' \in Engine /\ eng'.timers = e.timers /\ eng'.browser = e.browser
        /\ eng'.down = e.down /\ eng'.target = e.target
        /\ eng'.paused = e.paused /\ eng'.phase = e.phase
        /\ eng'.ramping = (e.ramping /\ k.then \in {"none", "scenario"})
    BY <2>1, <2>3 DEF Engine
  <2> QED
    BY <1>5, <2>1, <2>2, <2>4 DEF Returned, After
<1> QED
  BY <1>2, <1>3, <1>4, <1>5 DEF Returned, After

(* The structure when a ramp ends.                                         *)
LEMMA ReturnKeeps ==
  ASSUME EngineAssumption, Structure, NEW c \in Calls, NEW k \in Task, NEW e \in Engine,
         e.timers => e.browser, NEW us \in [Objects -> States], Return(c, k, e, us),
         \A u \in Objects : us[u] \in Opened => user[u] \in Opened,
         users' = users, world' = world, excuse' \in Excuse, excuse.collided \subseteq excuse'.collided
  PROVE  Structure'
<1>1. /\ eng' \in Engine /\ (eng'.timers => eng'.browser)
      /\ user' \in [Objects -> States]
      /\ \A u \in Objects : user'[u] \in Opened => user'[u] = us[u]
      /\ OnlyCall(c) /\ task'[c] \in After(k)
  BY ReturnDoes DEF Returned
<1>2. \A u \in Objects : user'[u] \in Opened => user[u] \in Opened
  BY <1>1
<1>3. \A d \in Calls : \/ task'[d] = task[d] \/ task'[d] = Idle
                       \/ Fits(task'[d], users, user', excuse'.collided)
  <2>1. \A t \in After(k) \ {Idle} : Fits(t, users, user', excuse'.collided)
    BY AfterFits
  <2> QED
    BY <1>1, <2>1 DEF OnlyCall
<1>4. world' \in World
  BY DEF Structure, EngineTypeOK
<1> QED
  BY <1>1, <1>2, <1>3, <1>4, MapStays DEF OnlyCall

Phased(e, phase) == [e EXCEPT !.phase = phase]

LEMMA PhasedEngine ==
  ASSUME NEW e \in Engine, NEW phase \in Phases
  PROVE  /\ Phased(e, phase) \in Engine /\ Phased(e, phase).phase = phase
         /\ Phased(e, phase).paused = e.paused /\ Phased(e, phase).down = e.down
         /\ Phased(e, phase).target = e.target /\ Phased(e, phase).timers = e.timers
         /\ Phased(e, phase).browser = e.browser /\ Phased(e, phase).ramping = e.ramping
BY DEF Phased, Engine

(* The locals of a climb while it waits, and when it has spawned.          *)
Napping(k, i) == [k EXCEPT !.pc = "nap", !.i = i + 1]
Opening(k, i, u) == [k EXCEPT !.pc = "opening", !.i = i, !.user = u]

LEMMA ClimbTasks ==
  ASSUME EngineAssumption, NEW k \in Task, NEW i \in 0 .. MaxTarget, i < k.to
  PROVE  /\ Napping(k, i) \in Task /\ Napping(k, i).pc = "nap" /\ Napping(k, i).i = i + 1
         /\ Napping(k, i).then = k.then /\ Napping(k, i).to = k.to
         /\ Napping(k, i).back = k.back
         /\ \A u \in Objects :
              /\ Opening(k, i, u) \in Task /\ Opening(k, i, u).pc = "opening"
              /\ Opening(k, i, u).i = i /\ Opening(k, i, u).user = u
              /\ Opening(k, i, u).then = k.then /\ Opening(k, i, u).to = k.to
         /\ i \in Keys
<1>1. MaxTarget \in Nat /\ k.to \in 0 .. MaxTarget
  BY KeysNat DEF Task
<1>2. i + 1 \in 0 .. MaxTarget /\ i \in Keys
  BY <1>1 DEF Keys
<1>3. /\ Napping(k, i) \in Task /\ Napping(k, i).pc = "nap" /\ Napping(k, i).i = i + 1
      /\ Napping(k, i).then = k.then /\ Napping(k, i).to = k.to /\ Napping(k, i).back = k.back
  BY <1>2 DEF Napping, Task
<1>4. ASSUME NEW u \in Objects
      PROVE  /\ Opening(k, i, u) \in Task /\ Opening(k, i, u).pc = "opening"
             /\ Opening(k, i, u).i = i /\ Opening(k, i, u).user = u
             /\ Opening(k, i, u).then = k.then /\ Opening(k, i, u).to = k.to
  BY DEF Opening, Task
<1> QED
  BY <1>2, <1>3, <1>4

(* A turn of the ramp up: it ends, waits, or spawns a user.                *)
ClimbEnds(c, k, e, i, us) ==
  /\ e.paused \/ i >= k.to
  /\ Return(c, k, Phased(e, "running"), us) /\ users' = users /\ excuse' = excuse

ClimbWaits(c, k, e, i, us) ==
  /\ ~e.paused /\ i < k.to /\ ~e.browser
  /\ Set(c, Napping(k, i)) /\ eng' = e /\ user' = us /\ users' = users /\ excuse' = excuse

ClimbSpawns(c, k, e, i, us, u) ==
  /\ ~e.paused /\ i < k.to /\ e.browser
  /\ user' = [us EXCEPT ![u] = "opening"]
  /\ users' = [users EXCEPT ![i] = u]
  /\ Set(c, Opening(k, i, u))
  /\ eng' = e
  /\ excuse' = IF users[i] = NoUser THEN [excuse EXCEPT !.collided = @ \ {u}]
               ELSE [excuse EXCEPT !.collided = @ \cup {u, users[i]}, !.muddled = TRUE]

LEMMA ClimbDoes ==
  ASSUME NEW c, NEW k, NEW e \in Engine, NEW i \in Nat, NEW us, k.to \in Nat, Climb(c, k, e, i, us)
  PROVE  \/ ClimbEnds(c, k, e, i, us)
         \/ ClimbWaits(c, k, e, i, us)
         \/ \E u \in Unused : ClimbSpawns(c, k, e, i, us, u)
<1>1. CASE e.paused \/ i >= k.to
  <2>1. Return(c, k, [e EXCEPT !.phase = "running"], us) /\ UNCHANGED <<users, excuse>>
    BY <1>1 DEF Climb
  <2>2. [e EXCEPT !.phase = "running"] = Phased(e, "running")
    BY DEF Phased
  <2> QED
    BY <1>1, <2>1, <2>2 DEF ClimbEnds
<1>2. CASE ~(e.paused \/ i >= k.to) /\ (~e.paused /\ i < k.to /\ ~e.browser)
  BY <1>2 DEF Climb, Napping, ClimbWaits
<1>3. CASE ~(e.paused \/ i >= k.to) /\ ~(~e.paused /\ i < k.to /\ ~e.browser)
  <2> DEFINE u == CHOOSE o \in Unused : TRUE
  <2>1. /\ Unused # {}
        /\ user' = [us EXCEPT ![u] = "opening"]
        /\ users' = [users EXCEPT ![i] = u]
        /\ Set(c, Opening(k, i, u))
        /\ eng' = e
        /\ excuse' = IF users[i] = NoUser THEN [excuse EXCEPT !.collided = @ \ {u}]
                     ELSE [excuse EXCEPT !.collided = @ \cup {u, users[i]}, !.muddled = TRUE]
    BY <1>3 DEF Climb, Opening
  <2>2. u \in Unused
    BY <2>1
  <2>3. ~e.paused /\ i < k.to /\ e.browser
    BY <1>3
  <2>4. ClimbSpawns(c, k, e, i, us, u)
    BY <2>1, <2>3 DEF ClimbSpawns
  <2> QED
    BY <2>2, <2>4
<1> QED
  BY <1>1, <1>2, <1>3

LEMMA ClimbKeeps ==
  ASSUME EngineAssumption, Structure, NEW c \in Calls, NEW k \in Task, NEW e \in Engine,
         e.timers => e.browser, NEW i \in 0 .. MaxTarget, NEW us \in [Objects -> States],
         Climb(c, k, e, i, us), us = user \/ i >= k.to,
         \A u \in Objects : us[u] \in Opened => user[u] \in Opened,
         world' = world
  PROVE  Structure'
<1>1. /\ excuse \in Excuse /\ eng \in Engine /\ world \in World
      /\ i \in Nat /\ k.to \in Nat
  BY KeysNat DEF Structure, EngineTypeOK, Task
<1>2. CASE ClimbEnds(c, k, e, i, us)
  <2>1. /\ Phased(e, "running") \in Engine
        /\ Phased(e, "running").timers => Phased(e, "running").browser
    BY PhasedEngine DEF Phases
  <2> QED
    BY <1>1, <1>2, <2>1, ReturnKeeps DEF ClimbEnds
<1>3. CASE ClimbWaits(c, k, e, i, us)
  <2>1. Napping(k, i) \in Task /\ Napping(k, i).pc = "nap"
    BY <1>3, ClimbTasks DEF ClimbWaits
  <2>2. OnlyCall(c) /\ task'[c] = Napping(k, i)
    BY <1>3, <2>1, SetCall DEF ClimbWaits
  <2>3. Fits(Napping(k, i), users, user', excuse'.collided)
    BY <2>1, PlainFits
  <2>4. \A d \in Calls : task'[d] = task[d] \/ Fits(task'[d], users, user', excuse'.collided)
    BY <2>2, <2>3 DEF OnlyCall
  <2> QED
    BY <1>1, <1>3, <2>2, <2>4, MapStays DEF OnlyCall, ClimbWaits
<1>4. ASSUME NEW u \in Unused, ClimbSpawns(c, k, e, i, us, u)
      PROVE  Structure'
  <2>1. i < k.to /\ us = user /\ u \in Objects
    BY <1>1, <1>4 DEF Unused, ClimbSpawns
  <2>2. /\ Opening(k, i, u) \in Task /\ Opening(k, i, u).pc = "opening"
        /\ Opening(k, i, u).i = i /\ Opening(k, i, u).user = u /\ Opening(k, i, u).to = k.to
        /\ i \in Keys
    BY <2>1, ClimbTasks
  <2>3. OnlyCall(c) /\ task'[c] = Opening(k, i, u)
    BY <1>4, <2>2, SetCall DEF ClimbSpawns
  <2>4. Fits(task'[c], users', user', excuse'.collided)
    BY <2>1, <2>2, <2>3 DEF Fits
  <2> QED
    BY <1>4, <2>1, <2>2, <2>3, <2>4, UserSpawned DEF OnlyCall, ClimbSpawns
<1> QED
  BY <1>1, <1>2, <1>3, <1>4, ClimbDoes

LEMMA SpawnedKeeps ==
  ASSUME EngineAssumption, Structure, NEW c \in Calls, At(c, "opening"),
         NEW us \in [Objects -> States], Spawned(c, us),
         \A u \in Objects : us[u] \in Opened => user[u] \in Opened,
         world' = world
  PROVE  Structure'
<1> DEFINE k == task[c]
<1>1. k \in Task /\ k.i < k.to /\ eng \in Engine /\ (eng.timers => eng.browser)
  BY DEF Structure, EngineTypeOK, MapSound, At, Fits
<1>2. k.i \in 0 .. MaxTarget /\ k.to \in 0 .. MaxTarget
  BY <1>1 DEF Task
<1>3. CASE k.i + 1 < k.to
  <2>1. /\ Set(c, Napping(k, k.i)) /\ user' = us /\ UNCHANGED <<eng, users, excuse>>
    BY <1>3 DEF Spawned, Napping
  <2>2. Napping(k, k.i) \in Task /\ Napping(k, k.i).pc = "nap"
    BY <1>1, <1>2, ClimbTasks
  <2>3. OnlyCall(c) /\ task'[c] = Napping(k, k.i)
    BY <2>1, <2>2, SetCall
  <2>4. Fits(Napping(k, k.i), users, user', excuse'.collided)
    BY <2>2, PlainFits
  <2>5. \A d \in Calls : task'[d] = task[d] \/ Fits(task'[d], users, user', excuse'.collided)
    BY <2>3, <2>4 DEF OnlyCall
  <2>6. excuse \in Excuse /\ world \in World
    BY DEF Structure, EngineTypeOK
  <2> QED
    BY <1>1, <2>1, <2>3, <2>5, <2>6, MapStays DEF OnlyCall
<1>4. CASE ~(k.i + 1 < k.to)
  <2>1. Climb(c, k, eng, k.to, us)
    BY <1>4 DEF Spawned
  <2> QED
    BY <1>1, <1>2, <2>1, ClimbKeeps, KeysNat
<1> QED
  BY <1>3, <1>4

(* The process starts again.                                               *)
LEMMA RestartKeeps ==
  ASSUME EngineAssumption, Structure, NEW c \in Calls, StartAgain(c), world' = world
  PROVE  Structure'
<1>1. world \in World /\ excuse \in Excuse
  BY DEF Structure, EngineTypeOK
<1>2. /\ eng' = Started
      /\ user' = [o \in Objects |-> "gone"]
      /\ users' = [i \in Keys |-> NoUser]
      /\ task' = [d \in Calls |-> IF d = c /\ ~world.wait THEN Blank ELSE Idle]
      /\ excuse' = [NoExcuse EXCEPT !.held = excuse.held, !.raced = TRUE]
  BY DEF StartAgain
<1>3. excuse' \in Excuse
  BY <1>1, <1>2 DEF NoExcuse, Excuse
<1>4. EngineTypeOK'
  BY <1>1, <1>2, <1>3, StartedEngine, BlankTask DEF EngineTypeOK, States
<1>5. MapSound'
  BY <1>1, <1>2, StartedEngine DEF MapSound, Filled
<1>6. NoUserEscapes'
  BY <1>2 DEF NoUserEscapes
<1>7. ASSUME NEW d \in Calls, task'[d] # Idle
      PROVE  Fits(task'[d], users', user', excuse'.collided)
  BY <1>2, <1>7, BlankTask, PlainFits
<1> QED
  BY <1>4, <1>5, <1>6, <1>7 DEF Structure, Free

(* A ramp throws: its call ends, and may pause, or the process restarts.   *)
Caught(c) == task[c].then \in {"resume", "rumdown", "rumup"}

Thrown(c, us) ==
  /\ IF Caught(c)
     THEN /\ eng' \in Engine /\ eng'.paused /\ eng'.timers = eng.timers
          /\ eng'.browser = eng.browser /\ eng'.down = eng.down /\ eng'.target = eng.target
     ELSE task[c].then = "scenario" /\ eng' = eng
  /\ user' = us /\ users' = users
  /\ OnlyCall(c) /\ task'[c] = Idle
  /\ excuse' \in Excuse /\ excuse'.collided = excuse.collided
  /\ excuse'.held = excuse.held /\ excuse'.raced = excuse.raced
  /\ excuse'.muddled /\ (excuse'.kept <=> excuse.kept \/ Filled # {})

LEMMA ThrowDoes ==
  ASSUME Structure, NEW c \in Calls, NEW us, Throw(c, us)
  PROVE  Thrown(c, us) \/ StartAgain(c)
<1> DEFINE paused == [eng EXCEPT !.paused = TRUE, !.phase = "paused", !.ramping = FALSE]
<1>1. /\ eng \in Engine /\ excuse \in Excuse
  BY DEF Structure, EngineTypeOK
<1>2. CASE Caught(c) \/ task[c].then = "scenario"
  <2>1. /\ eng' = IF Caught(c) THEN paused ELSE eng
        /\ user' = us /\ users' = users /\ Set(c, Idle)
        /\ excuse' = [excuse EXCEPT !.muddled = TRUE, !.kept = @ \/ Filled # {}]
    BY <1>2 DEF Throw, Caught
  <2>2. /\ paused \in Engine /\ paused.paused /\ paused.timers = eng.timers
        /\ paused.browser = eng.browser /\ paused.down = eng.down /\ paused.target = eng.target
    BY <1>1 DEF Engine, Phases
  <2>3. (excuse.kept \/ Filled # {}) \in BOOLEAN
    BY <1>1 DEF Excuse
  <2>4. /\ excuse' \in Excuse /\ excuse'.collided = excuse.collided
        /\ excuse'.held = excuse.held /\ excuse'.raced = excuse.raced
        /\ excuse'.muddled /\ (excuse'.kept <=> excuse.kept \/ Filled # {})
    BY <1>1, <2>1, <2>3 DEF Excuse
  <2>5. OnlyCall(c) /\ task'[c] = Idle
    BY <2>1, SetCall
  <2> HIDE DEF paused
  <2> QED
    BY <1>2, <2>1, <2>2, <2>4, <2>5 DEF Thrown
<1>3. CASE ~(Caught(c) \/ task[c].then = "scenario")
  BY <1>3 DEF Throw, Caught
<1> QED
  BY <1>2, <1>3

LEMMA ThrowKeeps ==
  ASSUME EngineAssumption, Structure, NEW c \in Calls, NEW us \in [Objects -> States], Throw(c, us),
         \A u \in Objects : us[u] \in Opened => user[u] \in Opened, world' = world
  PROVE  Structure'
<1>1. CASE StartAgain(c)
  BY <1>1, RestartKeeps
<1>2. CASE Thrown(c, us)
  <2>1. eng \in Engine /\ (eng.timers => eng.browser) /\ world \in World
    BY DEF Structure, EngineTypeOK, MapSound
  <2>2. eng' \in Engine /\ (eng'.timers => eng'.browser)
    BY <1>2, <2>1 DEF Thrown
  <2> QED
    BY <1>2, <2>1, <2>2, MapStays DEF OnlyCall, Thrown
<1> QED
  BY <1>1, <1>2, ThrowDoes

LEMMA StopUserDoes ==
  ASSUME Structure, NEW u \in Objects
  PROVE  /\ StopUser(u) \in [Objects -> States]
         /\ StopUser(u)[u] \notin Opened
         /\ \A v \in Objects : StopUser(u)[v] \in Opened => user[v] \in Opened
<1>1. user \in [Objects -> States]
  BY DEF Structure, EngineTypeOK
<1>2. StopUser(u)[u] = CASE user[u] = "opening" -> "doomed" [] user[u] = "paging" -> "cut"
                         [] user[u] = "live" -> "winding"
                         [] user[u] \in {"barren", "orphan"} -> "gone" [] OTHER -> user[u]
  BY <1>1 DEF StopUser
<1>3. StopUser(u)[u] \in States \ Opened
  BY <1>1, <1>2 DEF States, Opened
<1>4. StopUser(u) = [user EXCEPT ![u] = StopUser(u)[u]]
  BY <1>1, <1>2 DEF StopUser
<1> QED
  BY <1>1, <1>3, <1>4

Stopping(k, keys, u) == [k EXCEPT !.pc = "stopping", !.keys = keys, !.user = u]

LEMMA StoppingTask ==
  ASSUME NEW k \in Task, NEW keys \in SUBSET Keys, NEW u \in Objects \cup {NoUser}
  PROVE  /\ Stopping(k, keys, u) \in Task /\ Stopping(k, keys, u).pc = "stopping"
         /\ Stopping(k, keys, u).keys = keys /\ Stopping(k, keys, u).user = u
         /\ Stopping(k, keys, u).then = k.then /\ Stopping(k, keys, u).to = k.to
         /\ Stopping(k, keys, u).i = k.i /\ Stopping(k, keys, u).back = k.back
BY DEF Stopping, Task

(* A turn of the ramp down: it ends, or stops the first of its indices.    *)
LEMMA DescendKeeps ==
  ASSUME EngineAssumption, Structure, NEW c \in Calls, NEW k \in Task, NEW e \in Engine,
         e.timers => e.browser, NEW keys \in SUBSET Keys, Descend(c, k, e, keys),
         world' = world, excuse' \in Excuse, excuse.collided \subseteq excuse'.collided
  PROVE  Structure'
<1>1. /\ user \in [Objects -> States] /\ users \in [Keys -> Objects \cup {NoUser}]
      /\ world \in World /\ users' = users
  BY DEF Structure, EngineTypeOK, Descend
<1>2. CASE keys = {}
  <2>1. PICK phase \in Phases : Return(c, k, Phased(e, phase), user)
    BY <1>2 DEF Descend, Phased, Phases
  <2> QED
    BY <1>1, <2>1, PhasedEngine, ReturnKeeps
<1>3. CASE keys # {}
  <2>1. PICK i : i = Min(keys)
    OBVIOUS
  <2>2. /\ user' = IF users[i] = NoUser THEN user ELSE StopUser(users[i])
        /\ Set(c, Stopping(k, keys, users[i])) /\ eng' = e
    BY <1>3, <2>1 DEF Descend, Stopping
  <2>3. i \in Keys
    BY <1>3, <2>1, Least, KeysNat
  <2>4. users[i] \in Objects \cup {NoUser}
    BY <1>1, <2>3
  <2>5. /\ user' \in [Objects -> States]
        /\ \A v \in Objects : user'[v] \in Opened => user[v] \in Opened
        /\ users[i] # NoUser => user'[users[i]] \notin Opened
    BY <1>1, <2>2, <2>4, StopUserDoes
  <2>6. OnlyCall(c) /\ task'[c] = Stopping(k, keys, users[i])
    BY <2>2, <2>4, StoppingTask, SetCall
  <2>7. Fits(Stopping(k, keys, users[i]), users, user', excuse'.collided)
    BY <1>3, <2>4, <2>5, StoppingTask DEF Fits
  <2>8. \A d \in Calls : task'[d] = task[d] \/ Fits(task'[d], users, user', excuse'.collided)
    BY <2>6, <2>7 DEF OnlyCall
  <2> QED
    BY <1>1, <2>2, <2>5, <2>6, <2>8, MapStays DEF OnlyCall
<1> QED
  BY <1>2, <1>3

(* The rest of rampTo.                                                     *)
LEMMA PlanKeeps ==
  ASSUME EngineAssumption, Structure, NEW c \in Calls, NEW k \in Task, NEW e \in Engine,
         e.timers => e.browser, Plan(c, k, e), world' = world
  PROVE  Structure'
<1>1. /\ user \in [Objects -> States] /\ excuse \in Excuse /\ Size \in Nat /\ Filled \subseteq Keys
      /\ k.to \in 0 .. MaxTarget /\ MaxTarget \in Nat
  BY SizeNat, KeysNat DEF Structure, EngineTypeOK, Task
<1>2. CASE k.to > Size
  <2>1. Climb(c, k, Phased(e, "ramping_up"), Size, user)
    BY <1>2 DEF Plan, Phased
  <2>2. /\ Phased(e, "ramping_up") \in Engine
        /\ Phased(e, "ramping_up").timers => Phased(e, "ramping_up").browser
    BY PhasedEngine DEF Phases
  <2>3. Size \in 0 .. MaxTarget
    BY <1>1, <1>2
  <2> QED
    BY <1>1, <2>1, <2>2, <2>3, ClimbKeeps
<1>3. CASE k.to < Size
  <2> DEFINE first == {i \in Filled : Cardinality({j \in Filled : j < i}) < Size - k.to}
  <2>1. Descend(c, k, Phased(e, "ramping_down"), first) /\ first \in SUBSET Keys
    BY <1>1, <1>3 DEF Plan, Phased
  <2>2. /\ Phased(e, "ramping_down") \in Engine
        /\ Phased(e, "ramping_down").timers => Phased(e, "ramping_down").browser
    BY PhasedEngine DEF Phases
  <2>3. excuse' = excuse
    BY <1>1, <1>3 DEF Plan
  <2> QED
    BY <1>1, <2>1, <2>2, <2>3, DescendKeeps
<1>4. CASE k.to = Size
  <2>1. PICK phase \in Phases : Return(c, k, Phased(e, phase), user)
    BY <1>1, <1>4 DEF Plan, Phased, Phases
  <2>2. users' = users /\ excuse' = excuse
    BY <1>1, <1>4 DEF Plan
  <2> QED
    BY <1>1, <2>1, <2>2, PhasedEngine, ReturnKeeps
<1> QED
  BY <1>1, <1>2, <1>3, <1>4

Thens == {"none", "scenario", "resume", "rumdown", "rumup", "stop", "exit", "retarget", "probe", "auto"}

Ramp(to, then) == [Blank EXCEPT !.pc = "probing", !.to = to, !.then = then]

LEMMA RampTask ==
  ASSUME EngineAssumption, NEW to \in 0 .. MaxTarget, NEW then \in Thens
  PROVE  /\ Ramp(to, then) \in Task /\ Ramp(to, then).pc = "probing"
         /\ Ramp(to, then).to = to /\ Ramp(to, then).then = then /\ ~Ramp(to, then).back
BY BlankTask DEF Ramp, Task, Thens

LEMMA PlainRamp ==
  ASSUME EngineAssumption, NEW to \in 0 .. MaxTarget
  PROVE  /\ Ramp(to, "none") \in Task /\ Ramp(to, "none").pc = "probing"
         /\ Ramp(to, "none").to = to /\ Ramp(to, "none").then = "none" /\ ~Ramp(to, "none").back
         /\ [Blank EXCEPT !.pc = "probing", !.to = to] = Ramp(to, "none")
<1>1. /\ Ramp(to, "none") \in Task /\ Ramp(to, "none").pc = "probing"
      /\ Ramp(to, "none").to = to /\ Ramp(to, "none").then = "none" /\ ~Ramp(to, "none").back
  BY RampTask DEF Thens
<1>2. [Blank EXCEPT !.pc = "probing", !.to = to] \in Task
  BY BlankTask DEF Task
<1>3. [Blank EXCEPT !.pc = "probing", !.to = to] = Ramp(to, "none")
  BY <1>1, <1>2, SameTask DEF Ramp, Blank
<1> QED
  BY <1>1, <1>3

LEMMA RampToKeeps ==
  ASSUME EngineAssumption, Structure, NEW c \in Calls, NEW e \in Engine, e.timers => e.browser,
         NEW to \in 0 .. MaxTarget, NEW then \in Thens, RampTo(c, e, to, then),
         world' = world, excuse' \in Excuse, excuse.collided \subseteq excuse'.collided
  PROVE  Structure'
<1>1. /\ user \in [Objects -> States] /\ world \in World /\ task \in [Calls -> Task \cup {Idle}]
      /\ eng' = e /\ users' = users /\ user' = user
  BY DEF Structure, EngineTypeOK, RampTo
<1>2. CASE e.paused
  <2>1. task' = task
    BY <1>2 DEF RampTo
  <2> QED
    BY <1>1, <2>1, MapStays
<1>3. CASE ~e.paused
  <2>1. Set(c, Ramp(to, then))
    BY <1>3 DEF RampTo, Ramp
  <2>2. OnlyCall(c) /\ task'[c] = Ramp(to, then)
    BY <2>1, RampTask, SetCall
  <2>3. Fits(Ramp(to, then), users, user', excuse'.collided)
    BY RampTask, PlainFits
  <2>4. \A d \in Calls : task'[d] = task[d] \/ Fits(task'[d], users, user', excuse'.collided)
    BY <2>2, <2>3 DEF OnlyCall
  <2> QED
    BY <1>1, <2>2, <2>4, MapStays DEF OnlyCall
<1> QED
  BY <1>2, <1>3

(* A call goes to an await that holds nothing of the map.                  *)
LEMMA PlainStep ==
  ASSUME EngineAssumption, Structure, NEW c \in Calls, NEW new \in Task \cup {Idle}, Set(c, new),
         new # Idle => new.pc \notin {"opening", "stopping", "pausing"},
         users' = users, user' = user, eng' \in Engine, eng'.timers => eng'.browser,
         world' = world, excuse' \in Excuse, excuse.collided \subseteq excuse'.collided
  PROVE  Structure'
<1>1. user \in [Objects -> States] /\ world \in World
  BY DEF Structure, EngineTypeOK
<1>2. OnlyCall(c) /\ task'[c] = new
  BY SetCall
<1>3. new = Idle \/ Fits(new, users, user', excuse'.collided)
  BY PlainFits
<1>4. \A d \in Calls : \/ task'[d] = task[d] \/ task'[d] = Idle
                       \/ Fits(task'[d], users, user', excuse'.collided)
  BY <1>2, <1>3 DEF OnlyCall
<1> QED
  BY <1>1, <1>2, <1>4, MapStays DEF OnlyCall

Down(then, goal) == [Blank EXCEPT !.pc = "probing", !.then = then, !.i = goal]

LEMMA DownTask ==
  ASSUME EngineAssumption, NEW then \in Thens, NEW goal \in 0 .. MaxTarget
  PROVE  /\ Down(then, goal) \in Task /\ Down(then, goal).pc = "probing"
         /\ Down(then, goal).then = then /\ Down(then, goal).i = goal /\ Down(then, goal).to = 0
         /\ ~Down(then, goal).back
BY BlankTask DEF Down, Task, Thens

LEMMA RampDownKeeps ==
  ASSUME EngineAssumption, Structure, NEW c \in Calls, NEW e \in Engine, e.timers => e.browser,
         NEW then \in Thens, NEW goal \in 0 .. MaxTarget, RampDown(c, e, then, goal),
         world' = world, excuse' \in Excuse, excuse.collided \subseteq excuse'.collided
  PROVE  Structure'
<1>1. user \in [Objects -> States] /\ world \in World /\ Filled \subseteq Keys
  BY SizeNat DEF Structure, EngineTypeOK
<1>2. CASE e.paused
  <2>1. Return(c, Down(then, goal), e, user) /\ users' = users
    BY <1>2 DEF RampDown, Down
  <2> QED
    BY <1>1, <2>1, DownTask, ReturnKeeps
<1>3. CASE ~e.paused /\ e.browser
  <2>1. PICK phase \in Phases : Descend(c, Down(then, goal), Phased(e, phase), Filled)
    BY <1>3 DEF RampDown, Down, Phased, Phases
  <2> QED
    BY <1>1, <2>1, DownTask, PhasedEngine, DescendKeeps
<1>4. CASE ~e.paused /\ ~e.browser
  <2>1. Set(c, Down(then, goal)) /\ eng' = e /\ users' = users /\ user' = user
    BY <1>4 DEF RampDown, Down
  <2> QED
    BY <2>1, DownTask, PlainStep
<1> QED
  BY <1>2, <1>3, <1>4

(* What may stand in for the calls while another drains: they themselves,  *)
(* or a new one that has not got to the map.                               *)
Fresh(ts, d) == /\ Free(d) /\ ts[d] \in Task /\ ts[d].pc \in {"probing", "asking"} /\ ~ts[d].back

StandIn(ts, c) ==
  /\ ts \in [Calls -> Task \cup {Idle}]
  /\ \A d \in Calls \ {c} : ts[d] = task[d] \/ Fresh(ts, d)

LEMMA ItselfStandsIn ==
  ASSUME Structure
  PROVE  \A c : StandIn(task, c)
BY DEF StandIn, Structure, EngineTypeOK

LEMMA OthersBoolean ==
  \A ts, c : OthersIn(ts, c) \in BOOLEAN /\ Others(c) \in BOOLEAN
BY DEF OthersIn, Others

Pinging(back) == [Blank EXCEPT !.pc = "ping", !.back = back]
Emptied(t) == [t EXCEPT !.keys = {}]
Visiting(k, i, u) == [k EXCEPT !.keys = @ \cup {i}, !.user = u]

LEMMA AtTasks ==
  ASSUME EngineAssumption
  PROVE  /\ \A back \in BOOLEAN : /\ Pinging(back) \in Task /\ Pinging(back).pc = "ping"
                                  /\ Pinging(back).back = back /\ Pinging(back).then = "none"
         /\ [Blank EXCEPT !.pc = "ping"] = Pinging(FALSE)
         /\ \A then \in Thens : /\ Asking(then) \in Task /\ Asking(then).pc = "asking"
                               /\ Asking(then).then = then /\ ~Asking(then).back
<1>1. ASSUME NEW back \in BOOLEAN
      PROVE  /\ Pinging(back) \in Task /\ Pinging(back).pc = "ping"
             /\ Pinging(back).back = back /\ Pinging(back).then = "none"
  BY BlankTask DEF Task, Pinging
<1>2. [Blank EXCEPT !.pc = "ping"] = Pinging(FALSE)
  <2>1. [Blank EXCEPT !.pc = "ping"] \in Task
    BY BlankTask DEF Task
  <2>2. Pinging(FALSE) \in Task
    BY <1>1
  <2> QED
    BY <2>1, <2>2, SameTask DEF Pinging, Blank
<1>3. ASSUME NEW then \in Thens
      PROVE  /\ Asking(then) \in Task /\ Asking(then).pc = "asking"
             /\ Asking(then).then = then /\ ~Asking(then).back
  BY BlankTask DEF Task, Asking, Thens
<1> QED
  BY <1>1, <1>2, <1>3

LEMMA VisitingTask ==
  ASSUME NEW k \in Task, NEW i \in Keys, NEW u \in Objects \cup {NoUser}
  PROVE  /\ Visiting(k, i, u) \in Task /\ Visiting(k, i, u).pc = k.pc
         /\ Visiting(k, i, u).then = k.then /\ Visiting(k, i, u).back = k.back
         /\ Visiting(k, i, u).keys = k.keys \cup {i} /\ Visiting(k, i, u).user = u
BY DEF Visiting, Task

LEMMA EmptiedTask ==
  ASSUME NEW t \in Task
  PROVE  /\ Emptied(t) \in Task /\ Emptied(t).pc = t.pc /\ Emptied(t).keys = {}
         /\ Emptied(t).back = t.back
BY DEF Emptied, Task

(* What the other calls are when one has cleared the map.                  *)
RestHeld(ts, c) == \A d \in Calls \ {c} : task'[d] = IF At(d, "pausing") THEN Emptied(ts[d]) ELSE ts[d]

(* Where a call goes on that has cleared the map.                          *)
Landing(k) == {Idle, Pinging(k.back)} \cup {t \in {Asking("none")} : k.back}

(* The end of the loop of pause.                                           *)
Cleared(ts, c, k, e, x) ==
  /\ users' = [i \in Keys |-> NoUser] /\ user' = user
  /\ eng' \in Engine /\ eng'.paused = e.paused /\ eng'.timers = e.timers
  /\ eng'.browser = e.browser /\ (eng'.down <=> e.down \/ k.then = "probe")
  /\ excuse' \in Excuse /\ excuse'.collided = x.collided /\ excuse'.held = x.held
  /\ excuse'.muddled <=> OthersIn(ts, c) \/ ~e.paused
  /\ excuse'.raced <=> x.raced \/ (x.held /\ k.then = "probe")
  /\ task' \in [Calls -> Task \cup {Idle}]
  /\ task'[c] \in Landing(k)
  /\ RestHeld(ts, c)

(* A turn of it.                                                           *)
Visited(ts, c, k, e, x, i) ==
  /\ users' = users /\ user' = StopUser(users[i]) /\ eng' = e
  /\ excuse' \in Excuse /\ excuse'.collided = x.collided /\ excuse'.held = x.held
  /\ excuse'.raced = x.raced /\ (excuse'.muddled <=> x.muddled \/ Others(c))
  /\ task' \in [Calls -> Task \cup {Idle}]
  /\ task'[c] = Visiting(k, i, users[i])
  /\ \A d \in Calls \ {c} : task'[d] = ts[d]

LEMMA OnwardTask ==
  ASSUME EngineAssumption, NEW k \in Task, NEW e
  PROVE  /\ Onward(k, e) \in Task \cup {Idle}
         /\ Onward(k, e) = Idle \/ (k.back /\ Onward(k, e) = Asking("none"))
BY AtTasks DEF Onward, Thens

LEMMA ClearDoes ==
  ASSUME EngineAssumption, Structure, NEW c \in Calls, NEW ts, StandIn(ts, c), NEW k \in Task,
         NEW e \in Engine, NEW x \in Excuse, Clear(ts, c, k, e, x)
  PROVE  Cleared(ts, c, k, e, x)
<1>1. PICK valid \in BOOLEAN :
        /\ users' = [i \in Keys |-> NoUser]
        /\ task' = [d \in Calls |->
             IF d = c THEN CASE k.then = "probe" -> Onward(k, e)
                             [] k.then = "retarget" /\ valid -> Pinging(k.back)
                             [] OTHER -> Idle
             ELSE IF At(d, "pausing") THEN Emptied(ts[d]) ELSE ts[d]]
        /\ eng' = [e EXCEPT !.down = @ \/ k.then = "probe",
                            !.degraded = @ /\ ~(k.then = "retarget" /\ valid)]
        /\ excuse' = [x EXCEPT !.muddled = OthersIn(ts, c) \/ ~e.paused, !.kept = FALSE,
                               !.raced = @ \/ (x.held /\ k.then = "probe")]
        /\ user' = user
  BY DEF Clear, Pinging, Emptied
<1>2. (e.down \/ k.then = "probe") \in BOOLEAN /\ (e.degraded /\ ~(k.then = "retarget" /\ valid)) \in BOOLEAN
  BY DEF Engine
<1>3. /\ eng' \in Engine /\ eng'.paused = e.paused /\ eng'.timers = e.timers
      /\ eng'.browser = e.browser /\ (eng'.down <=> e.down \/ k.then = "probe")
  BY <1>1, <1>2 DEF Engine
<1>4. /\ (OthersIn(ts, c) \/ ~e.paused) \in BOOLEAN
      /\ (x.raced \/ (x.held /\ k.then = "probe")) \in BOOLEAN
  BY OthersBoolean DEF Engine, Excuse
<1>5. /\ excuse' \in Excuse /\ excuse'.collided = x.collided /\ excuse'.held = x.held
      /\ excuse'.muddled <=> OthersIn(ts, c) \/ ~e.paused
      /\ excuse'.raced <=> x.raced \/ (x.held /\ k.then = "probe")
  BY <1>1, <1>4 DEF Excuse
<1>6. task'[c] \in Landing(k) /\ task'[c] \in Task \cup {Idle}
  <2>1. k.back \in BOOLEAN
    BY DEF Task
  <2>2. task'[c] \in {Onward(k, e), Pinging(k.back), Idle}
    BY <1>1
  <2> QED
    BY <2>1, <2>2, AtTasks, OnwardTask DEF Landing
<1>7. RestHeld(ts, c)
  BY <1>1 DEF RestHeld
<1>8. ASSUME NEW d \in Calls \ {c}
      PROVE  task'[d] \in Task \cup {Idle}
  <2>1. CASE At(d, "pausing")
    <3>1. ts[d] \in Task
      BY <2>1 DEF StandIn, At, Free, Fresh
    <3> QED
      BY <1>7, <2>1, <3>1, EmptiedTask DEF RestHeld
  <2>2. CASE ~At(d, "pausing")
    BY <1>7, <2>2 DEF RestHeld, StandIn, Fresh
  <2> QED
    BY <2>1, <2>2
<1>9. task' \in [Calls -> Task \cup {Idle}]
  <2>1. \A d \in Calls : task'[d] \in Task \cup {Idle}
    BY <1>6, <1>8
  <2>2. task' = [d \in Calls |-> task'[d]]
    BY <1>1
  <2> QED
    BY <2>1, <2>2
<1> QED
  BY <1>1, <1>3, <1>5, <1>6, <1>7, <1>9 DEF Cleared

LEMMA DrainDoes ==
  ASSUME EngineAssumption, Structure, NEW c \in Calls, NEW ts, StandIn(ts, c), NEW k \in Task,
         NEW e \in Engine, NEW x \in Excuse, Drain(ts, c, k, e, x)
  PROVE  \/ Filled \subseteq k.keys /\ Cleared(ts, c, k, e, x)
         \/ \E i \in Filled \ k.keys : Visited(ts, c, k, e, x, i)
<1>1. CASE Filled \subseteq k.keys /\ Clear(ts, c, k, e, x)
  BY <1>1, ClearDoes
<1>2. ASSUME NEW i \in Filled \ k.keys,
             user' = StopUser(users[i]), task' = [ts EXCEPT ![c] = Visiting(k, i, users[i])],
             eng' = e, excuse' = [x EXCEPT !.muddled = @ \/ Others(c)], users' = users
      PROVE  Visited(ts, c, k, e, x, i)
  <2>1. i \in Keys /\ users[i] \in Objects \cup {NoUser}
    BY <1>2, SizeNat DEF Structure, EngineTypeOK
  <2>2. Visiting(k, i, users[i]) \in Task
    BY <2>1, VisitingTask
  <2>3. /\ task' \in [Calls -> Task \cup {Idle}] /\ task'[c] = Visiting(k, i, users[i])
        /\ \A d \in Calls \ {c} : task'[d] = ts[d]
    BY <1>2, <2>2 DEF StandIn
  <2>4. (x.muddled \/ Others(c)) \in BOOLEAN
    BY OthersBoolean DEF Excuse
  <2>5. /\ excuse' \in Excuse /\ excuse'.collided = x.collided /\ excuse'.held = x.held
        /\ excuse'.raced = x.raced /\ (excuse'.muddled <=> x.muddled \/ Others(c))
    BY <1>2, <2>4 DEF Excuse
  <2> QED
    BY <1>2, <2>3, <2>5 DEF Visited
<1> QED
  BY <1>1, <1>2 DEF Drain, Visiting

LEMMA ClearKeeps ==
  ASSUME EngineAssumption, Structure, NEW c \in Calls, NEW ts, StandIn(ts, c), NEW k \in Task,
         NEW e \in Engine, e.timers => e.browser, NEW x \in Excuse, excuse.collided = x.collided,
         Cleared(ts, c, k, e, x), world' = world,
         \A i \in Filled : user[users[i]] \in Opened => users[i] \in excuse.collided
  PROVE  Structure'
<1>1. /\ users' = [i \in Keys |-> NoUser] /\ user' = user
      /\ eng' \in Engine /\ (eng'.timers => eng'.browser)
      /\ excuse' \in Excuse /\ excuse.collided \subseteq excuse'.collided
      /\ task' \in [Calls -> Task \cup {Idle}] /\ task'[c] \in Landing(k) /\ RestHeld(ts, c)
  BY DEF Cleared
<1>2. world' \in World
  BY DEF Structure, EngineTypeOK
<1>3. ASSUME NEW d \in Calls, task'[d] # Idle
      PROVE  Fits(task'[d], users', user', excuse'.collided)
  <2>1. CASE d = c
    <3>1. k.back \in BOOLEAN
      BY DEF Task
    <3>2. task'[d] \in {Pinging(k.back), Asking("none")}
      BY <1>1, <1>3, <2>1 DEF Landing
    <3>3. task'[d] \in Task /\ task'[d].pc \in {"ping", "asking"}
      BY <3>1, <3>2, AtTasks DEF Thens
    <3> QED
      BY <3>3, PlainFits
  <2>2. CASE d # c /\ At(d, "pausing")
    <3>1. ts[d] \in Task /\ ts[d].pc = "pausing"
      BY <2>2 DEF StandIn, At, Free, Fresh
    <3>2. task'[d] = Emptied(ts[d])
      BY <1>1, <2>2 DEF RestHeld
    <3> QED
      BY <3>1, <3>2, EmptiedTask DEF Fits
  <2>3. CASE d # c /\ ~At(d, "pausing")
    <3>1. task'[d] = ts[d]
      BY <1>1, <2>3 DEF RestHeld
    <3>2. CASE ts[d] = task[d] /\ ~Free(d)
      <4>1. Fits(task[d], users, user, excuse.collided)
        BY <3>2 DEF Structure
      <4>2. task[d].pc # "pausing"
        BY <2>3, <3>2 DEF At
      <4> QED
        BY <1>1, <3>1, <3>2, <4>1, <4>2 DEF Fits
    <3>3. CASE ts[d] = task[d] /\ Free(d)
      BY <1>3, <3>1, <3>3 DEF Free
    <3>4. CASE Fresh(ts, d)
      BY <3>1, <3>4, PlainFits DEF Fresh
    <3> QED
      BY <2>3, <3>2, <3>3, <3>4 DEF StandIn
  <2> QED
    BY <2>1, <2>2, <2>3
<1> QED
  BY <1>1, <1>2, <1>3, MapCleared

(* A turn of the loop of pause.                                            *)
LEMMA DrainKeeps ==
  ASSUME EngineAssumption, Structure, NEW c \in Calls, NEW ts, StandIn(ts, c), NEW k,
         k.pc = "pausing", Fits(k, users, user, excuse.collided), NEW e \in Engine,
         e.timers => e.browser, NEW x \in Excuse, excuse.collided = x.collided,
         Drain(ts, c, k, e, x), world' = world
  PROVE  Structure'
<1>1. /\ user \in [Objects -> States] /\ world \in World /\ Filled \subseteq Keys /\ k \in Task
      /\ \A i \in Filled : users[i] \in Objects
  BY SizeNat DEF Structure, EngineTypeOK, Filled, Fits
<1>2. CASE Filled \subseteq k.keys /\ Cleared(ts, c, k, e, x)
  <2>1. \A i \in Filled : user[users[i]] \in Opened => users[i] \in excuse.collided
    BY <1>2 DEF Fits
  <2> QED
    BY <1>1, <1>2, <2>1, ClearKeeps
<1>3. ASSUME NEW i \in Filled \ k.keys, Visited(ts, c, k, e, x, i)
      PROVE  Structure'
  <2>0. /\ users' = users /\ user' = StopUser(users[i]) /\ eng' = e
        /\ excuse' \in Excuse /\ excuse'.collided = excuse.collided
        /\ task' \in [Calls -> Task \cup {Idle}] /\ task'[c] = Visiting(k, i, users[i])
        /\ \A d \in Calls \ {c} : task'[d] = ts[d]
    BY <1>3 DEF Visited
  <2>1. /\ user' \in [Objects -> States] /\ user'[users[i]] \notin Opened
        /\ \A v \in Objects : user'[v] \in Opened => user[v] \in Opened
    BY <1>1, <2>0, StopUserDoes
  <2>2. /\ Visiting(k, i, users[i]) \in Task /\ Visiting(k, i, users[i]).pc = "pausing"
        /\ Visiting(k, i, users[i]).keys = k.keys \cup {i}
    BY <1>1, VisitingTask
  <2>5. Fits(k, users, user', excuse'.collided)
    BY <2>0, <2>1, StillFits DEF Structure, EngineTypeOK
  <2>6. Fits(Visiting(k, i, users[i]), users, user', excuse'.collided)
    BY <2>1, <2>2, <2>5 DEF Fits, Filled
  <2>8. ASSUME NEW d \in Calls
        PROVE  task'[d] = task[d] \/ Fits(task'[d], users, user', excuse'.collided)
    <3>1. CASE d = c
      BY <2>0, <2>6, <3>1
    <3>2. CASE d # c
      BY <2>0, <3>2, PlainFits DEF StandIn, Fresh
    <3> QED
      BY <3>1, <3>2
  <2> QED
    BY <1>1, <2>0, <2>1, <2>8, MapStays
<1> QED
  BY <1>1, <1>2, <1>3, DrainDoes

(* A user has stopped: its index is removed, from the pauses that have     *)
(* been at it too.                                                         *)
LEMMA StoppedKeeps ==
  ASSUME EngineAssumption, Structure, NEW c \in Calls, Stopped(c)
  PROVE  Structure'
<1> DEFINE t == task[c]
<1>1. /\ t \in Task /\ t.keys # {} /\ (t.user # NoUser => user[t.user] \notin Opened)
      /\ users \in [Keys -> Objects \cup {NoUser}] /\ user \in [Objects -> States]
      /\ task \in [Calls -> Task \cup {Idle}] /\ excuse \in Excuse /\ eng \in Engine
      /\ (eng.timers => eng.browser) /\ world \in World
  BY DEF Structure, EngineTypeOK, MapSound, Stopped, At, Fits
<1>2. PICK k : k = Min(t.keys)
  OBVIOUS
<1>3. k \in Keys /\ t.keys \subseteq Keys
  BY <1>1, <1>2, Least, KeysNat DEF Task
<1> DEFINE m == IF t.user = NoUser THEN users ELSE [users EXCEPT ![k] = NoUser]
           rest == [t EXCEPT !.pc = "rest", !.keys = @ \ {k}]
           passed(d) == [task[d] EXCEPT !.keys = @ \ {k}]
<1>4. /\ users' = m /\ eng' = eng /\ user' = user /\ world' = world
      /\ excuse' = IF t.user # NoUser /\ users[k] # t.user
                   THEN [excuse EXCEPT !.collided = @ \cup {users[k]}, !.muddled = TRUE] ELSE excuse
      /\ task'[c] = rest
      /\ \A d \in Calls \ {c} : task'[d] = IF At(d, "pausing") THEN passed(d) ELSE task[d]
      /\ \E ts : task' = [ts EXCEPT ![c] = rest] /\ DOMAIN ts = Calls
  BY <1>1, <1>2 DEF Stopped
<1>5. /\ m \in [Keys -> Objects \cup {NoUser}] /\ \A i \in Keys \ {k} : m[i] = users[i]
      /\ m[k] \in {users[k], NoUser} /\ (t.user # NoUser => m[k] = NoUser)
      /\ t.user = NoUser => m = users
  BY <1>1, <1>3
<1>6. excuse' \in Excuse /\ excuse.collided \subseteq excuse'.collided
  <2>1. CASE t.user # NoUser /\ users[k] # t.user
    <3>1. users[k] \in Objects \cup {NoUser}
      BY <1>1, <1>3
    <3>2. excuse' = [excuse EXCEPT !.collided = @ \cup {users[k]}, !.muddled = TRUE]
      BY <1>4, <2>1
    <3> QED
      BY <1>1, <3>1, <3>2 DEF Excuse
  <2>2. CASE ~(t.user # NoUser /\ users[k] # t.user)
    BY <1>1, <1>4, <2>2
  <2> QED
    BY <2>1, <2>2
<1>7. rest \in Task /\ rest.pc = "rest"
  BY <1>1 DEF Task
<1>8. ASSUME NEW d \in Calls, At(d, "pausing")
      PROVE  /\ passed(d) \in Task /\ passed(d).pc = "pausing"
             /\ passed(d).keys = task[d].keys \ {k}
  BY <1>1, <1>8 DEF Task, At, Free
<1> HIDE DEF m, rest, passed
<1>9. ASSUME NEW d \in Calls, task'[d] # Idle
      PROVE  Fits(task'[d], users', user', excuse'.collided) /\ task'[d] \in Task
  <2>1. CASE d = c
    BY <1>4, <1>7, <2>1, PlainFits
  <2>2. CASE d # c /\ At(d, "pausing")
    <3>1. Fits(task[d], users, user, excuse.collided)
      BY <2>2 DEF At, Structure
    <3>2. task[d].keys \subseteq Keys /\ task[d].pc = "pausing"
      BY <2>2, <3>1 DEF Fits, Task, At
    <3>3. task'[d] = passed(d)
      BY <1>4, <2>2
    <3> QED
      BY <1>4, <1>5, <1>6, <1>8, <2>2, <3>1, <3>2, <3>3 DEF Fits
  <2>3. CASE d # c /\ ~At(d, "pausing")
    <3>1. task'[d] = task[d]
      BY <1>4, <2>3
    <3>2. Fits(task[d], users, user, excuse.collided) /\ task[d].pc # "pausing"
      BY <1>9, <2>3, <3>1 DEF Structure, Free, At
    <3> QED
      BY <1>4, <3>1, <3>2 DEF Fits
  <2> QED
    BY <2>1, <2>2, <2>3
<1>10. task' \in [Calls -> Task \cup {Idle}]
  <2>1. \A d \in Calls : task'[d] \in Task \cup {Idle}
    BY <1>9
  <2>2. task' = [d \in Calls |-> task'[d]]
    BY <1>4
  <2> QED
    BY <2>1, <2>2
<1>11. EngineTypeOK'
  BY <1>1, <1>4, <1>5, <1>6, <1>10 DEF EngineTypeOK
<1>12. MapSound'
  <2>1. \A i \in Filled' : i \in Filled /\ users'[i] = users[i]
    BY <1>4, <1>5 DEF Filled
  <2> QED
    BY <1>1, <1>4, <2>1 DEF Structure, MapSound
<1>13. NoUserEscapes'
  <2> SUFFICES ASSUME NEW v \in Objects, user[v] \in Opened
               PROVE  v \in Range(users') \cup excuse'.collided
    BY <1>4 DEF NoUserEscapes, Opened
  <2>1. v \in Range(users) \cup excuse.collided
    BY DEF Structure, NoUserEscapes, Opened
  <2>2. CASE v \in Range(users)
    <3>1. PICK i \in Keys : users[i] = v
      BY <1>1, <2>2 DEF Range
    <3>2. CASE m[i] = v
      BY <1>4, <1>5, <3>2 DEF Range
    <3>3. CASE m[i] # v
      <4>1. i = k /\ t.user # NoUser
        BY <1>5, <3>1, <3>3
      <4>2. users[k] # t.user
        BY <1>1, <3>1, <4>1
      <4> QED
        BY <1>1, <1>4, <3>1, <4>1, <4>2 DEF Excuse
    <3> QED
      BY <3>2, <3>3
  <2> QED
    BY <1>6, <2>1, <2>2
<1> QED
  BY <1>9, <1>11, <1>12, <1>13 DEF Structure, Free

-----------------------------------------------------------------------------
(* Every step keeps the structure *)

LEMMA InitStructure ==
  ASSUME EngineAssumption, Init
  PROVE  Structure
<1>1. /\ world \in World /\ users = [k \in Keys |-> NoUser] /\ user = [u \in Objects |-> "gone"]
      /\ eng = Started /\ excuse = NoExcuse
  BY DEF Init, World
<1>2. PICK first \in Calls : task = [c \in Calls |-> IF c = first /\ ~world.wait THEN Blank ELSE Idle]
  BY DEF Init
<1>3. EngineTypeOK
  BY <1>1, <1>2, StartedEngine, BlankTask DEF EngineTypeOK, NoExcuse, Excuse, States
<1>4. MapSound /\ NoUserEscapes
  BY <1>1, StartedEngine DEF MapSound, Filled, NoUserEscapes
<1>5. ASSUME NEW c \in Calls, ~Free(c)
      PROVE  Fits(task[c], users, user, excuse.collided)
  BY <1>2, <1>5, BlankTask, PlainFits DEF Free
<1> QED
  BY <1>3, <1>4, <1>5 DEF Structure

LEMMA BusyTask ==
  ASSUME Structure, NEW c \in Calls, ~Free(c)
  PROVE  task[c] \in Task /\ Fits(task[c], users, user, excuse.collided)
BY DEF Structure, Fits

LEMMA StructureTypes ==
  ASSUME Structure
  PROVE  /\ eng \in Engine /\ (eng.timers => eng.browser) /\ excuse \in Excuse /\ world \in World
         /\ user \in [Objects -> States] /\ users \in [Keys -> Objects \cup {NoUser}]
         /\ eng.target \in 0 .. MaxTarget
<1>1. /\ eng \in Engine /\ (eng.timers => eng.browser) /\ excuse \in Excuse /\ world \in World
      /\ user \in [Objects -> States] /\ users \in [Keys -> Objects \cup {NoUser}]
  BY DEF Structure, EngineTypeOK, MapSound
<1>2. eng.target \in 1 .. MaxTarget
  BY <1>1 DEF Engine
<1> QED
  BY <1>1, <1>2

LEMMA MuddleExcuse ==
  ASSUME Structure, NEW c, Muddle(c)
  PROVE  /\ excuse' \in Excuse /\ excuse'.collided = excuse.collided
         /\ excuse'.held = excuse.held /\ excuse'.raced = excuse.raced
         /\ excuse'.kept = excuse.kept /\ (excuse'.muddled <=> excuse.muddled \/ Others(c))
<1>1. (excuse.muddled \/ Others(c)) \in BOOLEAN
  BY OthersBoolean, StructureTypes DEF Excuse
<1> QED
  BY <1>1, StructureTypes DEF Muddle, Excuse

Reached == [eng EXCEPT !.reach = TRUE]
Waiting == [eng EXCEPT !.paused = TRUE, !.down = TRUE, !.phase = "paused"]

(* The start of the engine: it goes to its first ramp, stays paused, or    *)
(* has waited in vain.                                                     *)
Began(c) ==
  /\ users' = users /\ user' = user /\ world' = world
  /\ \/ /\ eng' = Reached /\ excuse' = excuse
        /\ Set(c, IF eng.paused THEN Idle ELSE Ramp(eng.target, "none"))
     \/ /\ eng' = Waiting /\ Set(c, Idle)
        /\ excuse' \in Excuse /\ excuse'.collided = excuse.collided /\ excuse'.held = excuse.held
        /\ excuse'.muddled = excuse.muddled /\ (excuse'.kept <=> excuse.kept \/ Filled # {})
        /\ excuse'.raced <=> excuse.raced \/ excuse.held

LEMMA BeginDoes ==
  ASSUME EngineAssumption, Structure, NEW c \in Calls, Begin(c)
  PROVE  /\ At(c, "begin") /\ Began(c)
         /\ Reached \in Engine /\ Reached.timers = eng.timers /\ Reached.browser = eng.browser
         /\ Reached.paused = eng.paused /\ Reached.down = eng.down /\ Reached.target = eng.target
         /\ Reached.phase = eng.phase /\ Reached.ramping = eng.ramping
         /\ Waiting \in Engine /\ Waiting.timers = eng.timers /\ Waiting.browser = eng.browser
         /\ Waiting.paused
<1>1. /\ Reached \in Engine /\ Reached.timers = eng.timers /\ Reached.browser = eng.browser
      /\ Reached.paused = eng.paused /\ Reached.down = eng.down /\ Reached.target = eng.target
      /\ Reached.phase = eng.phase /\ Reached.ramping = eng.ramping
  BY StructureTypes DEF Engine, Reached
<1>2. /\ Waiting \in Engine /\ Waiting.timers = eng.timers /\ Waiting.browser = eng.browser
      /\ Waiting.paused
  BY StructureTypes DEF Engine, Phases, Waiting
<1>3. CASE world.up
  <2>1. /\ eng' = Reached /\ excuse' = excuse
        /\ Set(c, IF eng.paused THEN Idle ELSE [Blank EXCEPT !.pc = "probing", !.to = eng.target])
    BY <1>3 DEF Begin, Reached
  <2>2. [Blank EXCEPT !.pc = "probing", !.to = eng.target] = Ramp(eng.target, "none")
    BY StructureTypes, KeysNat, PlainRamp DEF Engine
  <2> QED
    BY <1>1, <1>2, <2>1, <2>2 DEF Begin, Began
<1>4. CASE ~world.up
  <2>1. /\ eng' = Waiting /\ Set(c, Idle)
        /\ excuse' = [excuse EXCEPT !.raced = @ \/ excuse.held, !.kept = @ \/ Filled # {}]
    BY <1>4 DEF Begin, Waiting
  <2>2. (excuse.raced \/ excuse.held) \in BOOLEAN /\ (excuse.kept \/ Filled # {}) \in BOOLEAN
    BY StructureTypes DEF Excuse
  <2>3. /\ excuse' \in Excuse /\ excuse'.collided = excuse.collided /\ excuse'.held = excuse.held
        /\ excuse'.muddled = excuse.muddled /\ (excuse'.kept <=> excuse.kept \/ Filled # {})
        /\ excuse'.raced <=> excuse.raced \/ excuse.held
    BY <2>1, <2>2, StructureTypes DEF Excuse
  <2> QED
    BY <1>1, <1>2, <2>1, <2>3 DEF Begin, Began
<1> QED
  BY <1>3, <1>4

LEMMA BeginKeeps ==
  ASSUME EngineAssumption, Structure, NEW c \in Calls, Begin(c)
  PROVE  Structure'
<1>1. PICK new \in {Idle, Ramp(eng.target, "none")} : Set(c, new)
  BY BeginDoes DEF Began
<1>2. new \in Task \cup {Idle} /\ (new # Idle => new.pc = "probing")
  <2>1. eng.target \in 0 .. MaxTarget
    BY StructureTypes, KeysNat DEF Engine
  <2> QED
    BY <1>1, <2>1, PlainRamp
<1>3. /\ users' = users /\ user' = user /\ world' = world /\ eng' \in {Reached, Waiting}
      /\ excuse' \in Excuse /\ excuse'.collided = excuse.collided
  BY BeginDoes, StructureTypes DEF Began
<1>4. eng' \in Engine /\ (eng'.timers => eng'.browser)
  BY <1>3, BeginDoes, StructureTypes
<1> QED
  BY <1>1, <1>2, <1>3, <1>4, PlainStep

(* The engine when a ramp has probed, and when it finds the target down.   *)
Probing(c) == [eng EXCEPT !.browser = TRUE, !.reach = IF task[c].to > 0 THEN world.up ELSE @]
GivenUp(c) == [Probing(c) EXCEPT !.paused = TRUE, !.down = TRUE, !.phase = "paused"]

LEMMA ProbedDoes ==
  ASSUME EngineAssumption, Structure, NEW c \in Calls, Probed(c)
  PROVE  /\ At(c, "probing") /\ task[c] \in Task /\ world' = world
         /\ Probing(c) \in Engine /\ Probing(c).browser /\ Probing(c).timers = eng.timers
         /\ Probing(c).paused = eng.paused /\ Probing(c).down = eng.down
         /\ Probing(c).target = eng.target /\ Probing(c).ramping = eng.ramping
         /\ GivenUp(c) \in Engine /\ GivenUp(c).browser /\ GivenUp(c).paused
         /\ \/ Throw(c, user)
            \/ Plan(c, task[c], Probing(c))
            \/ /\ Return(c, task[c], IF Size > 0 THEN Probing(c) ELSE GivenUp(c), user)
               /\ users' = users
               /\ excuse' \in Excuse /\ excuse'.collided = excuse.collided
               /\ excuse'.held = excuse.held /\ excuse'.kept = excuse.kept /\ excuse'.muddled
               /\ excuse'.raced <=> excuse.raced \/ (excuse.held /\ Size = 0)
<1>1. /\ At(c, "probing") /\ task[c] \in Task /\ world' = world /\ world.up \in BOOLEAN
  BY BusyTask, StructureTypes DEF Probed, At, World
<1>2. /\ Probing(c) \in Engine /\ Probing(c).browser /\ Probing(c).timers = eng.timers
      /\ Probing(c).paused = eng.paused /\ Probing(c).down = eng.down
      /\ Probing(c).target = eng.target /\ Probing(c).ramping = eng.ramping
  BY <1>1, StructureTypes DEF Engine, Probing
<1>3. GivenUp(c) \in Engine /\ GivenUp(c).browser /\ GivenUp(c).paused
  BY <1>2 DEF Engine, Phases, GivenUp
<1>4. \/ Throw(c, user)
      \/ Plan(c, task[c], Probing(c))
      \/ /\ Return(c, task[c], IF Size > 0 THEN Probing(c) ELSE GivenUp(c), user)
         /\ users' = users
         /\ excuse' = [excuse EXCEPT !.muddled = TRUE, !.raced = @ \/ (excuse.held /\ Size = 0)]
  BY DEF Probed, Probing, GivenUp
<1>5. ASSUME excuse' = [excuse EXCEPT !.muddled = TRUE, !.raced = @ \/ (excuse.held /\ Size = 0)]
      PROVE  /\ excuse' \in Excuse /\ excuse'.collided = excuse.collided
             /\ excuse'.held = excuse.held /\ excuse'.kept = excuse.kept /\ excuse'.muddled
             /\ excuse'.raced <=> excuse.raced \/ (excuse.held /\ Size = 0)
  <2>1. (excuse.raced \/ (excuse.held /\ Size = 0)) \in BOOLEAN
    BY StructureTypes DEF Excuse
  <2> QED
    BY <1>5, <2>1, StructureTypes DEF Excuse
<1> QED
  BY <1>1, <1>2, <1>3, <1>4, <1>5

LEMMA ProbedKeeps ==
  ASSUME EngineAssumption, Structure, NEW c \in Calls, Probed(c)
  PROVE  Structure'
<1>1. CASE Throw(c, user)
  BY <1>1, ProbedDoes, StructureTypes, ThrowKeeps
<1>2. CASE Plan(c, task[c], Probing(c))
  BY <1>2, ProbedDoes, PlanKeeps
<1>3. ASSUME Return(c, task[c], IF Size > 0 THEN Probing(c) ELSE GivenUp(c), user), users' = users,
             excuse' \in Excuse, excuse'.collided = excuse.collided
      PROVE  Structure'
  <2>1. PICK g \in Engine : Return(c, task[c], g, user) /\ g.browser
    BY <1>3, ProbedDoes
  <2> QED
    BY <1>3, <2>1, ProbedDoes, StructureTypes, ReturnKeeps
<1> QED
  BY <1>1, <1>2, <1>3, ProbedDoes

(* One user object goes to a state in which it is as open as it was.       *)
LEMMA UserMoves ==
  ASSUME Structure, NEW u \in Objects, NEW state \in States, state \in Opened => user[u] \in Opened
  PROVE  /\ [user EXCEPT ![u] = state] \in [Objects -> States]
         /\ \A v \in Objects : [user EXCEPT ![u] = state][v] \in Opened => user[v] \in Opened
BY StructureTypes

LEMMA OpenContextKeeps ==
  ASSUME EngineAssumption, Structure, NEW c \in Calls, OpenContext(c)
  PROVE  Structure'
<1> DEFINE u == task[c].user
<1>1. /\ At(c, "opening") /\ user[u] \in {"opening", "doomed"} /\ u \in Objects /\ world' = world
  BY BusyTask DEF OpenContext, At, Fits
<1>2. ASSUME NEW state \in {"orphan", "gone"}
      PROVE  /\ [user EXCEPT ![u] = state] \in [Objects -> States]
             /\ \A v \in Objects : [user EXCEPT ![u] = state][v] \in Opened => user[v] \in Opened
  BY <1>1, UserMoves DEF States, Opened
<1>3. CASE Spawned(c, [user EXCEPT ![u] = "orphan"])
  BY <1>1, <1>2, <1>3, SpawnedKeeps
<1>4. CASE user[u] = "opening" /\ user' = [user EXCEPT ![u] = "paging"] /\ UNCHANGED <<eng, users, task, excuse>>
  <2>1. /\ user' \in [Objects -> States]
        /\ \A v \in Objects : user'[v] \in Opened => user[v] \in Opened
    BY <1>1, <1>4, UserMoves DEF States, Opened
  <2>2. task' \in [Calls -> Task \cup {Idle}]
    BY <1>4 DEF Structure, EngineTypeOK
  <2> QED
    BY <1>1, <1>4, <2>1, <2>2, StructureTypes, MapStays
<1>5. CASE Throw(c, [user EXCEPT ![u] = "gone"])
  BY <1>1, <1>2, <1>5, ThrowKeeps
<1> QED
  BY <1>1, <1>3, <1>4, <1>5 DEF OpenContext

(* A user whose page does not open.                                        *)
Unpaged(u) == [user EXCEPT ![u] = IF @ = "cut" THEN "gone" ELSE "barren"]

LEMMA OpenPageKeeps ==
  ASSUME EngineAssumption, Structure, NEW c \in Calls, OpenPage(c)
  PROVE  Structure'
<1> DEFINE u == task[c].user
<1>1. /\ At(c, "opening") /\ user[u] \in {"paging", "cut"} /\ u \in Objects /\ world' = world
  BY BusyTask DEF OpenPage, At, Fits
<1>2. CASE Throw(c, Unpaged(u))
  <2> DEFINE state == IF user[u] = "cut" THEN "gone" ELSE "barren"
  <2>1. Unpaged(u) = [user EXCEPT ![u] = state]
    BY DEF Unpaged
  <2>2. state \in States /\ (state \in Opened => user[u] \in Opened)
    BY <1>1 DEF States, Opened
  <2>3. /\ Unpaged(u) \in [Objects -> States]
        /\ \A v \in Objects : Unpaged(u)[v] \in Opened => user[v] \in Opened
    BY <1>1, <2>1, <2>2, UserMoves
  <2> QED
    BY <1>1, <1>2, <2>3, ThrowKeeps
<1>3. CASE user[u] = "paging" /\ Spawned(c, [user EXCEPT ![u] = "live"])
  <2> DEFINE us == [user EXCEPT ![u] = "live"]
  <2>1. us \in [Objects -> States] /\ \A v \in Objects : us[v] \in Opened => user[v] \in Opened
    BY <1>1, <1>3, UserMoves DEF States, Opened
  <2>2. Spawned(c, us)
    BY <1>3
  <2> HIDE DEF us
  <2> QED
    BY <1>1, <2>1, <2>2, SpawnedKeeps
<1> QED
  BY <1>2, <1>3 DEF OpenPage, Unpaged

LEMMA AwakeKeeps ==
  ASSUME EngineAssumption, Structure, NEW c \in Calls, Awake(c)
  PROVE  Structure'
<1>1. /\ task[c] \in Task /\ task[c].i \in 0 .. MaxTarget /\ task[c].keys \in SUBSET Keys
      /\ world' = world
  BY BusyTask DEF Awake, At, Task
<1>2. CASE Climb(c, task[c], eng, task[c].i, user)
  BY <1>1, <1>2, StructureTypes, ClimbKeeps
<1>3. CASE Descend(c, task[c], eng, task[c].keys) /\ excuse' = excuse
  BY <1>1, <1>3, StructureTypes, DescendKeeps
<1> QED
  BY <1>2, <1>3 DEF Awake

LEMMA PausedEngine ==
  ASSUME Structure
  PROVE  /\ Paused \in Engine /\ (Paused.timers => Paused.browser) /\ Paused.paused /\ ~Paused.down
         /\ Paused.timers = eng.timers
         /\ \A n \in 1 .. MaxTarget :
              LET e == [Paused EXCEPT !.target = n]
              IN  e \in Engine /\ (e.timers => e.browser) /\ e.paused /\ ~e.down /\ e.timers = eng.timers
BY StructureTypes DEF Paused, Engine, Phases

PausingBack(then, back) == [Pausing(then) EXCEPT !.back = back]

LEMMA PausingFits ==
  ASSUME EngineAssumption, NEW then \in Thens, NEW back \in BOOLEAN, NEW k,
         k \in {Pausing(then), PausingBack(then, back)}
  PROVE  /\ k \in Task /\ k.pc = "pausing" /\ k.then = then /\ k.keys = {} /\ (k.back => back)
         /\ \A m, us, x : Fits(k, m, us, x)
<1>1. /\ Pausing(then) \in Task /\ Pausing(then).pc = "pausing" /\ Pausing(then).then = then
      /\ Pausing(then).keys = {} /\ ~Pausing(then).back
  BY BlankTask DEF Pausing, Task, Thens
<1>2. k \in Task /\ k.pc = "pausing" /\ k.then = then /\ k.keys = {} /\ (k.back => back)
  BY <1>1 DEF PausingBack, Task
<1> QED
  BY <1>2 DEF Fits

(* The ways in which a call pauses: it, or an application of a scenario    *)
(* that changes the number of users.                                       *)
Pauses(ts, c, then, back, x) ==
  \E k \in {Pausing(then), PausingBack(then, back)} :
    \E e \in {Paused} \cup {[Paused EXCEPT !.target = n] : n \in 1 .. MaxTarget} : Drain(ts, c, k, e, x)

(* A call that pauses gets to work on the map.                             *)
LEMMA PauseBegins ==
  ASSUME EngineAssumption, Structure, NEW c \in Calls, NEW ts, StandIn(ts, c), NEW then \in Thens,
         NEW back \in BOOLEAN, NEW x \in Excuse, excuse.collided = x.collided,
         Pauses(ts, c, then, back, x), world' = world
  PROVE  Structure'
<1>1. PICK k \in {Pausing(then), PausingBack(then, back)} :
        \E e \in {Paused} \cup {[Paused EXCEPT !.target = n] : n \in 1 .. MaxTarget} : Drain(ts, c, k, e, x)
  BY DEF Pauses
<1>2. PICK e \in Engine : (e.timers => e.browser) /\ Drain(ts, c, k, e, x)
  BY <1>1, PausedEngine
<1> QED
  BY <1>2, PausingFits, DrainKeeps

LEMMA DrainedKeeps ==
  ASSUME EngineAssumption, Structure, NEW c \in Calls, Drained(c)
  PROVE  Structure'
<1>1. /\ task[c].pc = "pausing" /\ Fits(task[c], users, user, excuse.collided) /\ world' = world
      /\ Drain(task, c, task[c], eng, excuse)
  BY BusyTask DEF Drained, At
<1> QED
  BY <1>1, StructureTypes, ItselfStandsIn, DrainKeeps

(* The engine when it resumes, and when it does not.                       *)
Resumed == [[eng EXCEPT !.browser = TRUE] EXCEPT !.paused = FALSE, !.down = FALSE, !.degraded = FALSE,
                                                 !.reach = TRUE, !.ramping = TRUE, !.phase = "ramping_up"]

Declined(c) ==
  /\ users' = users /\ user' = user
  /\ eng' \in Engine /\ eng'.timers = eng.timers /\ (eng.paused => eng'.paused)
  /\ (eng'.timers => eng'.browser)
  /\ \E new \in Task \cup {Idle} : Set(c, new) /\ (new = Idle \/ (task[c].back /\ new = Asking("none")))
  /\ excuse' \in Excuse /\ excuse'.collided = excuse.collided /\ excuse'.held = excuse.held
  /\ excuse'.raced = excuse.raced /\ excuse'.muddled
  /\ (excuse'.kept <=> excuse.kept \/ Filled # {})

LEMMA AskedDoes ==
  ASSUME EngineAssumption, Structure, NEW c \in Calls, Asked(c)
  PROVE  /\ At(c, "asking") /\ world' = world
         /\ Resumed \in Engine /\ Resumed.browser /\ ~Resumed.paused /\ ~Resumed.down
         /\ Resumed.target = eng.target /\ Resumed.timers = eng.timers
         /\ \/ RampTo(c, Resumed, eng.target, "resume") /\ excuse' = excuse
            \/ Declined(c)
<1> DEFINE auto == task[c].then = "auto"
           e == [eng EXCEPT !.browser = TRUE]
           f == [e EXCEPT !.paused = TRUE, !.phase = "paused"]
           Refused(x) == /\ eng' = [x EXCEPT !.down = @ \/ auto]
                         /\ Set(c, Onward(task[c], x))
                         /\ excuse' = [excuse EXCEPT !.muddled = TRUE, !.kept = @ \/ Filled # {}]
                         /\ UNCHANGED <<users, user>>
<1>1. At(c, "asking") /\ world' = world /\ task[c] \in Task
  BY BusyTask DEF Asked, At
<1>2. /\ Resumed \in Engine /\ Resumed.browser /\ ~Resumed.paused /\ ~Resumed.down
      /\ Resumed.target = eng.target /\ Resumed.timers = eng.timers
  BY StructureTypes DEF Engine, Phases, Resumed
<1>3. /\ eng \in Engine /\ (eng.timers => eng.browser)
      /\ f \in Engine /\ f.browser /\ f.paused /\ f.timers = eng.timers
  <2>1. e \in Engine /\ e.browser /\ e.timers = eng.timers
    BY StructureTypes DEF Engine
  <2> HIDE DEF e
  <2>2. f \in Engine /\ f.browser /\ f.paused /\ f.timers = e.timers
    BY <2>1 DEF Engine, Phases
  <2> QED
    BY <2>1, <2>2, StructureTypes
<1>4. ASSUME NEW x \in Engine, x.timers => x.browser, x.timers = eng.timers, eng.paused => x.paused,
             Refused(x)
      PROVE  Declined(c)
  <2>1. eng' \in Engine /\ eng'.paused = x.paused /\ eng'.browser = x.browser /\ eng'.timers = x.timers
    <3>1. (x.down \/ auto) \in BOOLEAN
      BY DEF Engine
    <3> QED
      BY <1>4, <3>1 DEF Engine
  <2>2. (excuse.kept \/ Filled # {}) \in BOOLEAN
    BY StructureTypes DEF Excuse
  <2>3. /\ excuse' \in Excuse /\ excuse'.collided = excuse.collided /\ excuse'.held = excuse.held
        /\ excuse'.raced = excuse.raced /\ excuse'.muddled
        /\ (excuse'.kept <=> excuse.kept \/ Filled # {})
    BY <1>4, <2>2, StructureTypes DEF Excuse
  <2>4. /\ Onward(task[c], x) \in Task \cup {Idle}
        /\ Onward(task[c], x) = Idle \/ (task[c].back /\ Onward(task[c], x) = Asking("none"))
        /\ Set(c, Onward(task[c], x))
    BY <1>1, <1>4, OnwardTask
  <2> QED
    BY <1>4, <2>1, <2>3, <2>4 DEF Declined
<1>5. \/ Refused(eng) \/ Refused(f)
      \/ RampTo(c, Resumed, eng.target, "resume") /\ excuse' = excuse
  BY DEF Asked, Resumed
<1> HIDE DEF f, Refused
<1> QED
  BY <1>1, <1>2, <1>3, <1>4, <1>5

LEMMA AskedKeeps ==
  ASSUME EngineAssumption, Structure, NEW c \in Calls, Asked(c)
  PROVE  Structure'
<1>1. CASE RampTo(c, Resumed, eng.target, "resume") /\ excuse' = excuse
  BY <1>1, AskedDoes, StructureTypes, RampToKeeps DEF Thens
<1>2. CASE Declined(c)
  <2>1. PICK new \in Task \cup {Idle} : Set(c, new) /\ (new = Idle \/ new = Asking("none"))
    BY <1>2 DEF Declined
  <2>2. new # Idle => new.pc = "asking"
    BY <2>1, AtTasks DEF Thens
  <2> QED
    BY <1>2, <2>1, <2>2, AskedDoes, PlainStep DEF Declined
<1> QED
  BY <1>1, <1>2, AskedDoes

LEMMA PingedKeeps ==
  ASSUME EngineAssumption, Structure, NEW c \in Calls, Pinged(c)
  PROVE  Structure'
<1>1. task[c] \in Task /\ world.up \in BOOLEAN
  BY BusyTask, StructureTypes DEF Pinged, At, World
<1>2. eng' = [eng EXCEPT !.reach = world.up]
  BY DEF Pinged
<1>3. eng' \in Engine /\ (eng'.timers => eng'.browser)
  BY <1>1, <1>2, StructureTypes DEF Engine
<1> DEFINE new == [task[c] EXCEPT !.pc = "cms"]
<1>4. new \in Task /\ new.pc = "cms"
  BY <1>1 DEF Task
<1>5. Set(c, new) /\ users' = users /\ user' = user /\ world' = world /\ excuse' = excuse
  BY DEF Pinged
<1> HIDE DEF new
<1> QED
  BY <1>3, <1>4, <1>5, StructureTypes, PlainStep

(* The probe loop drops the users, or goes on.                             *)
LEMMA DecideDoes ==
  ASSUME EngineAssumption, Structure, NEW c \in Calls, Decide(c)
  PROVE  /\ At(c, "cms") /\ world' = world /\ task[c].back \in BOOLEAN
         /\ \/ ~eng.paused /\ Pauses(task, c, "probe", task[c].back, excuse)
            \/ /\ UNCHANGED <<eng, users, user, excuse>>
               /\ \E new \in Task \cup {Idle} :
                    /\ Set(c, new) /\ (new # Idle => new.pc = "asking")
                    /\ new = Idle \/ eng.down \/ task[c].back
<1>1. At(c, "cms") /\ world' = world /\ task[c] \in Task /\ task[c].back \in BOOLEAN
  BY BusyTask DEF Decide, At, Task
<1> DEFINE new == IF ShouldAutoResume THEN [Asking("auto") EXCEPT !.back = task[c].back]
                  ELSE Onward(task[c], eng)
           k == [Pausing("probe") EXCEPT !.back = task[c].back]
<1>2. CASE ~eng.paused /\ Drain(task, c, k, Paused, excuse)
  <2>1. k = PausingBack("probe", task[c].back)
    BY DEF PausingBack
  <2> HIDE DEF k
  <2>2. Pauses(task, c, "probe", task[c].back, excuse)
    BY <1>2, <2>1 DEF Pauses
  <2> QED
    BY <1>1, <1>2, <2>2
<1>3. CASE Set(c, new) /\ UNCHANGED <<eng, users, user, excuse>>
  <2>1. CASE ShouldAutoResume
    <3>1. new \in Task /\ new.pc = "asking"
      <4>1. Asking("auto") \in Task /\ Asking("auto").pc = "asking"
        BY AtTasks DEF Thens
      <4> QED
        BY <1>1, <2>1, <4>1 DEF Task
    <3> QED
      BY <1>1, <1>3, <2>1, <3>1 DEF ShouldAutoResume
  <2>2. CASE ~ShouldAutoResume
    <3>1. new = Onward(task[c], eng)
      BY <2>2
    <3>2. new \in Task \cup {Idle} /\ (new = Idle \/ (task[c].back /\ new = Asking("none")))
      BY <1>1, <3>1, OnwardTask
    <3>3. Asking("none").pc = "asking"
      BY AtTasks DEF Thens
    <3> QED
      BY <1>1, <1>3, <3>2, <3>3
  <2> QED
    BY <2>1, <2>2
<1>4. \/ ~eng.paused /\ Drain(task, c, k, Paused, excuse)
      \/ Set(c, new) /\ UNCHANGED <<eng, users, user, excuse>>
  BY DEF Decide
<1> QED
  BY <1>2, <1>3, <1>4

LEMMA DecideKeeps ==
  ASSUME EngineAssumption, Structure, NEW c \in Calls, Decide(c)
  PROVE  Structure'
<1>1. CASE Pauses(task, c, "probe", task[c].back, excuse)
  BY <1>1, DecideDoes, StructureTypes, ItselfStandsIn, PauseBegins DEF Thens
<1>2. ASSUME UNCHANGED <<eng, users, user, excuse>>, NEW new \in Task \cup {Idle}, Set(c, new),
             new # Idle => new.pc = "asking"
      PROVE  Structure'
  BY <1>2, DecideDoes, StructureTypes, PlainStep
<1> QED
  BY <1>1, <1>2, DecideDoes

-----------------------------------------------------------------------------
(* The forms that a new call takes *)

(* An engine that has changed in nothing that matters to a call, but its   *)
(* target.                                                                 *)
Alike(e) ==
  /\ e \in Engine /\ e.paused = eng.paused /\ e.down = eng.down
  /\ e.timers = eng.timers /\ e.browser = eng.browser

(* It ramps to the target, ...                                             *)
CallRamps(c) ==
  \E then \in {"none", "scenario"} : \E e :
    Alike(e) /\ e.ramping = eng.ramping /\ RampTo(c, e, e.target, then) /\ Muddle(c)

(* ... ramps down before something else, ...                               *)
CallDescends(c) ==
  \E e : /\ Alike(e) /\ Muddle(c)
         /\ \/ \E then \in {"stop", "exit"} : RampDown(c, e, then, 0)
            \/ ~eng.paused /\ RampDown(c, e, "rumdown", e.target)

(* ... resumes, ...                                                        *)
CallAsks(c) ==
  /\ Set(c, Asking("none")) /\ users' = users /\ user' = user
  /\ Alike(eng') /\ (eng' = eng \/ eng.paused)
  /\ excuse' \in Excuse /\ excuse'.collided = excuse.collided /\ ~excuse'.held
  /\ excuse'.kept = excuse.kept /\ (excuse'.muddled <=> excuse.muddled \/ Others(c))

(* ... probes, ...                                                         *)
CallPings(c) == Set(c, Pinging(FALSE)) /\ UNCHANGED <<eng, users, user>> /\ Muddle(c)

(* ... sets the target of an engine that is paused or ramping, ...         *)
CallRaises(c) ==
  /\ UNCHANGED <<users, user, task>> /\ Alike(eng') /\ eng'.ramping = eng.ramping
  /\ eng.paused \/ eng.ramping
  /\ Muddle(c)

(* ... or pauses: it keeps the history of pauses, ends it, or begins one.  *)
HoldKept(ts, x) == ts = task /\ x.held = excuse.held /\ x.raced = excuse.raced

HoldBegun(ts, c, back, x) ==
  /\ x.held /\ ~back
  /\ x.raced <=> \E d \in Calls \ {c} : ~Free(d) /\ (task[d].pc = "asking" \/ task[d].back)
  /\ \A d \in Calls \ {c} : ts[d] = task[d] \/ (ts[d].pc = "probing" /\ ~ts[d].back)

CallDrains(c) ==
  \E ts, x : \E then \in {"none", "retarget"}, back \in BOOLEAN :
    /\ Pauses(ts, c, then, back, x) /\ (back => ~eng.paused)
    /\ StandIn(ts, c) /\ (ts = task \/ (x.muddled /\ OthersIn(ts, c)))
    /\ x \in Excuse /\ x.collided = excuse.collided /\ x.kept = excuse.kept
    /\ HoldKept(ts, x) \/ ~x.held \/ HoldBegun(ts, c, back, x)

CallForms(c) ==
  CallRamps(c) \/ CallDescends(c) \/ CallAsks(c) \/ CallPings(c) \/ CallRaises(c) \/ CallDrains(c)

LEMMA AlikeEngines ==
  ASSUME Structure
  PROVE  /\ Alike(eng)
         /\ \A n \in 1 .. MaxTarget :
              LET e == [eng EXCEPT !.target = n]
              IN  Alike(e) /\ e.target = n /\ e.ramping = eng.ramping
         /\ \A phase \in Phases :
              LET e == [eng EXCEPT !.phase = phase]
              IN  Alike(e) /\ e.target = eng.target /\ e.ramping = eng.ramping
<1>1. eng \in Engine
  BY StructureTypes
<1> QED
  BY <1>1 DEF Alike, Engine

(* The excuses with which calls set out.                                   *)
LEMMA Excuses ==
  ASSUME EngineAssumption, Structure, NEW c \in Calls
  PROVE  /\ excuse \in Excuse
         /\ Hold(c) \in Excuse /\ Hold(c).collided = excuse.collided /\ Hold(c).kept = excuse.kept
         /\ Hold(c).held
         /\ Hold(c).raced <=> \E d \in Calls \ {c} : ~Free(d) /\ (task[d].pc = "asking" \/ task[d].back)
         /\ LET x == [Hold(c) EXCEPT !.muddled = TRUE]
            IN  /\ x \in Excuse /\ x.collided = excuse.collided /\ x.kept = excuse.kept
                /\ x.muddled /\ x.held /\ x.raced = Hold(c).raced
         /\ LET x == [Release EXCEPT !.muddled = TRUE]
            IN  /\ x \in Excuse /\ x.collided = excuse.collided /\ x.kept = excuse.kept
                /\ x.muddled /\ ~x.held
         /\ LET x == [Release EXCEPT !.muddled = @ \/ Others(c)]
            IN  /\ x \in Excuse /\ x.collided = excuse.collided /\ x.kept = excuse.kept
                /\ ~x.held /\ (x.muddled <=> excuse.muddled \/ Others(c))
<1>1. excuse \in Excuse
  BY StructureTypes
<1>2. (\E d \in Calls \ {c} : ~Free(d) /\ (task[d].pc = "asking" \/ task[d].back)) \in BOOLEAN
  OBVIOUS
<1>3. /\ Hold(c) \in Excuse /\ Hold(c).collided = excuse.collided /\ Hold(c).kept = excuse.kept
      /\ Hold(c).held
      /\ Hold(c).raced <=> \E d \in Calls \ {c} : ~Free(d) /\ (task[d].pc = "asking" \/ task[d].back)
  BY <1>1, <1>2 DEF Hold, Excuse
<1>4. /\ Release \in Excuse /\ Release.collided = excuse.collided /\ Release.kept = excuse.kept
      /\ ~Release.held /\ Release.muddled = excuse.muddled
  BY <1>1 DEF Release, Excuse
<1>5. (excuse.muddled \/ Others(c)) \in BOOLEAN
  BY <1>1, OthersBoolean DEF Excuse
<1>6. ASSUME NEW y \in Excuse, NEW b \in BOOLEAN
      PROVE  LET x == [y EXCEPT !.muddled = b]
             IN  /\ x \in Excuse /\ x.collided = y.collided /\ x.kept = y.kept
                 /\ x.muddled = b /\ x.held = y.held /\ x.raced = y.raced
  BY DEF Excuse
<1>7. LET x == [Hold(c) EXCEPT !.muddled = TRUE]
      IN  /\ x \in Excuse /\ x.collided = excuse.collided /\ x.kept = excuse.kept
          /\ x.muddled /\ x.held /\ x.raced = Hold(c).raced
  BY <1>3, <1>6
<1>8. LET x == [Release EXCEPT !.muddled = TRUE]
      IN  /\ x \in Excuse /\ x.collided = excuse.collided /\ x.kept = excuse.kept
          /\ x.muddled /\ ~x.held
  BY <1>4, <1>6
<1>9. LET x == [Release EXCEPT !.muddled = @ \/ Others(c)]
      IN  /\ x \in Excuse /\ x.collided = excuse.collided /\ x.kept = excuse.kept
          /\ ~x.held /\ (x.muddled <=> excuse.muddled \/ Others(c))
  <2>1. Release.muddled \/ Others(c) <=> excuse.muddled \/ Others(c)
    BY <1>4
  <2>2. (Release.muddled \/ Others(c)) \in BOOLEAN
    BY <1>4, <1>5
  <2> QED
    BY <1>4, <1>6, <2>1, <2>2
<1> QED
  BY <1>1, <1>3, <1>7, <1>8, <1>9

LEMMA CallsHaveForms ==
  ASSUME EngineAssumption, Structure, NEW c \in Calls, Call(c)
  PROVE  Free(c) /\ world' = world /\ CallForms(c)
<1>1. ASSUME CallPause(c)
      PROVE  Free(c) /\ world' = world /\ CallDrains(c)
  <2>1. Pauses(task, c, "none", FALSE, Hold(c)) /\ Free(c) /\ world' = world
    BY <1>1 DEF CallPause, Pauses
  <2>2. HoldBegun(task, c, FALSE, Hold(c)) /\ Hold(c) \in Excuse /\ Hold(c).collided = excuse.collided
        /\ Hold(c).kept = excuse.kept
    BY Excuses DEF HoldBegun
  <2> QED
    BY <2>1, <2>2, ItselfStandsIn DEF CallDrains
<1>2. ASSUME CallResume(c)
      PROVE  Free(c) /\ world' = world /\ CallAsks(c)
  BY <1>2, Excuses, AlikeEngines DEF CallResume, CallAsks
<1>3. ASSUME NEW n \in 1 .. MaxTarget, NEW then \in {"none", "scenario"},
             RampTo(c, [eng EXCEPT !.target = n], n, then), Muddle(c)
      PROVE  CallRamps(c)
  BY <1>3, AlikeEngines DEF CallRamps
<1>4. ASSUME SetUsers(c)
      PROVE  Free(c) /\ world' = world /\ CallRamps(c)
  BY <1>3, <1>4 DEF SetUsers
<1>5. ASSUME NEW back \in BOOLEAN, back => ~eng.paused,
             NEW k \in {Pausing("retarget"), PausingBack("retarget", back), Pausing("none")},
             NEW e \in {Paused} \cup {[Paused EXCEPT !.target = n] : n \in 1 .. MaxTarget},
             Drain(task, c, k, e, excuse)
      PROVE  CallDrains(c)
  <2>1. PICK then \in {"none", "retarget"} : Pauses(task, c, then, back, excuse)
    BY <1>5 DEF Pauses
  <2>2. HoldKept(task, excuse)
    BY DEF HoldKept
  <2> QED
    BY <1>5, <2>1, <2>2, Excuses, ItselfStandsIn DEF CallDrains
<1>6. ASSUME SetScenario(c)
      PROVE  Free(c) /\ world' = world /\ CallForms(c)
  <2>1. Free(c) /\ world' = world
    BY <1>6 DEF SetScenario
  <2>2. PICK n \in 1 .. MaxTarget :
          \/ RampTo(c, [eng EXCEPT !.target = n], n, "scenario") /\ Muddle(c)
          \/ Drain(task, c, PausingBack("retarget", ~eng.paused), [Paused EXCEPT !.target = n], excuse)
    BY <1>6 DEF SetScenario, PausingBack
  <2>3. (~eng.paused) \in BOOLEAN
    BY StructureTypes DEF Engine
  <2> QED
    BY <1>3, <1>5, <2>1, <2>2, <2>3 DEF CallForms
<1>7. ASSUME ApplyRum(c)
      PROVE  Free(c) /\ world' = world /\ CallForms(c)
  <2>1. Free(c) /\ world' = world /\ Muddle(c)
    BY <1>7 DEF ApplyRum
  <2>2. PICK n \in eng.target .. MaxTarget :
          LET e == [eng EXCEPT !.target = n]
          IN  IF eng.paused \/ eng.ramping THEN eng' = e /\ UNCHANGED <<users, user, task>>
              ELSE RampDown(c, [e EXCEPT !.ramping = TRUE, !.phase = "ramping_up"], "rumdown", n)
    BY <1>7 DEF ApplyRum
  <2>3. n \in 1 .. MaxTarget
    BY <2>2, StructureTypes, KeysNat DEF Engine
  <2> DEFINE e == [eng EXCEPT !.target = n]
             f == [e EXCEPT !.ramping = TRUE, !.phase = "ramping_up"]
  <2>4. Alike(e) /\ e.target = n /\ e.ramping = eng.ramping
    BY <2>3, AlikeEngines
  <2>5. CASE eng.paused \/ eng.ramping
    BY <2>1, <2>2, <2>4, <2>5 DEF CallRaises, CallForms
  <2>6. CASE ~(eng.paused \/ eng.ramping)
    <3>1. RampDown(c, f, "rumdown", n)
      BY <2>2, <2>6
    <3>2. Alike(f) /\ f.target = n
      <4> HIDE DEF e
      <4> QED
        BY <2>4 DEF Alike, Engine, Phases
    <3> HIDE DEF f
    <3> QED
      BY <2>1, <2>6, <3>1, <3>2 DEF CallDescends, CallForms
  <2> QED
    BY <2>5, <2>6
<1>8. ASSUME Retarget(c)
      PROVE  Free(c) /\ world' = world /\ CallDrains(c)
  BY <1>5, <1>8 DEF Retarget
<1>9. ASSUME NEW then \in {"stop", "exit"}, RampDown(c, [eng EXCEPT !.phase = "ramping_down"], then, 0),
             Muddle(c)
      PROVE  CallDescends(c)
  BY <1>9, AlikeEngines DEF CallDescends, Phases
<1>10. ASSUME Stop(c)
       PROVE  Free(c) /\ world' = world /\ CallDescends(c)
  BY <1>9, <1>10 DEF Stop
<1>11. ASSUME Monitor(c)
       PROVE  Free(c) /\ world' = world /\ CallForms(c)
  <2> DEFINE e == [eng EXCEPT !.degraded = TRUE, !.phase = "degraded"]
  <2>1. Alike(e) /\ e.target = eng.target /\ e.ramping = eng.ramping
    BY StructureTypes DEF Alike, Engine, Phases
  <2> HIDE DEF e
  <2>2. CASE RampTo(c, e, eng.target, "none") /\ Muddle(c)
    BY <1>11, <2>1, <2>2 DEF CallRamps, CallForms, Monitor
  <2>3. CASE Drain(task, c, Pausing("none"), Paused, excuse)
    BY <1>5, <1>11, <2>3 DEF CallForms, Monitor
  <2>4. CASE RampDown(c, [eng EXCEPT !.phase = "ramping_down"], "exit", 0) /\ Muddle(c)
    BY <1>9, <1>11, <2>4 DEF CallForms, Monitor
  <2> QED
    BY <1>11, <2>2, <2>3, <2>4 DEF Monitor, e
<1>12. ASSUME Tick(c)
       PROVE  Free(c) /\ world' = world /\ CallPings(c)
  BY <1>12, AtTasks DEF Tick, CallPings
<1>13. ASSUME NEW t \in Task, NEW d \in Calls \ {c}, Free(d), t.pc \in {"probing", "asking"}, ~t.back
       PROVE  LET ts == [task EXCEPT ![d] = t]
              IN  StandIn(ts, c) /\ OthersIn(ts, c)
  <2>1. task \in [Calls -> Task \cup {Idle}]
    BY DEF Structure, EngineTypeOK
  <2>2. t # Idle
    BY EngineAssumption DEF EngineAssumption
  <2> QED
    BY <1>13, <2>1, <2>2 DEF StandIn, Fresh, OthersIn
<1>14. ASSUME SyncUsers(c)
       PROVE  CallForms(c)
  <2>1. PICK n \in 1 .. MaxTarget :
    LET e == [eng EXCEPT !.target = n]
    IN  \/ RampTo(c, e, n, "none") /\ Muddle(c)
        \/ /\ ~eng.paused /\ world.paused
           /\ \E d \in Calls \ {c} :
                /\ Free(d)
                /\ Drain([task EXCEPT ![d] = [Blank EXCEPT !.pc = "probing", !.to = n]], c,
                         Pausing("none"), [Paused EXCEPT !.target = n], [Hold(c) EXCEPT !.muddled = TRUE])
        \/ /\ eng.paused /\ ~world.paused /\ ~eng.ramping
           /\ eng' = e /\ Set(c, Asking("none"))
           /\ excuse' = [Release EXCEPT !.muddled = @ \/ Others(c)]
           /\ UNCHANGED <<users, user>>
    BY <1>14 DEF SyncUsers
  <2>2. CASE RampTo(c, [eng EXCEPT !.target = n], n, "none") /\ Muddle(c)
    BY <1>3, <2>2 DEF CallForms
  <2>3. ASSUME NEW d \in Calls \ {c}, Free(d),
               Drain([task EXCEPT ![d] = [Blank EXCEPT !.pc = "probing", !.to = n]], c,
                     Pausing("none"), [Paused EXCEPT !.target = n], [Hold(c) EXCEPT !.muddled = TRUE])
        PROVE  CallDrains(c)
    <3> DEFINE t == Ramp(n, "none")
               ts == [task EXCEPT ![d] = t]
               x == [Hold(c) EXCEPT !.muddled = TRUE]
    <3>0. n \in 0 .. MaxTarget
      BY KeysNat
    <3>1. [Blank EXCEPT !.pc = "probing", !.to = n] = t
      BY <3>0, PlainRamp
    <3>2. t \in Task /\ t.pc = "probing" /\ ~t.back
      BY <3>0, PlainRamp
    <3>3. /\ x \in Excuse /\ x.collided = excuse.collided /\ x.kept = excuse.kept /\ x.muddled /\ x.held
          /\ x.raced <=> \E o \in Calls \ {c} : ~Free(o) /\ (task[o].pc = "asking" \/ task[o].back)
      BY Excuses
    <3>4. Pauses(ts, c, "none", FALSE, x)
      BY <2>3, <3>1 DEF Pauses
    <3> HIDE DEF t, x
    <3>5. StandIn(ts, c) /\ OthersIn(ts, c)
      BY <1>13, <2>3, <3>2
    <3>6. HoldBegun(ts, c, FALSE, x)
      <4>1. task \in [Calls -> Task \cup {Idle}]
        BY DEF Structure, EngineTypeOK
      <4> QED
        BY <3>2, <3>3, <4>1 DEF HoldBegun
    <3> HIDE DEF ts
    <3> QED
      BY <3>3, <3>4, <3>5, <3>6 DEF CallDrains
  <2>4. CASE /\ eng.paused
             /\ eng' = [eng EXCEPT !.target = n] /\ Set(c, Asking("none"))
             /\ excuse' = [Release EXCEPT !.muddled = @ \/ Others(c)]
             /\ UNCHANGED <<users, user>>
    <3>1. Alike(eng')
      BY <2>4, AlikeEngines
    <3> QED
      BY <2>4, <3>1, Excuses DEF CallAsks, CallForms
  <2> QED
    BY <2>1, <2>2, <2>3, <2>4 DEF CallForms
<1>15. ASSUME SyncTarget(c)
       PROVE  CallDrains(c)
  <2>1. CASE Drain(task, c, Pausing("retarget"), Paused, excuse)
    BY <1>5, <2>1
  <2>2. ASSUME NEW d \in Calls \ {c}, Free(d),
               Drain([task EXCEPT ![d] = Asking("none")], c, Pausing("retarget"), Paused,
                     [Release EXCEPT !.muddled = TRUE])
        PROVE  CallDrains(c)
    <3> DEFINE ts == [task EXCEPT ![d] = Asking("none")]
               x == [Release EXCEPT !.muddled = TRUE]
    <3>1. Asking("none") \in Task /\ Asking("none").pc = "asking" /\ ~Asking("none").back
      BY AtTasks DEF Thens
    <3>2. x \in Excuse /\ x.collided = excuse.collided /\ x.kept = excuse.kept /\ x.muddled /\ ~x.held
      BY Excuses
    <3>3. Pauses(ts, c, "retarget", FALSE, x)
      BY <2>2 DEF Pauses
    <3> HIDE DEF x
    <3>4. StandIn(ts, c) /\ OthersIn(ts, c)
      BY <1>13, <2>2, <3>1
    <3> HIDE DEF ts
    <3> QED
      BY <3>2, <3>3, <3>4 DEF CallDrains
  <2> QED
    BY <1>15, <2>1, <2>2 DEF SyncTarget
<1>16. ASSUME Sync(c)
       PROVE  Free(c) /\ world' = world /\ CallForms(c)
  BY <1>14, <1>15, <1>16 DEF Sync, CallForms
<1> QED
  BY <1>1, <1>2, <1>4, <1>6, <1>7, <1>8, <1>10, <1>11, <1>12, <1>16 DEF Call, CallForms

LEMMA CallsKeep ==
  ASSUME EngineAssumption, Structure, NEW c \in Calls, Call(c)
  PROVE  Structure'
<1>0. world' = world /\ CallForms(c)
  BY CallsHaveForms
<1>1. ASSUME CallRamps(c)
      PROVE  Structure'
  <2>1. PICK then \in {"none", "scenario"}, e \in Engine :
          (e.timers => e.browser) /\ RampTo(c, e, e.target, then) /\ Muddle(c)
    BY <1>1, StructureTypes DEF CallRamps, Alike
  <2>2. e.target \in 0 .. MaxTarget
    BY KeysNat DEF Engine
  <2> QED
    BY <1>0, <2>1, <2>2, MuddleExcuse, RampToKeeps DEF Thens
<1>2. ASSUME CallDescends(c)
      PROVE  Structure'
  <2>1. PICK e \in Engine : /\ (e.timers => e.browser) /\ Muddle(c)
                            /\ \E then \in Thens : \E goal \in {0, e.target} : RampDown(c, e, then, goal)
    BY <1>2, StructureTypes DEF CallDescends, Alike, Thens
  <2>2. {0, e.target} \subseteq 0 .. MaxTarget
    BY KeysNat DEF Engine
  <2> QED
    BY <1>0, <2>1, <2>2, MuddleExcuse, RampDownKeeps
<1>3. ASSUME CallAsks(c) \/ CallPings(c)
      PROVE  Structure'
  <2>1. PICK new \in {Asking("none"), Pinging(FALSE)} : Set(c, new)
    BY <1>3 DEF CallAsks, CallPings
  <2>2. new \in Task /\ new.pc \in {"ping", "asking"}
    BY <2>1, AtTasks DEF Thens
  <2>3. /\ users' = users /\ user' = user /\ eng' \in Engine /\ (eng'.timers => eng'.browser)
        /\ excuse' \in Excuse /\ excuse'.collided = excuse.collided
    BY <1>3, StructureTypes, MuddleExcuse DEF CallAsks, CallPings, Alike
  <2> QED
    BY <1>0, <2>1, <2>2, <2>3, PlainStep
<1>4. ASSUME CallRaises(c)
      PROVE  Structure'
  <2>1. task \in [Calls -> Task \cup {Idle}]
    BY DEF Structure, EngineTypeOK
  <2> QED
    BY <1>0, <1>4, <2>1, StructureTypes, MuddleExcuse, MapStays DEF CallRaises, Alike
<1>5. ASSUME CallDrains(c)
      PROVE  Structure'
  <2>1. PICK ts, x : \E then \in {"none", "retarget"}, back \in BOOLEAN :
          /\ Pauses(ts, c, then, back, x) /\ StandIn(ts, c) /\ x \in Excuse /\ x.collided = excuse.collided
    BY <1>5 DEF CallDrains
  <2> QED
    BY <1>0, <2>1, PauseBegins DEF Thens
<1> QED
  BY <1>0, <1>1, <1>2, <1>3, <1>4, <1>5 DEF CallForms

LEMMA ExitKeeps ==
  ASSUME EngineAssumption, Structure, NEW c \in Calls, Exit(c)
  PROVE  Structure'
BY RestartKeeps DEF Exit

LEMMA LoopEndsKeeps ==
  ASSUME EngineAssumption, Structure, NEW u \in Objects, LoopEnds(u)
  PROVE  Structure'
<1>1. /\ user' = [user EXCEPT ![u] = "gone"] /\ UNCHANGED <<eng, users, task, world, excuse>>
  BY DEF LoopEnds
<1>2. /\ user' \in [Objects -> States]
      /\ \A v \in Objects : user'[v] \in Opened => user[v] \in Opened
  BY <1>1, UserMoves DEF States, Opened
<1>3. task \in [Calls -> Task \cup {Idle}]
  BY DEF Structure, EngineTypeOK
<1> QED
  BY <1>1, <1>2, <1>3, StructureTypes, MapStays

LEMMA FlipKeeps ==
  ASSUME EngineAssumption, Structure, Flip
  PROVE  Structure'
<1>1. world' = [world EXCEPT !.up = ~@] \/ world' = [world EXCEPT !.paused = ~@]
  BY DEF Flip
<1>2. world' \in World
  BY <1>1, StructureTypes DEF World
<1>3. task \in [Calls -> Task \cup {Idle}]
  BY DEF Structure, EngineTypeOK
<1>4. UNCHANGED <<eng, users, user, task, excuse>>
  BY DEF Flip
<1> QED
  BY <1>2, <1>3, <1>4, StructureTypes, MapStays

LEMMA IdlesKeep ==
  ASSUME EngineAssumption, Structure, UNCHANGED vars
  PROVE  Structure'
<1>1. UNCHANGED <<eng, users, user, task, world, excuse>>
  BY DEF vars
<1>2. task \in [Calls -> Task \cup {Idle}]
  BY DEF Structure, EngineTypeOK
<1> QED
  BY <1>1, <1>2, StructureTypes, MapStays

LEMMA StepKeepsStructure ==
  ASSUME EngineAssumption, Structure, [Next]_vars
  PROVE  Structure'
<1>1. ASSUME NEW c \in Calls, Step(c)
      PROVE  Structure'
  BY <1>1, BeginKeeps, ProbedKeeps, OpenContextKeeps, OpenPageKeeps, AwakeKeeps, StoppedKeeps,
     DrainedKeeps, AskedKeeps, PingedKeeps, DecideKeeps, ExitKeeps DEF Step
<1>2. ASSUME NEW c \in Calls, Call(c)
      PROVE  Structure'
  BY <1>2, CallsKeep
<1> QED
  BY <1>1, <1>2, LoopEndsKeeps, FlipKeeps, IdlesKeep DEF Next

-----------------------------------------------------------------------------
(* The operator's pause *)

Held == excuse.held /\ ~excuse.raced

(* A call that is not about to resume.                                     *)
Quiet(t) == t = Idle \/ (t.pc # "asking" /\ ~t.back)

Hushed == eng.paused /\ ~eng.down /\ \A c \in Calls : Quiet(task[c])

(* While the pause of the operator, or of the leader, holds, nothing is    *)
(* under way that would end it, or that would have the probe loop end it.  *)
PauseSound == Held => Hushed

(* A step that does not say that the operator pauses.                      *)
Unclaimed == Held' => Held

LEMMA QuietFacts ==
  ASSUME EngineAssumption
  PROVE  /\ Quiet(Idle) /\ Quiet(Exiting) /\ Quiet(Pinging(FALSE))
         /\ \A k \in Task : \A i \in 0 .. MaxTarget : ~k.back /\ i < k.to => Quiet(Napping(k, i))
         /\ \A k \in Task : \A keys \in SUBSET Keys : \A u \in Objects \cup {NoUser} :
              ~k.back => Quiet(Stopping(k, keys, u))
         /\ \A k \in Task : \A i \in Keys : \A u \in Objects \cup {NoUser} :
              ~k.back /\ k.pc # "asking" => Quiet(Visiting(k, i, u))
         /\ \A t \in Task : t.pc # "asking" /\ ~t.back => Quiet(t)
         /\ \A t \in Task : t.pc # "asking" /\ ~t.back => Quiet(Emptied(t))
<1>1. Quiet(Exiting) /\ Quiet(Pinging(FALSE))
  BY AtTasks, AfterFits, BlankTask DEF Quiet
<1>2. \A t \in Task : t.pc # "asking" /\ ~t.back => Quiet(Emptied(t))
  BY EmptiedTask DEF Quiet
<1>3. \A k \in Task : \A i \in 0 .. MaxTarget : ~k.back /\ i < k.to => Quiet(Napping(k, i))
  BY ClimbTasks DEF Quiet
<1>4. \A k \in Task : \A keys \in SUBSET Keys : \A u \in Objects \cup {NoUser} :
        ~k.back => Quiet(Stopping(k, keys, u))
  BY StoppingTask DEF Quiet
<1>5. \A k \in Task : \A i \in Keys : \A u \in Objects \cup {NoUser} :
        ~k.back /\ k.pc # "asking" => Quiet(Visiting(k, i, u))
  BY VisitingTask DEF Quiet
<1>6. \A t \in Task : t.pc # "asking" /\ ~t.back => Quiet(t)
  BY DEF Quiet
<1>7. Quiet(Idle)
  BY DEF Quiet
<1> QED
  BY <1>1, <1>2, <1>3, <1>4, <1>5, <1>6, <1>7

(* A call that is under way is none of these.                              *)
LEMMA BusyQuiet ==
  ASSUME Structure, Hushed, NEW c \in Calls, ~Free(c)
  PROVE  task[c] \in Task /\ task[c].pc # "asking" /\ ~task[c].back
BY BusyTask DEF Hushed, Quiet, Free

LEMMA HushStays ==
  ASSUME Hushed, NEW c \in Calls, OnlyCall(c), Quiet(task'[c]), eng'.paused, ~eng'.down
  PROVE  Hushed'
BY DEF Hushed, OnlyCall

(* A call that ends a ramp while the engine is paused.                     *)
LEMMA ReturnHushed ==
  ASSUME EngineAssumption, Structure, Hushed, NEW c \in Calls, NEW k \in Task, NEW e \in Engine,
         e.timers => e.browser, e.paused, ~e.down, NEW us \in [Objects -> States], Return(c, k, e, us)
  PROVE  Hushed'
<1>1. eng'.paused /\ ~eng'.down /\ OnlyCall(c) /\ task'[c] \in {Idle, Exiting}
  BY ReturnDoes DEF Returned
<1>2. Quiet(task'[c])
  BY <1>1, QuietFacts
<1> QED
  BY <1>1, <1>2, HushStays

LEMMA ClimbHushed ==
  ASSUME EngineAssumption, Structure, Hushed, NEW c \in Calls, NEW k \in Task, NEW e \in Engine,
         e.timers => e.browser, e.paused, ~e.down,
         NEW i \in 0 .. MaxTarget, NEW us \in [Objects -> States], Climb(c, k, e, i, us)
  PROVE  Hushed'
<1>1. i \in Nat /\ k.to \in Nat
  BY KeysNat DEF Task
<1>2. ClimbEnds(c, k, e, i, us)
  BY <1>1, ClimbDoes DEF ClimbSpawns, ClimbWaits
<1>3. /\ Phased(e, "running") \in Engine
      /\ Phased(e, "running").timers => Phased(e, "running").browser
      /\ Phased(e, "running").paused /\ ~Phased(e, "running").down
  BY PhasedEngine DEF Phases
<1> QED
  BY <1>2, <1>3, ReturnHushed DEF ClimbEnds

LEMMA SpawnedHushed ==
  ASSUME EngineAssumption, Structure, Hushed, NEW c \in Calls, At(c, "opening"),
         NEW us \in [Objects -> States], Spawned(c, us)
  PROVE  Hushed'
<1> DEFINE k == task[c]
<1>1. k \in Task /\ k.i < k.to /\ ~k.back
  BY BusyTask, BusyQuiet DEF At, Fits
<1>2. k.i \in 0 .. MaxTarget /\ k.to \in 0 .. MaxTarget
  BY <1>1 DEF Task
<1>3. eng \in Engine /\ (eng.timers => eng.browser) /\ eng.paused /\ ~eng.down
  BY StructureTypes DEF Hushed
<1>4. CASE k.i + 1 < k.to
  <2>1. Set(c, Napping(k, k.i)) /\ eng' = eng
    BY <1>4 DEF Spawned, Napping
  <2>2. OnlyCall(c) /\ task'[c] = Napping(k, k.i) /\ Quiet(Napping(k, k.i))
    BY <1>1, <1>2, <2>1, ClimbTasks, QuietFacts, SetCall
  <2> QED
    BY <1>3, <2>1, <2>2, HushStays
<1>5. CASE ~(k.i + 1 < k.to)
  <2>1. Climb(c, k, eng, k.to, us)
    BY <1>5 DEF Spawned
  <2> QED
    BY <1>1, <1>2, <1>3, <2>1, ClimbHushed
<1> QED
  BY <1>4, <1>5

LEMMA DescendHushed ==
  ASSUME EngineAssumption, Structure, Hushed, NEW c \in Calls, NEW k \in Task, ~k.back,
         NEW e \in Engine, e.timers => e.browser, e.paused, ~e.down,
         NEW keys \in SUBSET Keys, Descend(c, k, e, keys)
  PROVE  Hushed'
<1>1. user \in [Objects -> States] /\ users \in [Keys -> Objects \cup {NoUser}]
  BY StructureTypes
<1>2. CASE keys = {}
  <2>1. PICK phase \in Phases : Return(c, k, Phased(e, phase), user)
    BY <1>2 DEF Descend, Phased, Phases
  <2> QED
    BY <1>1, <2>1, PhasedEngine, ReturnHushed
<1>3. CASE keys # {}
  <2>1. PICK i : i = Min(keys)
    OBVIOUS
  <2>2. Set(c, Stopping(k, keys, users[i])) /\ eng' = e
    BY <1>3, <2>1 DEF Descend, Stopping
  <2>3. users[i] \in Objects \cup {NoUser}
    BY <1>1, <1>3, <2>1, Least, KeysNat
  <2>4. /\ OnlyCall(c) /\ task'[c] = Stopping(k, keys, users[i])
        /\ Quiet(Stopping(k, keys, users[i]))
    BY <2>2, <2>3, StoppingTask, QuietFacts, SetCall
  <2> QED
    BY <2>2, <2>4, HushStays
<1> QED
  BY <1>2, <1>3

LEMMA PlanHushed ==
  ASSUME EngineAssumption, Structure, Hushed, NEW c \in Calls, NEW k \in Task, ~k.back,
         NEW e \in Engine, e.timers => e.browser, e.paused, ~e.down, Plan(c, k, e)
  PROVE  Hushed'
<1>1. /\ user \in [Objects -> States] /\ Size \in Nat /\ Filled \subseteq Keys
      /\ k.to \in 0 .. MaxTarget /\ MaxTarget \in Nat
  BY SizeNat, KeysNat, StructureTypes DEF Task
<1>2. CASE k.to > Size
  <2>1. Climb(c, k, Phased(e, "ramping_up"), Size, user)
    BY <1>2 DEF Plan, Phased
  <2>2. Size \in 0 .. MaxTarget
    BY <1>1, <1>2
  <2> QED
    BY <1>1, <2>1, <2>2, PhasedEngine, ClimbHushed DEF Phases
<1>3. CASE k.to < Size
  <2> DEFINE first == {i \in Filled : Cardinality({j \in Filled : j < i}) < Size - k.to}
  <2>1. Descend(c, k, Phased(e, "ramping_down"), first) /\ first \in SUBSET Keys
    BY <1>1, <1>3 DEF Plan, Phased
  <2> HIDE DEF first
  <2> QED
    BY <2>1, PhasedEngine, DescendHushed DEF Phases
<1>4. CASE k.to = Size
  <2>1. PICK phase \in Phases : Return(c, k, Phased(e, phase), user)
    BY <1>1, <1>4 DEF Plan, Phased, Phases
  <2> QED
    BY <1>1, <2>1, PhasedEngine, ReturnHushed
<1> QED
  BY <1>1, <1>2, <1>3, <1>4

(* A ramp throws: it pauses, if it does anything, or the process starts    *)
(* again, and knows of no pause.                                           *)
LEMMA ThrowHushed ==
  ASSUME EngineAssumption, Structure, Hushed, NEW c \in Calls, NEW us, Throw(c, us), Held'
  PROVE  Hushed'
<1>1. CASE StartAgain(c)
  BY <1>1 DEF StartAgain, NoExcuse, Held
<1>2. CASE Thrown(c, us)
  <2>1. eng'.paused /\ ~eng'.down /\ OnlyCall(c) /\ task'[c] = Idle
    BY <1>2 DEF Thrown, Hushed
  <2> QED
    BY <2>1, QuietFacts, HushStays
<1> QED
  BY <1>1, <1>2, ThrowDoes

(* A pause at work, from any state in which no other call resumes.         *)
LEMMA DrainHushed ==
  ASSUME EngineAssumption, Structure, NEW c \in Calls, NEW ts, StandIn(ts, c), NEW k \in Task,
         k.pc = "pausing", ~k.back, NEW e \in Engine, e.paused, ~e.down, NEW x \in Excuse,
         \A d \in Calls \ {c} : Quiet(ts[d]), Drain(ts, c, k, e, x), Held'
  PROVE  Hushed' /\ x.held /\ ~x.raced
<1>1. Filled \subseteq Keys /\ \A i \in Filled : users[i] \in Objects \cup {NoUser}
  BY SizeNat DEF Structure, EngineTypeOK
<1>2. CASE Cleared(ts, c, k, e, x)
  <2>1. x.held /\ ~x.raced /\ k.then # "probe"
    BY <1>2 DEF Cleared, Held
  <2>2. eng'.paused /\ ~eng'.down
    BY <1>2, <2>1 DEF Cleared
  <2>3. ASSUME NEW d \in Calls
        PROVE  Quiet(task'[d])
    <3>1. CASE d = c
      <4>1. task'[d] \in {Idle, Pinging(FALSE)}
        <5>1. k.back = FALSE
          BY DEF Task
        <5> QED
          BY <1>2, <3>1, <5>1 DEF Cleared, Landing
      <4> QED
        BY <4>1, QuietFacts
    <3>2. CASE d # c /\ At(d, "pausing")
      <4>1. task'[d] = Emptied(ts[d])
        BY <1>2, <3>2 DEF Cleared, RestHeld
      <4>2. ts[d] \in Task /\ ts[d].pc # "asking" /\ ~ts[d].back
        BY <3>2 DEF StandIn, At, Free, Fresh, Quiet
      <4> QED
        BY <4>1, <4>2, QuietFacts
    <3>3. CASE d # c /\ ~At(d, "pausing")
      BY <1>2, <3>3 DEF Cleared, RestHeld
    <3> QED
      BY <3>1, <3>2, <3>3
  <2> QED
    BY <2>1, <2>2, <2>3 DEF Hushed
<1>3. ASSUME NEW i \in Filled \ k.keys, Visited(ts, c, k, e, x, i)
      PROVE  Hushed' /\ x.held /\ ~x.raced
  <2>1. Quiet(Visiting(k, i, users[i]))
    BY <1>1, QuietFacts
  <2>2. /\ task'[c] = Visiting(k, i, users[i]) /\ eng' = e /\ excuse'.held = x.held
        /\ excuse'.raced = x.raced /\ \A d \in Calls \ {c} : task'[d] = ts[d]
    BY <1>3 DEF Visited
  <2> QED
    BY <2>1, <2>2 DEF Hushed, Held
<1> QED
  BY <1>2, <1>3, DrainDoes

(* The pauses of the calls.                                                *)
LEMMA PausesHushed ==
  ASSUME EngineAssumption, Structure, NEW c \in Calls, NEW ts, StandIn(ts, c), NEW then \in Thens,
         NEW x \in Excuse, \A d \in Calls \ {c} : Quiet(ts[d]), Pauses(ts, c, then, FALSE, x), Held'
  PROVE  Hushed'
<1>1. PICK k \in {Pausing(then), PausingBack(then, FALSE)} :
        \E e \in {Paused} \cup {[Paused EXCEPT !.target = n] : n \in 1 .. MaxTarget} : Drain(ts, c, k, e, x)
  BY DEF Pauses
<1>2. PICK e \in Engine : e.paused /\ ~e.down /\ Drain(ts, c, k, e, x)
  BY <1>1, PausedEngine
<1>3. k \in Task /\ k.pc = "pausing" /\ ~k.back
  <2>1. PICK back : back = FALSE
    OBVIOUS
  <2>2. back \in BOOLEAN /\ k \in {Pausing(then), PausingBack(then, back)}
    BY <1>1, <2>1
  <2> QED
    BY <2>1, <2>2, PausingFits
<1> QED
  BY <1>2, <1>3, DrainHushed

(* What a pause does to the history of pauses.                             *)
LEMMA DrainUnclaimed ==
  ASSUME EngineAssumption, Structure, NEW c \in Calls, NEW ts, StandIn(ts, c), NEW k \in Task,
         NEW e \in Engine, NEW x \in Excuse, Drain(ts, c, k, e, x), Held'
  PROVE  x.held /\ ~x.raced
<1>1. CASE Cleared(ts, c, k, e, x)
  BY <1>1 DEF Cleared, Held
<1>2. ASSUME NEW i, Visited(ts, c, k, e, x, i)
      PROVE  x.held /\ ~x.raced
  BY <1>2 DEF Visited, Held
<1> QED
  BY <1>1, <1>2, DrainDoes

LEMMA PausesUnclaimed ==
  ASSUME EngineAssumption, Structure, NEW c \in Calls, NEW ts, StandIn(ts, c), NEW then \in Thens,
         NEW back \in BOOLEAN, NEW x \in Excuse, Pauses(ts, c, then, back, x), Held'
  PROVE  x.held /\ ~x.raced
<1>1. PICK k \in {Pausing(then), PausingBack(then, back)} :
        \E e \in {Paused} \cup {[Paused EXCEPT !.target = n] : n \in 1 .. MaxTarget} : Drain(ts, c, k, e, x)
  BY DEF Pauses
<1>2. PICK e \in Engine : Drain(ts, c, k, e, x)
  BY <1>1, PausedEngine
<1>3. k \in Task
  BY PausingFits
<1> QED
  BY <1>2, <1>3, DrainUnclaimed

(* A pause does not end by a step of a call ...                            *)
LEMMA StepsHushed ==
  ASSUME EngineAssumption, Structure, Hushed, NEW c \in Calls, Step(c), Held'
  PROVE  Hushed'
<1>1. /\ eng.paused /\ ~eng.down /\ \A d \in Calls : Quiet(task[d])
      /\ eng \in Engine /\ (eng.timers => eng.browser) /\ user \in [Objects -> States]
  BY StructureTypes DEF Hushed
<1>2. ~Free(c) => task[c] \in Task /\ task[c].pc # "asking" /\ ~task[c].back
  BY BusyQuiet
<1>3. ASSUME Begin(c)
      PROVE  Hushed'
  <2>1. CASE eng' = Reached /\ Set(c, Idle)
    BY <1>1, <1>3, <2>1, BeginDoes, SetCall, QuietFacts, HushStays
  <2> QED
    BY <1>1, <1>3, <2>1, BeginDoes DEF Began, Held
<1>4. ASSUME Probed(c)
      PROVE  Hushed'
  <2>1. /\ ~task[c].back /\ task[c] \in Task /\ Probing(c) \in Engine /\ Probing(c).paused
        /\ ~Probing(c).down /\ (Probing(c).timers => Probing(c).browser)
    BY <1>1, <1>2, <1>4, ProbedDoes DEF At
  <2>2. CASE Throw(c, user)
    BY <2>2, ThrowHushed
  <2>3. CASE Plan(c, task[c], Probing(c))
    BY <2>1, <2>3, PlanHushed
  <2>4. CASE /\ Return(c, task[c], IF Size > 0 THEN Probing(c) ELSE GivenUp(c), user)
             /\ excuse'.held = excuse.held
             /\ excuse'.raced <=> excuse.raced \/ (excuse.held /\ Size = 0)
    <3>1. Size > 0
      BY <2>4, SizeNat DEF Held
    <3> QED
      BY <1>1, <2>1, <2>4, <3>1, ReturnHushed
  <2> QED
    BY <1>4, <2>2, <2>3, <2>4, ProbedDoes
<1>5. ASSUME OpenContext(c)
      PROVE  Hushed'
  <2> DEFINE u == task[c].user
  <2>1. At(c, "opening") /\ u \in Objects
    BY <1>5, BusyTask DEF OpenContext, At, Fits
  <2>2. [user EXCEPT ![u] = "orphan"] \in [Objects -> States]
    BY <2>1, UserMoves DEF States, Opened
  <2>3. CASE UNCHANGED <<eng, task>>
    BY <2>3 DEF Hushed
  <2> QED
    BY <1>5, <2>1, <2>2, <2>3, SpawnedHushed, ThrowHushed DEF OpenContext
<1>6. ASSUME OpenPage(c)
      PROVE  Hushed'
  <2> DEFINE u == task[c].user
  <2>1. At(c, "opening") /\ u \in Objects
    BY <1>6, BusyTask DEF OpenPage, At, Fits
  <2>2. CASE user[u] = "paging" /\ Spawned(c, [user EXCEPT ![u] = "live"])
    <3>1. [user EXCEPT ![u] = "live"] \in [Objects -> States]
      BY <2>1, <2>2, UserMoves DEF States, Opened
    <3> QED
      BY <2>1, <2>2, <3>1, SpawnedHushed
  <2> QED
    BY <1>6, <2>2, ThrowHushed DEF OpenPage
<1>7. ASSUME Awake(c)
      PROVE  Hushed'
  <2>1. /\ task[c] \in Task /\ task[c].i \in 0 .. MaxTarget /\ task[c].keys \in SUBSET Keys
        /\ ~task[c].back
    BY <1>2, <1>7 DEF Awake, At, Task
  <2>2. CASE Climb(c, task[c], eng, task[c].i, user)
    BY <1>1, <2>1, <2>2, ClimbHushed
  <2>3. CASE Descend(c, task[c], eng, task[c].keys)
    BY <1>1, <2>1, <2>3, DescendHushed
  <2> QED
    BY <1>7, <2>2, <2>3 DEF Awake
<1>8. ASSUME Stopped(c)
      PROVE  Hushed'
  <2>1. /\ task[c] \in Task /\ ~task[c].back /\ eng' = eng
        /\ task \in [Calls -> Task \cup {Idle}]
    BY <1>2, <1>8 DEF Stopped, At, Structure, EngineTypeOK
  <2>2. PICK k : k = Min(task[c].keys)
    OBVIOUS
  <2> DEFINE rest == [task[c] EXCEPT !.pc = "rest", !.keys = @ \ {k}]
             passed(d) == [task[d] EXCEPT !.keys = @ \ {k}]
  <2>3. /\ task'[c] = rest
        /\ \A d \in Calls \ {c} : task'[d] = IF At(d, "pausing") THEN passed(d) ELSE task[d]
    BY <1>8, <2>1, <2>2 DEF Stopped
  <2>4. Quiet(rest)
    BY <2>1 DEF Task, Quiet
  <2>5. ASSUME NEW d \in Calls, At(d, "pausing")
        PROVE  Quiet(passed(d))
    <3>1. task[d] \in Task /\ task[d].pc = "pausing" /\ ~task[d].back
      BY <1>1, <2>1, <2>5 DEF At, Free, Quiet
    <3> QED
      BY <3>1 DEF Task, Quiet
  <2> HIDE DEF rest, passed
  <2> QED
    BY <1>1, <2>1, <2>3, <2>4, <2>5 DEF Hushed
<1>9. ASSUME Drained(c)
      PROVE  Hushed'
  <2>1. /\ task[c] \in Task /\ task[c].pc = "pausing" /\ ~task[c].back
        /\ Drain(task, c, task[c], eng, excuse)
    BY <1>2, <1>9 DEF Drained, At
  <2> QED
    BY <1>1, <2>1, StructureTypes, ItselfStandsIn, DrainHushed
<1>10. ASSUME Pinged(c)
       PROVE  Hushed'
  <2>1. task[c] \in Task /\ ~task[c].back
    BY <1>2, <1>10 DEF Pinged, At
  <2> DEFINE new == [task[c] EXCEPT !.pc = "cms"]
  <2>2. new \in Task /\ Quiet(new)
    BY <2>1 DEF Task, Quiet
  <2>3. Set(c, new) /\ eng' = [eng EXCEPT !.reach = world.up]
    BY <1>10 DEF Pinged
  <2> HIDE DEF new
  <2>4. OnlyCall(c) /\ task'[c] = new
    BY <2>2, <2>3, SetCall
  <2>5. eng'.paused /\ ~eng'.down
    BY <1>1, <2>3 DEF Engine
  <2> QED
    BY <2>2, <2>4, <2>5, HushStays
<1>11. ASSUME Decide(c)
       PROVE  Hushed'
  <2>1. ~task[c].back /\ eng' = eng
    BY <1>1, <1>2, <1>11, DecideDoes DEF At
  <2>2. Set(c, Idle)
    BY <1>1, <1>11, <2>1, DecideDoes
  <2>3. OnlyCall(c) /\ task'[c] = Idle
    BY <2>2, SetCall
  <2> QED
    BY <1>1, <2>1, <2>3, QuietFacts, HushStays
<1>12. ~Asked(c)
  BY <1>2 DEF Asked, At
<1>13. ~Exit(c)
  BY DEF Exit, StartAgain, NoExcuse, Held
<1> QED
  BY <1>3, <1>4, <1>5, <1>6, <1>7, <1>8, <1>9, <1>10, <1>11, <1>12, <1>13 DEF Step

LEMMA ClimbUnclaimed ==
  ASSUME Structure, NEW c, NEW k, NEW e \in Engine, NEW i \in Nat, NEW us, k.to \in Nat,
         Climb(c, k, e, i, us)
  PROVE  Unclaimed
<1>1. CASE excuse' = excuse
  BY <1>1 DEF Unclaimed, Held
<1>2. ASSUME NEW u, ClimbSpawns(c, k, e, i, us, u)
      PROVE  Unclaimed
  BY <1>2, StructureTypes DEF ClimbSpawns, Excuse, Unclaimed, Held
<1> QED
  BY <1>1, <1>2, ClimbDoes DEF ClimbEnds, ClimbWaits

LEMMA ThrowUnclaimed ==
  ASSUME Structure, NEW c \in Calls, NEW us, Throw(c, us)
  PROVE  Unclaimed
BY ThrowDoes DEF Thrown, StartAgain, NoExcuse, Unclaimed, Held

LEMMA StepsUnclaimed ==
  ASSUME EngineAssumption, Structure, NEW c \in Calls, Step(c)
  PROVE  Unclaimed
<1>1. ASSUME excuse'.held = excuse.held, excuse.raced => excuse'.raced
      PROVE  Unclaimed
  BY <1>1 DEF Unclaimed, Held
<1>2. CASE excuse' = excuse
  BY <1>1, <1>2
<1>3. ASSUME NEW us, Spawned(c, us), ~Free(c)
      PROVE  Unclaimed
  <2>1. task[c].to \in Nat
    BY <1>3, BusyTask, KeysNat DEF Task
  <2>2. excuse' = excuse \/ Climb(c, task[c], eng, task[c].to, us)
    BY <1>3 DEF Spawned
  <2> QED
    BY <1>2, <2>1, <2>2, StructureTypes, ClimbUnclaimed
<1>4. ASSUME Probed(c)
      PROVE  Unclaimed
  <2>1. CASE Plan(c, task[c], Probing(c))
    <3>1. excuse' = excuse \/ Climb(c, task[c], Phased(Probing(c), "ramping_up"), Size, user)
      BY <2>1 DEF Plan, Phased
    <3>2. task[c].to \in Nat /\ Phased(Probing(c), "ramping_up") \in Engine
      BY <1>4, ProbedDoes, KeysNat, PhasedEngine DEF Task, Phases
    <3> QED
      BY <1>2, <3>1, <3>2, SizeNat, ClimbUnclaimed
  <2> QED
    BY <1>1, <1>4, <2>1, ProbedDoes, ThrowUnclaimed
<1>5. ASSUME OpenContext(c) \/ OpenPage(c)
      PROVE  Unclaimed
  BY <1>2, <1>3, <1>5, ThrowUnclaimed DEF OpenContext, OpenPage, At
<1>6. ASSUME Awake(c)
      PROVE  Unclaimed
  <2>1. task[c].to \in Nat /\ task[c].i \in Nat
    BY <1>6, BusyTask, KeysNat DEF Task, Awake, At
  <2> QED
    BY <1>2, <1>6, <2>1, StructureTypes, ClimbUnclaimed DEF Awake
<1>7. ASSUME Stopped(c)
      PROVE  Unclaimed
  BY <1>7, StructureTypes DEF Stopped, Excuse, Unclaimed, Held
<1>8. ASSUME Drained(c)
      PROVE  Unclaimed
  <2>1. task[c] \in Task /\ Drain(task, c, task[c], eng, excuse)
    BY <1>8, BusyTask DEF Drained, At
  <2> QED
    BY <2>1, StructureTypes, ItselfStandsIn, DrainUnclaimed DEF Unclaimed, Held
<1>9. ASSUME Asked(c)
      PROVE  Unclaimed
  BY <1>1, <1>9, AskedDoes DEF Declined
<1>10. ASSUME Decide(c)
       PROVE  Unclaimed
  <2>1. CASE Pauses(task, c, "probe", task[c].back, excuse)
    BY <1>10, <2>1, DecideDoes, StructureTypes, ItselfStandsIn, PausesUnclaimed DEF Thens, Unclaimed, Held
  <2> QED
    BY <1>2, <1>10, <2>1, DecideDoes
<1>11. ASSUME Begin(c)
       PROVE  Unclaimed
  BY <1>1, <1>11, BeginDoes DEF Began
<1>12. ASSUME Pinged(c)
       PROVE  Unclaimed
  BY <1>2, <1>12 DEF Pinged
<1>13. ASSUME Exit(c)
       PROVE  Unclaimed
  BY <1>13 DEF Exit, StartAgain, NoExcuse, Unclaimed, Held
<1> QED
  BY <1>4, <1>5, <1>6, <1>7, <1>8, <1>9, <1>10, <1>11, <1>12, <1>13 DEF Step

(* ... nor by a new call, unless that resumes; and it begins to hold when  *)
(* none is about to.                                                       *)
LEMMA CallsHush ==
  ASSUME EngineAssumption, Structure, PauseSound, NEW c \in Calls, Call(c), Held'
  PROVE  Hushed'
<1>1. CallForms(c)
  BY CallsHaveForms
<1>2. ASSUME Muddle(c)
      PROVE  Hushed /\ eng.paused /\ ~eng.down
  BY <1>2, MuddleExcuse DEF PauseSound, Held, Hushed
<1>3. ASSUME CallRamps(c)
      PROVE  Hushed'
  BY <1>2, <1>3 DEF CallRamps, RampTo, Alike, Hushed
<1>4. ASSUME CallDescends(c)
      PROVE  Hushed'
  <2>1. Hushed /\ eng.paused /\ ~eng.down
    BY <1>2, <1>4 DEF CallDescends
  <2>2. PICK e : Alike(e) /\ \E then \in {"stop", "exit"} : RampDown(c, e, then, 0)
    BY <1>4, <2>1 DEF CallDescends
  <2>3. e \in Engine /\ (e.timers => e.browser) /\ e.paused /\ ~e.down
    BY <2>1, <2>2, StructureTypes DEF Alike
  <2>4. PICK then \in {"stop", "exit"} : Return(c, Down(then, 0), e, user)
    BY <2>2, <2>3 DEF RampDown, Down
  <2>5. Down(then, 0) \in Task
    BY DownTask, KeysNat DEF Thens
  <2> QED
    BY <2>1, <2>3, <2>4, <2>5, StructureTypes, ReturnHushed
<1>5. ASSUME CallAsks(c)
      PROVE  FALSE
  BY <1>5 DEF CallAsks, Held
<1>6. ASSUME CallPings(c)
      PROVE  Hushed'
  <2>1. Set(c, Pinging(FALSE)) /\ eng' = eng /\ Hushed
    BY <1>2, <1>6 DEF CallPings
  <2>2. OnlyCall(c) /\ task'[c] = Pinging(FALSE)
    BY <2>1, AtTasks, SetCall
  <2> QED
    BY <1>2, <1>6, <2>1, <2>2, QuietFacts, HushStays DEF CallPings
<1>7. ASSUME CallRaises(c)
      PROVE  Hushed'
  BY <1>2, <1>7 DEF CallRaises, Alike, Hushed
<1>8. ASSUME CallDrains(c)
      PROVE  Hushed'
  <2>1. PICK ts, x : \E then \in {"none", "retarget"}, back \in BOOLEAN :
          /\ Pauses(ts, c, then, back, x) /\ (back => ~eng.paused)
          /\ StandIn(ts, c) /\ x \in Excuse
          /\ HoldKept(ts, x) \/ ~x.held \/ HoldBegun(ts, c, back, x)
    BY <1>8 DEF CallDrains
  <2>2. PICK then \in {"none", "retarget"}, back \in BOOLEAN :
          /\ Pauses(ts, c, then, back, x) /\ (back => ~eng.paused)
          /\ StandIn(ts, c) /\ x \in Excuse
          /\ HoldKept(ts, x) \/ ~x.held \/ HoldBegun(ts, c, back, x)
    BY <2>1
  <2>3. then \in Thens
    BY DEF Thens
  <2>4. x.held /\ ~x.raced
    BY <2>2, <2>3, PausesUnclaimed
  <2>5. CASE HoldKept(ts, x)
    <3>1. Hushed /\ ts = task
      BY <2>4, <2>5 DEF HoldKept, PauseSound, Held
    <3>2. back = FALSE /\ \A d \in Calls \ {c} : Quiet(ts[d])
      BY <2>2, <3>1 DEF Hushed
    <3> QED
      BY <2>2, <2>3, <3>2, PausesHushed
  <2>6. CASE HoldBegun(ts, c, back, x)
    <3>1. back = FALSE
      BY <2>2, <2>6 DEF HoldBegun
    <3>2. ASSUME NEW d \in Calls \ {c}
          PROVE  Quiet(ts[d])
      BY <2>4, <2>6 DEF HoldBegun, Quiet, Free
    <3> QED
      BY <2>2, <2>3, <3>1, <3>2, PausesHushed
  <2> QED
    BY <2>2, <2>4, <2>5, <2>6
<1> QED
  BY <1>1, <1>3, <1>4, <1>5, <1>6, <1>7, <1>8 DEF CallForms

LEMMA StepKeepsPause ==
  ASSUME EngineAssumption, Structure, PauseSound, [Next]_vars
  PROVE  PauseSound'
<1>1. CASE UNCHANGED <<eng, task, excuse>>
  BY <1>1 DEF PauseSound, Held, Hushed
<1>2. CASE UNCHANGED vars \/ Flip \/ \E u \in Objects : LoopEnds(u)
  BY <1>1, <1>2 DEF vars, Flip, LoopEnds
<1>3. ASSUME NEW c \in Calls, Step(c)
      PROVE  PauseSound'
  BY <1>3, StepsUnclaimed, StepsHushed DEF Unclaimed, PauseSound
<1>4. ASSUME NEW c \in Calls, Call(c)
      PROVE  PauseSound'
  BY <1>4, CallsHush DEF PauseSound
<1> QED
  BY <1>2, <1>3, <1>4 DEF Next

-----------------------------------------------------------------------------
(* A paused engine has no users, or stops them *)

(* Users that are left while the engine is paused are those of a ramp or a *)
(* resume that has failed, or a pause is at work on them.                  *)
Covered == excuse.kept \/ \E c \in Calls : At(c, "pausing")

PausedSound == eng.paused /\ Filled # {} => Covered

(* A call that is not a pause does what it does; it pauses only when there *)
(* are no users.                                                           *)
LEMMA CoverStays ==
  ASSUME PausedSound, NEW c \in Calls, ~At(c, "pausing"), OnlyCall(c), users' = users,
         excuse.kept => excuse'.kept, eng'.paused => eng.paused \/ Filled = {}
  PROVE  PausedSound'
<1> SUFFICES ASSUME eng'.paused, Filled' # {} PROVE Covered'
  BY DEF PausedSound
<1>1. eng.paused /\ Filled # {}
  BY DEF Filled
<1>2. CASE excuse.kept
  BY <1>2 DEF Covered
<1>3. ASSUME NEW d \in Calls, At(d, "pausing")
      PROVE  Covered'
  BY <1>3 DEF OnlyCall, Covered, At, Free
<1> QED
  BY <1>1, <1>2, <1>3 DEF PausedSound, Covered

LEMMA EmptyCovered ==
  ASSUME users' = [i \in Keys |-> NoUser]
  PROVE  PausedSound'
BY DEF PausedSound, Filled

LEMMA ReturnCovered ==
  ASSUME EngineAssumption, Structure, PausedSound, NEW c \in Calls, ~At(c, "pausing"),
         NEW k \in Task, NEW e \in Engine, e.timers => e.browser, NEW us \in [Objects -> States],
         Return(c, k, e, us), users' = users, excuse.kept => excuse'.kept,
         e.paused => eng.paused \/ Filled = {}
  PROVE  PausedSound'
BY ReturnDoes, CoverStays DEF Returned

LEMMA ClimbCovered ==
  ASSUME EngineAssumption, Structure, PausedSound, NEW c \in Calls, ~At(c, "pausing"),
         NEW k \in Task, NEW e \in Engine, e.timers => e.browser, e.paused => eng.paused,
         NEW i \in Nat, NEW us \in [Objects -> States], Climb(c, k, e, i, us)
  PROVE  PausedSound'
<1>1. k.to \in Nat
  BY KeysNat DEF Task
<1>2. CASE ClimbEnds(c, k, e, i, us)
  <2>1. /\ Phased(e, "running") \in Engine /\ Phased(e, "running").paused = e.paused
        /\ Phased(e, "running").timers => Phased(e, "running").browser
    BY PhasedEngine DEF Phases
  <2> QED
    BY <1>2, <2>1, ReturnCovered DEF ClimbEnds
<1>3. CASE ClimbWaits(c, k, e, i, us) \/ \E u \in Unused : ClimbSpawns(c, k, e, i, us, u)
  BY <1>3 DEF ClimbWaits, ClimbSpawns, PausedSound
<1> QED
  BY <1>1, <1>2, <1>3, ClimbDoes

LEMMA SpawnedCovered ==
  ASSUME EngineAssumption, Structure, PausedSound, NEW c \in Calls, At(c, "opening"),
         NEW us \in [Objects -> States], Spawned(c, us)
  PROVE  PausedSound'
<1>1. task[c] \in Task /\ task[c].to \in Nat /\ ~At(c, "pausing")
  BY BusyTask, KeysNat DEF At, Task
<1>2. CASE task[c].i + 1 < task[c].to
  <2>1. Set(c, Napping(task[c], task[c].i)) /\ UNCHANGED <<eng, users, excuse>>
    BY <1>2 DEF Spawned, Napping
  <2>2. Napping(task[c], task[c].i) \in Task
    <3>1. task[c].i \in 0 .. MaxTarget /\ task[c].i < task[c].to
      BY BusyTask DEF At, Fits, Task
    <3> QED
      BY <1>1, <3>1, ClimbTasks
  <2> QED
    BY <1>1, <2>1, <2>2, SetCall, CoverStays
<1>3. CASE ~(task[c].i + 1 < task[c].to)
  BY <1>1, <1>3, StructureTypes, ClimbCovered DEF Spawned
<1> QED
  BY <1>2, <1>3

LEMMA DescendCovered ==
  ASSUME EngineAssumption, Structure, PausedSound, NEW c \in Calls, ~At(c, "pausing"),
         NEW k \in Task, NEW e \in Engine, e.timers => e.browser, e.paused => eng.paused,
         NEW keys \in SUBSET Keys, Descend(c, k, e, keys), excuse.kept => excuse'.kept
  PROVE  PausedSound'
<1>1. user \in [Objects -> States] /\ users \in [Keys -> Objects \cup {NoUser}] /\ users' = users
  BY StructureTypes DEF Descend
<1>2. CASE keys = {}
  <2>1. PICK phase \in Phases : Return(c, k, Phased(e, phase), user)
    BY <1>2 DEF Descend, Phased, Phases
  <2>2. /\ Phased(e, phase) \in Engine /\ Phased(e, phase).paused = e.paused
        /\ Phased(e, phase).timers => Phased(e, phase).browser
    BY PhasedEngine
  <2> QED
    BY <1>1, <2>1, <2>2, ReturnCovered
<1>3. CASE keys # {}
  <2>1. PICK i : i = Min(keys)
    OBVIOUS
  <2>2. Set(c, Stopping(k, keys, users[i])) /\ eng' = e
    BY <1>3, <2>1 DEF Descend, Stopping
  <2>3. users[i] \in Objects \cup {NoUser}
    BY <1>1, <1>3, <2>1, Least, KeysNat
  <2>4. OnlyCall(c)
    BY <2>2, <2>3, StoppingTask, SetCall
  <2> QED
    BY <1>1, <2>2, <2>4, CoverStays
<1> QED
  BY <1>2, <1>3

LEMMA PlanCovered ==
  ASSUME EngineAssumption, Structure, PausedSound, NEW c \in Calls, ~At(c, "pausing"),
         NEW k \in Task, NEW e \in Engine, e.timers => e.browser, e.paused => eng.paused,
         Plan(c, k, e)
  PROVE  PausedSound'
<1>1. /\ user \in [Objects -> States] /\ Size \in Nat /\ Filled \subseteq Keys /\ k.to \in Nat
  BY SizeNat, KeysNat, StructureTypes DEF Task
<1>2. ASSUME NEW phase \in Phases
      PROVE  /\ Phased(e, phase) \in Engine /\ Phased(e, phase).paused = e.paused
             /\ Phased(e, phase).timers => Phased(e, phase).browser
  BY PhasedEngine
<1>3. CASE k.to > Size
  <2>1. Climb(c, k, Phased(e, "ramping_up"), Size, user)
    BY <1>3 DEF Plan, Phased
  <2> QED
    BY <1>1, <1>2, <2>1, ClimbCovered DEF Phases
<1>4. CASE k.to < Size
  <2> DEFINE first == {i \in Filled : Cardinality({j \in Filled : j < i}) < Size - k.to}
  <2>1. Descend(c, k, Phased(e, "ramping_down"), first) /\ first \in SUBSET Keys /\ excuse' = excuse
    BY <1>1, <1>4 DEF Plan, Phased
  <2> HIDE DEF first
  <2> QED
    BY <1>2, <2>1, DescendCovered DEF Phases
<1>5. CASE k.to = Size
  <2>1. PICK phase \in Phases : Return(c, k, Phased(e, phase), user)
    BY <1>1, <1>5 DEF Plan, Phased, Phases
  <2>2. users' = users /\ excuse' = excuse
    BY <1>1, <1>5 DEF Plan
  <2> QED
    BY <1>1, <1>2, <2>1, <2>2, ReturnCovered
<1> QED
  BY <1>1, <1>3, <1>4, <1>5

(* A ramp that throws and pauses leaves the users it has.                  *)
LEMMA ThrowCovered ==
  ASSUME Structure, PausedSound, NEW c \in Calls, ~At(c, "pausing"), NEW us, Throw(c, us)
  PROVE  PausedSound'
<1>1. CASE StartAgain(c)
  BY <1>1, EmptyCovered DEF StartAgain
<1>2. CASE Thrown(c, us) /\ Filled = {}
  BY <1>2, CoverStays DEF Thrown
<1>3. CASE Thrown(c, us) /\ Filled # {}
  BY <1>3 DEF Thrown, PausedSound, Covered
<1> QED
  BY <1>1, <1>2, <1>3, ThrowDoes

(* A pause goes on, or leaves no user.                                     *)
LEMMA DrainCovered ==
  ASSUME EngineAssumption, Structure, NEW c \in Calls, NEW ts, StandIn(ts, c), NEW k \in Task,
         k.pc = "pausing", NEW e \in Engine, NEW x \in Excuse, Drain(ts, c, k, e, x)
  PROVE  PausedSound'
<1>1. CASE Cleared(ts, c, k, e, x)
  BY <1>1, EmptyCovered DEF Cleared
<1>2. ASSUME NEW i \in Filled, Visited(ts, c, k, e, x, i)
      PROVE  PausedSound'
  <2>1. i \in Keys /\ users[i] \in Objects \cup {NoUser}
    BY SizeNat, StructureTypes
  <2>2. task'[c] \in Task /\ task'[c].pc = "pausing"
    BY <1>2, <2>1, VisitingTask DEF Visited
  <2>3. Covered'
    BY <2>2 DEF Covered, At, Free, EngineAssumption
  <2> QED
    BY <2>3 DEF PausedSound
<1> QED
  BY <1>1, <1>2, DrainDoes

LEMMA PausesCovered ==
  ASSUME EngineAssumption, Structure, NEW c \in Calls, NEW ts, StandIn(ts, c), NEW then \in Thens,
         NEW back \in BOOLEAN, NEW x \in Excuse, Pauses(ts, c, then, back, x)
  PROVE  PausedSound'
<1>1. PICK k \in {Pausing(then), PausingBack(then, back)} :
        \E e \in {Paused} \cup {[Paused EXCEPT !.target = n] : n \in 1 .. MaxTarget} : Drain(ts, c, k, e, x)
  BY DEF Pauses
<1>2. PICK e \in Engine : Drain(ts, c, k, e, x)
  BY <1>1, PausedEngine
<1>3. k \in Task /\ k.pc = "pausing"
  BY PausingFits
<1> QED
  BY <1>2, <1>3, DrainCovered

LEMMA StepsCover ==
  ASSUME EngineAssumption, Structure, PausedSound, NEW c \in Calls, Step(c)
  PROVE  PausedSound'
<1>1. /\ eng \in Engine /\ (eng.timers => eng.browser) /\ user \in [Objects -> States]
      /\ excuse \in Excuse
  BY StructureTypes
<1>2. ASSUME Begin(c)
      PROVE  PausedSound'
  <2>1. ~At(c, "pausing") /\ Began(c) /\ Reached.paused = eng.paused
    BY <1>2, BeginDoes DEF At
  <2>2. PICK new \in {Idle, Ramp(eng.target, "none")} : Set(c, new)
    BY <2>1 DEF Began
  <2>3. OnlyCall(c)
    <3>1. eng.target \in 0 .. MaxTarget
      BY StructureTypes
    <3> QED
      BY <2>2, <3>1, PlainRamp, SetCall
  <2>4. CASE eng' = Reached /\ excuse' = excuse
    BY <2>1, <2>3, <2>4, CoverStays DEF Began
  <2>5. CASE (excuse'.kept <=> excuse.kept \/ Filled # {}) /\ Filled = {}
    BY <2>1, <2>3, <2>5, CoverStays DEF Began
  <2>6. CASE (excuse'.kept <=> excuse.kept \/ Filled # {}) /\ Filled # {}
    BY <2>6 DEF PausedSound, Covered
  <2> QED
    BY <2>1, <2>4, <2>5, <2>6 DEF Began
<1>3. ASSUME Probed(c)
      PROVE  PausedSound'
  <2>1. /\ ~At(c, "pausing") /\ task[c] \in Task
        /\ Probing(c) \in Engine /\ Probing(c).browser /\ Probing(c).paused = eng.paused
        /\ GivenUp(c) \in Engine /\ GivenUp(c).browser
    BY <1>3, ProbedDoes DEF At
  <2>2. CASE Throw(c, user)
    BY <2>1, <2>2, ThrowCovered
  <2>3. CASE Plan(c, task[c], Probing(c))
    BY <2>1, <2>3, PlanCovered
  <2>4. ASSUME NEW g \in Engine, g = IF Size > 0 THEN Probing(c) ELSE GivenUp(c),
               Return(c, task[c], g, user), users' = users, excuse'.kept = excuse.kept
        PROVE  PausedSound'
    <3>1. g.browser /\ (g.paused => eng.paused \/ Filled = {})
      BY <2>1, <2>4, SizeNat
    <3> QED
      BY <1>1, <2>1, <2>4, <3>1, ReturnCovered
  <2> QED
    BY <1>3, <2>1, <2>2, <2>3, <2>4, ProbedDoes
<1>4. ASSUME OpenContext(c)
      PROVE  PausedSound'
  <2> DEFINE u == task[c].user
  <2>1. At(c, "opening") /\ ~At(c, "pausing") /\ u \in Objects
    BY <1>4, BusyTask DEF OpenContext, At, Fits
  <2>2. [user EXCEPT ![u] = "orphan"] \in [Objects -> States]
    BY <2>1, UserMoves DEF States, Opened
  <2>3. CASE UNCHANGED <<eng, users, task, excuse>>
    BY <2>3 DEF PausedSound, Covered, Filled, At, Free
  <2> QED
    BY <1>4, <2>1, <2>2, <2>3, SpawnedCovered, ThrowCovered DEF OpenContext
<1>5. ASSUME OpenPage(c)
      PROVE  PausedSound'
  <2> DEFINE u == task[c].user
  <2>1. At(c, "opening") /\ ~At(c, "pausing") /\ u \in Objects
    BY <1>5, BusyTask DEF OpenPage, At, Fits
  <2>2. CASE user[u] = "paging" /\ Spawned(c, [user EXCEPT ![u] = "live"])
    <3>1. [user EXCEPT ![u] = "live"] \in [Objects -> States]
      BY <2>1, <2>2, UserMoves DEF States, Opened
    <3> QED
      BY <2>1, <2>2, <3>1, SpawnedCovered
  <2> QED
    BY <1>5, <2>1, <2>2, ThrowCovered DEF OpenPage
<1>6. ASSUME Awake(c)
      PROVE  PausedSound'
  <2>1. /\ task[c] \in Task /\ task[c].i \in Nat /\ task[c].keys \in SUBSET Keys /\ ~At(c, "pausing")
    BY <1>6, BusyTask, KeysNat DEF Awake, At, Task
  <2>2. CASE Climb(c, task[c], eng, task[c].i, user)
    BY <1>1, <2>1, <2>2, ClimbCovered
  <2>3. CASE Descend(c, task[c], eng, task[c].keys) /\ excuse' = excuse
    BY <1>1, <2>1, <2>3, DescendCovered
  <2> QED
    BY <1>6, <2>2, <2>3 DEF Awake
<1>7. ASSUME Stopped(c)
      PROVE  PausedSound'
  <2>1. /\ eng' = eng /\ task \in [Calls -> Task \cup {Idle}] /\ task[c].pc = "stopping"
        /\ users \in [Keys -> Objects \cup {NoUser}]
    BY <1>7, StructureTypes DEF Stopped, At, Structure, EngineTypeOK
  <2>2. PICK k : k = Min(task[c].keys)
    OBVIOUS
  <2> DEFINE passed(d) == [task[d] EXCEPT !.keys = @ \ {k}]
  <2>3. /\ \A d \in Calls \ {c} : task'[d] = IF At(d, "pausing") THEN passed(d) ELSE task[d]
        /\ users' = IF task[c].user = NoUser THEN users ELSE [users EXCEPT ![k] = NoUser]
    BY <1>7, <2>1, <2>2 DEF Stopped
  <2>4. ASSUME NEW d \in Calls, At(d, "pausing")
        PROVE  At(d, "pausing")'
    <3>1. d # c /\ task[d] \in Task /\ task[d].pc = "pausing"
      BY <2>1, <2>4 DEF At, Free
    <3>2. passed(d) \in Task /\ passed(d).pc = "pausing"
      BY <3>1 DEF Task
    <3>3. task'[d] = passed(d)
      BY <2>3, <2>4, <3>1
    <3> HIDE DEF passed
    <3> QED
      BY <3>2, <3>3 DEF At, Free, EngineAssumption
  <2>5. Filled' # {} => Filled # {}
    BY <2>1, <2>3 DEF Filled
  <2>6. excuse'.kept = excuse.kept
    BY <1>1, <1>7 DEF Stopped, Excuse
  <2> QED
    BY <2>1, <2>4, <2>5, <2>6 DEF PausedSound, Covered
<1>8. ASSUME Drained(c)
      PROVE  PausedSound'
  <2>1. task[c] \in Task /\ task[c].pc = "pausing" /\ Drain(task, c, task[c], eng, excuse)
    BY <1>8, BusyTask DEF Drained, At
  <2> QED
    BY <1>1, <2>1, ItselfStandsIn, DrainCovered
<1>9. ASSUME Asked(c)
      PROVE  PausedSound'
  <2>1. At(c, "asking") /\ ~At(c, "pausing") /\ ~Resumed.paused
    BY <1>9, AskedDoes DEF At
  <2>2. CASE RampTo(c, Resumed, eng.target, "resume")
    BY <2>1, <2>2 DEF RampTo, PausedSound
  <2>3. CASE Declined(c) /\ Filled = {}
    <3>1. OnlyCall(c)
      BY <2>3, SetCall DEF Declined
    <3> QED
      BY <2>1, <2>3, <3>1, CoverStays DEF Declined
  <2>4. CASE Declined(c) /\ Filled # {}
    BY <2>4 DEF Declined, PausedSound, Covered
  <2> QED
    BY <1>9, <2>2, <2>3, <2>4, AskedDoes
<1>10. ASSUME Pinged(c)
       PROVE  PausedSound'
  <2>1. task[c] \in Task /\ ~At(c, "pausing")
    BY <1>10, BusyTask DEF Pinged, At
  <2> DEFINE new == [task[c] EXCEPT !.pc = "cms"]
  <2>2. new \in Task
    BY <2>1 DEF Task
  <2>3. /\ Set(c, new) /\ eng' = [eng EXCEPT !.reach = world.up] /\ users' = users
        /\ excuse' = excuse
    BY <1>10 DEF Pinged
  <2> HIDE DEF new
  <2>4. OnlyCall(c) /\ eng'.paused = eng.paused
    BY <1>1, <2>2, <2>3, SetCall DEF Engine
  <2> QED
    BY <2>1, <2>3, <2>4, CoverStays
<1>11. ASSUME Decide(c)
       PROVE  PausedSound'
  <2>1. ~At(c, "pausing") /\ task[c].back \in BOOLEAN
    BY <1>11, DecideDoes DEF At
  <2>2. CASE Pauses(task, c, "probe", task[c].back, excuse)
    BY <1>1, <2>1, <2>2, ItselfStandsIn, PausesCovered DEF Thens
  <2>3. ASSUME NEW new \in Task \cup {Idle}, Set(c, new), UNCHANGED <<eng, users, user, excuse>>
        PROVE  PausedSound'
    BY <2>1, <2>3, SetCall, CoverStays
  <2> QED
    BY <1>11, <2>2, <2>3, DecideDoes
<1>12. ASSUME Exit(c)
       PROVE  PausedSound'
  BY <1>12, EmptyCovered DEF Exit, StartAgain
<1> QED
  BY <1>2, <1>3, <1>4, <1>5, <1>6, <1>7, <1>8, <1>9, <1>10, <1>11, <1>12 DEF Step

LEMMA CallsCover ==
  ASSUME EngineAssumption, Structure, PausedSound, NEW c \in Calls, Call(c)
  PROVE  PausedSound'
<1>1. CallForms(c) /\ ~At(c, "pausing")
  BY CallsHaveForms DEF At
<1>2. ASSUME Muddle(c)
      PROVE  excuse'.kept = excuse.kept
  BY <1>2, MuddleExcuse
<1>3. ASSUME NEW new \in Task \cup {Idle}, Set(c, new), users' = users, excuse'.kept = excuse.kept,
             eng'.paused = eng.paused
      PROVE  PausedSound'
  BY <1>1, <1>3, SetCall, CoverStays
<1>4. ASSUME task' = task, users' = users, excuse'.kept = excuse.kept, eng'.paused = eng.paused
      PROVE  PausedSound'
  BY <1>4 DEF PausedSound, Covered, Filled, At, Free
<1>5. ASSUME CallRamps(c)
      PROVE  PausedSound'
  <2>1. PICK then \in {"none", "scenario"} :
          \E e : Alike(e) /\ RampTo(c, e, e.target, then) /\ Muddle(c)
    BY <1>5 DEF CallRamps
  <2>2. PICK e : Alike(e) /\ RampTo(c, e, e.target, then) /\ Muddle(c)
    BY <2>1
  <2>3. e.target \in 0 .. MaxTarget /\ eng' = e /\ e.paused = eng.paused /\ users' = users
    BY <2>2, KeysNat DEF Alike, Engine, RampTo
  <2>4. CASE task' = task
    BY <1>2, <1>4, <2>2, <2>3, <2>4
  <2>5. CASE Set(c, Ramp(e.target, then))
    <3>1. Ramp(e.target, then) \in Task
      BY <2>3, RampTask DEF Thens
    <3> QED
      BY <1>2, <1>3, <2>2, <2>3, <2>5, <3>1
  <2> QED
    BY <2>2, <2>4, <2>5 DEF RampTo, Ramp
<1>6. ASSUME CallDescends(c)
      PROVE  PausedSound'
  <2>1. PICK e : /\ Alike(e) /\ Muddle(c)
                 /\ \E then \in Thens : \E goal \in {0, e.target} : RampDown(c, e, then, goal)
    BY <1>6 DEF CallDescends, Thens
  <2>2. PICK then \in Thens, goal \in {0, e.target} : RampDown(c, e, then, goal)
    BY <2>1
  <2>3. /\ e \in Engine /\ (e.timers => e.browser) /\ e.paused = eng.paused
        /\ goal \in 0 .. MaxTarget /\ user \in [Objects -> States] /\ Filled \subseteq Keys
    BY <2>1, StructureTypes, KeysNat, SizeNat DEF Alike, Engine
  <2>4. Down(then, goal) \in Task
    BY <2>3, DownTask
  <2>5. CASE e.paused
    BY <1>1, <1>2, <2>1, <2>2, <2>3, <2>4, <2>5, ReturnCovered DEF RampDown, Down
  <2>6. CASE ~e.paused /\ e.browser
    <3>1. PICK phase \in Phases : Descend(c, Down(then, goal), Phased(e, phase), Filled)
      BY <2>2, <2>6 DEF RampDown, Down, Phased, Phases
    <3>2. /\ Phased(e, phase) \in Engine /\ Phased(e, phase).paused = e.paused
          /\ Phased(e, phase).timers => Phased(e, phase).browser
      BY <2>3, PhasedEngine
    <3> QED
      BY <1>1, <1>2, <2>1, <2>3, <2>4, <3>1, <3>2, DescendCovered
  <2>7. CASE ~e.paused /\ ~e.browser
    BY <1>2, <1>3, <2>1, <2>2, <2>3, <2>4, <2>7 DEF RampDown, Down
  <2> QED
    BY <2>3, <2>5, <2>6, <2>7 DEF Engine
<1>7. ASSUME CallAsks(c) \/ CallPings(c)
      PROVE  PausedSound'
  <2>1. PICK new \in {Asking("none"), Pinging(FALSE)} : Set(c, new)
    BY <1>7 DEF CallAsks, CallPings
  <2>2. new \in Task
    BY <2>1, AtTasks DEF Thens
  <2> QED
    BY <1>2, <1>3, <1>7, <2>1, <2>2 DEF CallAsks, CallPings, Alike
<1>8. ASSUME CallRaises(c)
      PROVE  PausedSound'
  BY <1>2, <1>4, <1>8 DEF CallRaises, Alike
<1>9. ASSUME CallDrains(c)
      PROVE  PausedSound'
  <2>1. PICK ts, x : \E then \in {"none", "retarget"}, back \in BOOLEAN :
          Pauses(ts, c, then, back, x) /\ StandIn(ts, c) /\ x \in Excuse
    BY <1>9 DEF CallDrains
  <2> QED
    BY <2>1, PausesCovered DEF Thens
<1> QED
  BY <1>1, <1>5, <1>6, <1>7, <1>8, <1>9 DEF CallForms

LEMMA StepCovers ==
  ASSUME EngineAssumption, Structure, PausedSound, [Next]_vars
  PROVE  PausedSound'
<1>1. CASE UNCHANGED <<eng, users, task, excuse>>
  BY <1>1 DEF PausedSound, Covered, Filled, At, Free
<1> QED
  BY <1>1, StepsCover, CallsCover DEF Next, Flip, LoopEnds, vars

-----------------------------------------------------------------------------
(* An engine on which calls have not overlapped *)

FilledIn(m) == {k \in Keys : m[k] # NoUser}

LiveIn(m, us, but) == \A k \in FilledIn(m) \ but : us[m[k]] = "live"

(* At rest: paused without users, or at the target.                        *)
BaseIn(e, m, us) ==
  IF e.paused THEN FilledIn(m) = {}
  ELSE /\ e.phase = "running" /\ Cardinality(FilledIn(m)) = e.target
       /\ LiveIn(m, us, {}) /\ ~e.ramping

(* A ramp that is bound for the target, or for no users on its way there.  *)
BoundIn(t, e) ==
  /\ ~e.paused
  /\ \/ t.then \in {"none", "scenario"} /\ t.to = e.target /\ ~e.ramping
     \/ t.then \in {"resume", "rumup"} /\ t.to = e.target
     \/ t.then = "rumdown" /\ t.to = 0 /\ t.i = e.target
     \/ t.then \in {"stop", "exit"} /\ t.to = 0

(* What a call that is alone keeps at its awaits: how far its ramp is.     *)
AloneIn(t, e, m, us) ==
  /\ t.pc \in {"ping", "cms", "asking"} => BaseIn(e, m, us)
  /\ t.pc = "begin" => FilledIn(m) = {} /\ ~e.ramping
  /\ t.pc = "probing" => BoundIn(t, e) /\ LiveIn(m, us, {})
  /\ t.pc = "nap" =>
       /\ BoundIn(t, e) /\ LiveIn(m, us, {})
       /\ t.i < t.to /\ Cardinality(FilledIn(m)) = t.i
  /\ t.pc = "opening" =>
       /\ BoundIn(t, e) /\ LiveIn(m, us, {t.i})
       /\ Cardinality(FilledIn(m)) = t.i + 1 /\ t.i \in Keys
       /\ m[t.i] = t.user /\ us[t.user] \in {"opening", "paging"}
  /\ t.pc = "rest" =>
       /\ BoundIn(t, e) /\ LiveIn(m, us, {})
       /\ t.keys \subseteq FilledIn(m)
       /\ Cardinality(FilledIn(m)) = Cardinality(t.keys) + t.to
  /\ t.pc = "stopping" =>
       /\ BoundIn(t, e) /\ LiveIn(m, us, {Min(t.keys)})
       /\ t.keys \subseteq FilledIn(m)
       /\ Cardinality(FilledIn(m)) = Cardinality(t.keys) + t.to
       /\ m[Min(t.keys)] = t.user

SoundIn(t, e, m, us) == IF t = Idle THEN BaseIn(e, m, us) ELSE AloneIn(t, e, m, us)

Solo(c) == \A d \in Calls \ {c} : Free(d)

Clean == ~excuse.muddled /\ eng.timers

(* While no calls overlap, the engine is at rest or one call is on its way *)
(* there.                                                                  *)
RestSound ==
  Clean => \E c \in Calls : Solo(c) /\ SoundIn(task[c], eng, users, user)

(* The first n of the indices in use are n.                                *)
Rank(F, i) == Cardinality({j \in F : j < i})
FirstOf(F, n) == {i \in F : Rank(F, i) < n}

LEMMA RankGrows ==
  ASSUME NEW F \in SUBSET Nat, IsFiniteSet(F), NEW i \in F, NEW j \in F, i < j
  PROVE  Rank(F, i) \in Nat /\ Rank(F, j) \in Nat /\ Rank(F, i) < Rank(F, j)
<1> DEFINE A == {l \in F : l < i}
           B == {l \in F : l < j}
<1>1. IsFiniteSet(B) /\ A \in SUBSET B /\ i \in B /\ i \notin A
  <2>1. B \in SUBSET F /\ i \in B /\ i \notin A
    OBVIOUS
  <2>2. ASSUME NEW l \in F, l < i
        PROVE  l < j
    BY <2>2
  <2>3. A \in SUBSET B
    BY <2>2
  <2> HIDE DEF A, B
  <2> QED
    BY <2>1, <2>3, FS_Subset
<1>2. /\ Cardinality(A) \in Nat /\ Cardinality(B) \in Nat
      /\ Cardinality(A) <= Cardinality(B) /\ (Cardinality(A) = Cardinality(B) => A = B)
  <2> HIDE DEF A, B
  <2>1. IsFiniteSet(A)
    BY <1>1, FS_Subset
  <2> QED
    BY <1>1, <2>1, FS_Subset, FS_CardinalityType
<1>3. Cardinality(A) < Cardinality(B)
  <2> HIDE DEF A, B
  <2> QED
    BY <1>1, <1>2
<1> QED
  BY <1>2, <1>3 DEF Rank

(* The index that follows the first n.                                     *)
LEMMA NextIndex ==
  ASSUME NEW F \in SUBSET Nat, IsFiniteSet(F), NEW n \in Nat, n < Cardinality(F),
         Cardinality(FirstOf(F, n)) = n
  PROVE  Cardinality(FirstOf(F, n + 1)) = n + 1
<1> DEFINE A == FirstOf(F, n)
           i == Min(F \ A)
<1>1. A \in SUBSET F /\ IsFiniteSet(A) /\ Cardinality(F) \in Nat
  BY FS_Subset, FS_CardinalityType DEF FirstOf
<1>2. F \ A # {}
  <2>1. A # F
    BY <1>1
  <2> QED
    BY <1>1, <2>1
<1>3. i \in F \ A /\ \A j \in F \ A : i <= j
  <2> HIDE DEF A
  <2> QED
    BY <1>2, Least
<1> HIDE DEF i
<1>4. \A j \in F : Rank(F, j) \in Nat
  <2> SUFFICES ASSUME NEW j \in F PROVE Rank(F, j) \in Nat
    OBVIOUS
  <2>1. IsFiniteSet({l \in F : l < j})
    BY FS_Subset
  <2> QED
    BY <2>1, FS_CardinalityType DEF Rank
<1>5. {j \in F : j < i} = A
  <2>1. ASSUME NEW j \in F, j < i
        PROVE  j \in A
    BY <1>3, <2>1
  <2>2. ASSUME NEW j \in A
        PROVE  j < i
    <3>1. j \in F /\ Rank(F, j) < n
      BY DEF FirstOf
    <3>2. ~(Rank(F, i) < n)
      BY <1>3 DEF FirstOf
    <3>3. ~(i < j)
      BY <1>3, <1>4, <3>1, <3>2, RankGrows
    <3>4. i # j
      BY <1>3
    <3> QED
      BY <1>3, <3>1, <3>3, <3>4
  <2> QED
    BY <1>1, <2>1, <2>2
<1>6. Rank(F, i) = n
  BY <1>5 DEF Rank
<1>7. FirstOf(F, n + 1) = A \cup {i}
  <2>1. ASSUME NEW j \in FirstOf(F, n + 1), j \notin A
        PROVE  j = i
    <3>1. j \in F /\ Rank(F, j) <= n
      BY <1>4, <2>1 DEF FirstOf
    <3>2. i <= j
      BY <1>3, <2>1, <3>1
    <3> QED
      BY <1>3, <1>4, <1>6, <3>1, <3>2, RankGrows
  <2>2. i \in FirstOf(F, n + 1)
    BY <1>3, <1>6 DEF FirstOf
  <2>3. A \subseteq FirstOf(F, n + 1)
    BY <1>4 DEF FirstOf
  <2> QED
    BY <2>1, <2>2, <2>3
<1> QED
  <2> HIDE DEF A
  <2>1. Cardinality(A) = n
    BY DEF A
  <2> QED
    BY <1>1, <1>3, <1>7, <2>1, FS_AddElement

LEMMA FirstAreMany ==
  ASSUME NEW F \in SUBSET Nat, IsFiniteSet(F), NEW n \in Nat, n <= Cardinality(F)
  PROVE  Cardinality(FirstOf(F, n)) = n
<1> DEFINE Wrong == {m \in Nat : m <= Cardinality(F) /\ Cardinality(FirstOf(F, m)) # m}
<1>1. CASE Wrong = {}
  BY <1>1
<1>2. CASE Wrong # {}
  <2>1. PICK m \in Wrong : \A j \in Wrong : m <= j
    <3>1. Wrong \in SUBSET Nat
      OBVIOUS
    <3> HIDE DEF Wrong
    <3> QED
      BY <1>2, <3>1, Least
  <2>2. FirstOf(F, 0) = {}
    <3> SUFFICES ASSUME NEW j \in F PROVE ~(Rank(F, j) < 0)
      BY DEF FirstOf
    <3>1. IsFiniteSet({l \in F : l < j})
      BY FS_Subset
    <3>2. Rank(F, j) \in Nat
      BY <3>1, FS_CardinalityType DEF Rank
    <3> QED
      BY <3>2
  <2>3. m # 0
    BY <2>1, <2>2, FS_EmptySet
  <2>4. m - 1 \in Nat /\ m - 1 < Cardinality(F) /\ m - 1 \notin Wrong /\ Cardinality(F) \in Nat
    BY <2>1, <2>3, FS_CardinalityType
  <2>5. Cardinality(FirstOf(F, m - 1)) = m - 1
    BY <2>4
  <2>6. Cardinality(FirstOf(F, (m - 1) + 1)) = (m - 1) + 1
    BY <2>4, <2>5, NextIndex
  <2> QED
    BY <2>1, <2>3, <2>6
<1> QED
  BY <1>1, <1>2

LEMMA FilledFacts ==
  ASSUME EngineAssumption
  PROVE  /\ FilledIn(users) = Filled /\ Size = Cardinality(Filled)
         /\ \A m : /\ FilledIn(m) \subseteq Keys /\ IsFiniteSet(FilledIn(m))
                   /\ Cardinality(FilledIn(m)) \in Nat
                   /\ Cardinality(FilledIn(m)) = 0 <=> FilledIn(m) = {}
<1>1. ASSUME NEW m
      PROVE  FilledIn(m) \subseteq Keys /\ IsFiniteSet(FilledIn(m))
  <2>1. FilledIn(m) \subseteq Keys
    BY DEF FilledIn
  <2> QED
    BY <2>1, KeysNat, FS_Subset
<1> QED
  BY <1>1, FS_CardinalityType, FS_EmptySet DEF FilledIn, Filled, Size

OthersStay(c) == \A d \in Calls \ {c} : task'[d] = task[d]

(* The call c, which is alone, leaves the engine sound.                    *)
Lands(c) == eng'.timers => SoundIn(task'[c], eng', users', user')

LEMMA SetStays ==
  ASSUME Structure, NEW c, NEW new, Set(c, new)
  PROVE  OthersStay(c)
<1>1. task \in [Calls -> Task \cup {Idle}]
  BY DEF Structure, EngineTypeOK
<1> QED
  BY <1>1 DEF Set, OthersStay

LEMMA SoloRests ==
  ASSUME NEW c \in Calls, OthersStay(c), Solo(c), Lands(c)
  PROVE  RestSound'
<1> SUFFICES ASSUME Clean' PROVE Solo(c)' /\ SoundIn(task'[c], eng', users', user')
  BY DEF RestSound
<1> QED
  BY DEF Clean, Lands, Solo, OthersStay, Free

LEMMA BusyIsSolo ==
  ASSUME RestSound, Clean, NEW c \in Calls, ~Free(c)
  PROVE  Solo(c) /\ AloneIn(task[c], eng, users, user)
<1>1. PICK d \in Calls : Solo(d) /\ SoundIn(task[d], eng, users, user)
  BY DEF RestSound
<1>2. c = d
  BY <1>1 DEF Solo
<1> QED
  BY <1>1, <1>2 DEF SoundIn, Free

LEMMA RestIsBase ==
  ASSUME RestSound, Clean, NEW c \in Calls, Free(c), Solo(c)
  PROVE  BaseIn(eng, users, user)
<1>1. PICK d \in Calls : SoundIn(task[d], eng, users, user)
  BY DEF RestSound
<1>2. task[d] = Idle
  BY DEF Solo, Free
<1> QED
  BY <1>1, <1>2 DEF SoundIn

LEMMA ReturnStays ==
  ASSUME EngineAssumption, Structure, NEW c \in Calls, NEW k \in Task, NEW e \in Engine,
         e.timers => e.browser, NEW us \in [Objects -> States], Return(c, k, e, us)
  PROVE  OthersStay(c) /\ (eng'.timers => e.timers)
BY ReturnDoes DEF Returned, OnlyCall, OthersStay

LEMMA BoundTargets ==
  ASSUME NEW k, NEW e \in Engine, BoundIn(k, e)
  PROVE  /\ e.target \in Nat /\ e.target >= 1 /\ k.to \in Nat /\ ~e.paused
         /\ k.to > 0 => k.then \in {"none", "scenario", "resume", "rumup"} /\ k.to = e.target
BY DEF BoundIn, Engine

(* A ramp that ends where it is bound.                                     *)
LEMMA ReturnLands ==
  ASSUME EngineAssumption, Structure, NEW c \in Calls, NEW k \in Task, NEW e \in Engine,
         e.timers => e.browser, NEW us \in [Objects -> States], Return(c, k, e, us), users' = users,
         BoundIn(k, e), LiveIn(users, us, {}), Size = k.to, k.to > 0 => e.phase = "running"
  PROVE  Lands(c)
<1> SUFFICES ASSUME eng'.timers PROVE SoundIn(task'[c], eng', users', user')
  BY DEF Lands
<1>0. Returned(c, k, e, us)
  BY ReturnDoes
<1>1. ~e.paused /\ k.then \notin {"stop", "exit"}
  BY <1>0, BoundTargets DEF Returned
<1>2. user' = us /\ eng'.target = e.target
  BY <1>0, <1>1 DEF Returned
<1>3. CASE k.then = "rumdown"
  <2>1. task'[c] = RumUp(k) /\ eng' = e
    BY <1>0, <1>1, <1>3 DEF Returned
  <2>2. RumUp(k) \in Task /\ RumUp(k).pc = "probing" /\ RumUp(k).then = "rumup" /\ RumUp(k).to = k.i
    BY RumUpTask
  <2>3. BoundIn(RumUp(k), e)
    BY <1>3, <2>2 DEF BoundIn
  <2>4. AloneIn(RumUp(k), e, users', user')
    BY <1>1, <1>2, <2>2, <2>3 DEF AloneIn
  <2>5. RumUp(k) # Idle
    BY <2>2 DEF EngineAssumption
  <2> QED
    BY <2>1, <2>4, <2>5 DEF SoundIn
<1>4. CASE k.then \in {"none", "scenario", "resume", "rumup"}
  <2>1. k.to = e.target /\ k.to >= 1 /\ k.to > 0
    BY <1>4, BoundTargets DEF BoundIn
  <2>2. Filled # {} /\ Cardinality(FilledIn(users')) = k.to
    BY <2>1, FilledFacts, SizeNat
  <2>3. task'[c] = Idle
    BY <1>0, <1>4 DEF Returned
  <2>4. CASE k.then = "resume"
    <3>1. ~eng'.paused /\ eng'.phase = "running" /\ ~eng'.ramping
      BY <1>0, <1>1, <2>2, <2>4 DEF Returned
    <3> QED
      BY <1>2, <2>1, <2>2, <2>3, <3>1 DEF SoundIn, BaseIn
  <2>5. CASE k.then \in {"none", "scenario", "rumup"}
    <3>1. eng'.paused = e.paused /\ eng'.phase = "running"
      BY <1>0, <2>1, <2>5 DEF Returned
    <3>2. e.paused \in BOOLEAN
      BY DEF Engine
    <3>3. ~eng'.paused
      BY <1>1, <3>1, <3>2
    <3>4. ~eng'.ramping
      BY <1>0, <2>5 DEF Returned, BoundIn
    <3> QED
      BY <1>2, <2>1, <2>2, <2>3, <3>1, <3>3, <3>4 DEF SoundIn, BaseIn
  <2> QED
    BY <1>4, <2>4, <2>5
<1> QED
  BY <1>1, <1>3, <1>4 DEF BoundIn

LEMMA ClimbStays ==
  ASSUME EngineAssumption, Structure, NEW c \in Calls, NEW k \in Task, NEW e \in Engine,
         e.timers => e.browser, NEW i \in Nat, NEW us \in [Objects -> States], Climb(c, k, e, i, us)
  PROVE  /\ OthersStay(c) /\ (eng'.timers => e.timers)
         /\ ~excuse'.muddled => ~excuse.muddled
<1>1. k.to \in Nat
  BY KeysNat DEF Task
<1>2. CASE ClimbEnds(c, k, e, i, us)
  <2>1. /\ Phased(e, "running") \in Engine /\ Phased(e, "running").timers = e.timers
        /\ Phased(e, "running").browser = e.browser
    BY PhasedEngine DEF Phases
  <2> QED
    BY <1>2, <2>1, ReturnStays DEF ClimbEnds
<1>3. CASE ClimbWaits(c, k, e, i, us)
  BY <1>3, SetStays DEF ClimbWaits
<1>4. ASSUME NEW u, ClimbSpawns(c, k, e, i, us, u)
      PROVE  /\ OthersStay(c) /\ (eng'.timers => e.timers)
             /\ ~excuse'.muddled => ~excuse.muddled
  BY <1>4, SetStays, StructureTypes DEF ClimbSpawns, Excuse
<1> QED
  BY <1>1, <1>2, <1>3, <1>4, ClimbDoes

(* A climb that is alone: it spawns the next user, or has got there.       *)
LEMMA ClimbLands ==
  ASSUME EngineAssumption, Structure, NEW c \in Calls, NEW k \in Task, NEW e \in Engine, e.browser,
         NEW i \in 0 .. MaxTarget, NEW us \in [Objects -> States], Climb(c, k, e, i, us),
         us = user \/ i >= k.to, BoundIn(k, e), LiveIn(users, us, {}), Size = i, i <= k.to,
         ~excuse'.muddled
  PROVE  Lands(c)
<1>1. i \in Nat /\ k.to \in Nat /\ ~e.paused
  BY BoundTargets, KeysNat
<1>2. CASE ClimbEnds(c, k, e, i, us)
  <2> DEFINE f == Phased(e, "running")
  <2>1. /\ f \in Engine /\ f.phase = "running" /\ f.browser /\ f.paused = e.paused
        /\ f.target = e.target /\ f.ramping = e.ramping
    BY PhasedEngine DEF Phases
  <2>2. Return(c, k, f, us) /\ users' = users /\ i = k.to
    BY <1>1, <1>2 DEF ClimbEnds
  <2> HIDE DEF f
  <2>3. BoundIn(k, f)
    BY <2>1 DEF BoundIn
  <2> QED
    BY <2>1, <2>2, <2>3, ReturnLands
<1>3. CASE ClimbWaits(c, k, e, i, us)
  BY <1>3 DEF ClimbWaits
<1>4. ASSUME NEW u \in Unused, ClimbSpawns(c, k, e, i, us, u)
      PROVE  Lands(c)
  <2>0. i < k.to /\ us = user
    BY <1>1, <1>4 DEF ClimbSpawns
  <2>1. /\ i < k.to /\ us = user /\ user' = [user EXCEPT ![u] = "opening"]
        /\ users' = [users EXCEPT ![i] = u] /\ Set(c, Opening(k, i, u)) /\ eng' = e
    BY <1>4, <2>0 DEF ClimbSpawns
  <2>2. users[i] = NoUser
    BY <1>4, StructureTypes DEF ClimbSpawns, Excuse
  <2>3. /\ u \in Objects /\ u \notin Range(users) /\ u # NoUser /\ i \in Keys
        /\ users \in [Keys -> Objects \cup {NoUser}]
    BY <2>1, ClimbTasks, StructureTypes DEF Unused, EngineAssumption
  <2>4. FilledIn(users') = Filled \cup {i} /\ i \notin Filled
    BY <2>1, <2>2, <2>3 DEF FilledIn, Filled
  <2>5. Cardinality(FilledIn(users')) = i + 1
    <3>1. IsFiniteSet(Filled) /\ Cardinality(Filled) = i
      BY FilledFacts, SizeNat
    <3>2. Cardinality(Filled \cup {i}) = i + 1
      BY <2>4, <3>1, FS_AddElement
    <3> QED
      BY <2>4, <3>2
  <2>6. LiveIn(users', user', {i})
    <3> SUFFICES ASSUME NEW j \in Filled PROVE user'[users'[j]] = "live"
      BY <2>4 DEF LiveIn
    <3>1. users'[j] = users[j] /\ users[j] # u /\ users[j] \in Objects /\ user[users[j]] = "live"
      BY <2>1, <2>2, <2>3, FilledFacts DEF Filled, LiveIn, Range
    <3> QED
      BY <2>1, <3>1
  <2>7. /\ Opening(k, i, u) \in Task /\ Opening(k, i, u).pc = "opening"
        /\ Opening(k, i, u).i = i /\ Opening(k, i, u).user = u
        /\ Opening(k, i, u).then = k.then /\ Opening(k, i, u).to = k.to
    BY <2>1, <2>3, ClimbTasks
  <2>8. BoundIn(Opening(k, i, u), e)
    BY <1>1, <2>1, <2>7, BoundTargets DEF BoundIn
  <2>9. users'[i] = u /\ user'[u] = "opening"
    BY <2>1, <2>3, StructureTypes
  <2>10. AloneIn(Opening(k, i, u), eng', users', user')
    BY <2>1, <2>3, <2>5, <2>6, <2>7, <2>8, <2>9 DEF AloneIn
  <2>11. task'[c] = Opening(k, i, u) /\ Opening(k, i, u) # Idle
    BY <2>1, <2>7, SetCall DEF EngineAssumption
  <2> QED
    BY <2>10, <2>11 DEF Lands, SoundIn
<1> QED
  BY <1>1, <1>2, <1>3, <1>4, ClimbDoes

LEMMA SpawnedStays ==
  ASSUME EngineAssumption, Structure, NEW c \in Calls, At(c, "opening"),
         NEW us \in [Objects -> States], Spawned(c, us)
  PROVE  /\ OthersStay(c) /\ (eng'.timers => eng.timers)
         /\ ~excuse'.muddled => ~excuse.muddled
<1>1. task[c] \in Task /\ task[c].to \in Nat
  BY BusyTask, KeysNat DEF At, Task
<1>2. CASE task[c].i + 1 < task[c].to
  BY <1>2, SetStays DEF Spawned
<1>3. CASE ~(task[c].i + 1 < task[c].to)
  BY <1>1, <1>3, StructureTypes, ClimbStays DEF Spawned
<1> QED
  BY <1>2, <1>3

LEMMA SpawnedLands ==
  ASSUME EngineAssumption, Structure, NEW c \in Calls, At(c, "opening"), eng.browser,
         NEW us \in [Objects -> States], Spawned(c, us), BoundIn(task[c], eng),
         LiveIn(users, us, {}), Size = task[c].i + 1, ~excuse'.muddled
  PROVE  Lands(c)
<1> DEFINE k == task[c]
<1>1. k \in Task /\ k.i < k.to
  BY BusyTask DEF At, Fits
<1>2. k.i \in 0 .. MaxTarget /\ k.to \in 0 .. MaxTarget /\ MaxTarget \in Nat
  BY <1>1, KeysNat DEF Task
<1>3. CASE k.i + 1 < k.to
  <2>1. /\ Set(c, Napping(k, k.i)) /\ user' = us /\ UNCHANGED <<eng, users, excuse>>
    BY <1>3 DEF Spawned, Napping
  <2>2. /\ Napping(k, k.i) \in Task /\ Napping(k, k.i).pc = "nap" /\ Napping(k, k.i).i = k.i + 1
        /\ Napping(k, k.i).then = k.then /\ Napping(k, k.i).to = k.to
    BY <1>1, <1>2, ClimbTasks
  <2>3. task'[c] = Napping(k, k.i) /\ Napping(k, k.i) # Idle
    BY <2>1, <2>2, SetCall DEF EngineAssumption
  <2>4. BoundIn(Napping(k, k.i), eng)
    BY <1>1, <1>2, <2>2, StructureTypes, BoundTargets DEF BoundIn
  <2>5. AloneIn(Napping(k, k.i), eng', users', user')
    BY <1>3, <2>1, <2>2, <2>4, FilledFacts DEF AloneIn
  <2> QED
    BY <2>3, <2>5 DEF Lands, SoundIn
<1>4. CASE ~(k.i + 1 < k.to)
  <2>1. Climb(c, k, eng, k.to, us)
    BY <1>4 DEF Spawned
  <2>2. Size = k.to
    BY <1>1, <1>2, <1>4
  <2> QED
    BY <1>1, <1>2, <2>1, <2>2, StructureTypes, ClimbLands
<1> QED
  BY <1>3, <1>4

LEMMA DescendStays ==
  ASSUME EngineAssumption, Structure, NEW c \in Calls, NEW k \in Task, NEW e \in Engine,
         e.timers => e.browser, NEW keys, Descend(c, k, e, keys)
  PROVE  OthersStay(c) /\ (eng'.timers => e.timers)
<1>1. CASE keys = {}
  <2>1. PICK phase \in Phases : Return(c, k, Phased(e, phase), user)
    BY <1>1 DEF Descend, Phased, Phases
  <2> QED
    BY <2>1, StructureTypes, PhasedEngine, ReturnStays
<1>2. CASE keys # {}
  BY <1>2, SetStays DEF Descend
<1> QED
  BY <1>1, <1>2

(* A descent that is alone: it stops the next user, or has got there.      *)
LEMMA DescendLands ==
  ASSUME EngineAssumption, Structure, NEW c \in Calls, NEW k \in Task, NEW e \in Engine,
         e.timers => e.browser, NEW keys \in SUBSET Filled, Descend(c, k, e, keys),
         BoundIn(k, e), LiveIn(users, user, {}), Size = Cardinality(keys) + k.to
  PROVE  Lands(c)
<1>1. /\ user \in [Objects -> States] /\ users \in [Keys -> Objects \cup {NoUser}]
      /\ users' = users /\ Filled \subseteq Keys /\ k.to \in Nat
  BY StructureTypes, SizeNat, BoundTargets DEF Descend
<1>2. CASE keys = {}
  <2> DEFINE phase == IF Filled = {} THEN "idle" ELSE "running"
             f == Phased(e, phase)
  <2>1. Return(c, k, f, user)
    BY <1>2 DEF Descend, Phased
  <2>2. Size = k.to
    BY <1>1, <1>2, FS_EmptySet
  <2>3. phase \in Phases /\ (k.to > 0 => phase = "running")
    BY <2>2, SizeNat DEF Phases
  <2> HIDE DEF phase
  <2>4. /\ f \in Engine /\ f.phase = phase /\ (f.timers => f.browser) /\ f.paused = e.paused
        /\ f.target = e.target /\ f.ramping = e.ramping
    BY <2>3, PhasedEngine
  <2> HIDE DEF f
  <2>5. BoundIn(k, f)
    BY <2>4 DEF BoundIn
  <2> QED
    BY <1>1, <2>1, <2>2, <2>3, <2>4, <2>5, ReturnLands
<1>3. CASE keys # {}
  <2>1. PICK i : i = Min(keys)
    OBVIOUS
  <2>2. i \in keys /\ i \in Filled
    BY <1>1, <1>3, <2>1, Least, KeysNat
  <2>3. users[i] \in Objects /\ users[i] # NoUser
    BY <1>1, <2>2 DEF Filled
  <2>4. /\ user' = StopUser(users[i]) /\ Set(c, Stopping(k, keys, users[i])) /\ eng' = e
    BY <1>3, <2>1, <2>3 DEF Descend, Stopping
  <2> DEFINE t == Stopping(k, keys, users[i])
  <2>5. /\ t \in Task /\ t.pc = "stopping" /\ t.keys = keys /\ t.user = users[i]
        /\ t.then = k.then /\ t.to = k.to /\ t.i = k.i
    BY <1>1, <2>3, StoppingTask
  <2>6. task'[c] = t /\ t # Idle
    BY <2>4, <2>5, SetCall DEF EngineAssumption
  <2> HIDE DEF t
  <2>7. LiveIn(users', user', {i})
    <3> SUFFICES ASSUME NEW j \in Filled \ {i} PROVE user'[users[j]] = "live"
      BY <1>1, FilledFacts DEF LiveIn
    <3>1. users[j] # users[i]
      BY <2>2 DEF Structure, MapSound
    <3>2. user[users[j]] = "live" /\ users[j] \in Objects
      BY <1>1, FilledFacts DEF LiveIn, Filled
    <3> QED
      BY <1>1, <2>4, <3>1, <3>2 DEF StopUser
  <2>8. BoundIn(t, eng')
    BY <2>4, <2>5 DEF BoundIn
  <2>9. FilledIn(users') = Filled /\ Cardinality(Filled) = Cardinality(keys) + k.to
    BY <1>1, FilledFacts
  <2>10. AloneIn(t, eng', users', user')
    BY <1>1, <2>1, <2>5, <2>7, <2>8, <2>9 DEF AloneIn
  <2> QED
    BY <2>6, <2>10 DEF Lands, SoundIn
<1> QED
  BY <1>2, <1>3

LEMMA PlanStays ==
  ASSUME EngineAssumption, Structure, NEW c \in Calls, NEW k \in Task, NEW e \in Engine, e.browser,
         Plan(c, k, e)
  PROVE  /\ OthersStay(c) /\ (eng'.timers => e.timers)
         /\ ~excuse'.muddled => ~excuse.muddled
<1>1. user \in [Objects -> States] /\ Size \in Nat /\ k.to \in Nat
  BY SizeNat, KeysNat, StructureTypes DEF Task
<1>2. ASSUME NEW phase \in Phases
      PROVE  /\ Phased(e, phase) \in Engine /\ Phased(e, phase).timers = e.timers
             /\ Phased(e, phase).browser
  BY PhasedEngine
<1>3. CASE k.to > Size
  <2>1. Climb(c, k, Phased(e, "ramping_up"), Size, user)
    BY <1>3 DEF Plan, Phased
  <2>2. /\ Phased(e, "ramping_up") \in Engine /\ Phased(e, "ramping_up").timers = e.timers
        /\ Phased(e, "ramping_up").browser
    BY <1>2 DEF Phases
  <2> QED
    BY <1>1, <2>1, <2>2, ClimbStays
<1>4. CASE k.to < Size
  <2>1. excuse' = excuse /\ \E keys : Descend(c, k, Phased(e, "ramping_down"), keys)
    BY <1>1, <1>4 DEF Plan, Phased
  <2>2. /\ Phased(e, "ramping_down") \in Engine /\ Phased(e, "ramping_down").timers = e.timers
        /\ Phased(e, "ramping_down").browser
    BY <1>2 DEF Phases
  <2> QED
    BY <2>1, <2>2, DescendStays
<1>5. CASE k.to = Size
  <2>1. PICK phase \in Phases : Return(c, k, Phased(e, phase), user)
    BY <1>1, <1>5 DEF Plan, Phased, Phases
  <2>2. excuse' = excuse
    BY <1>1, <1>5 DEF Plan
  <2> QED
    BY <1>1, <1>2, <2>1, <2>2, ReturnStays
<1> QED
  BY <1>1, <1>3, <1>4, <1>5

(* The rest of rampTo, for a call that is alone.                           *)
LEMMA PlanLands ==
  ASSUME EngineAssumption, Structure, NEW c \in Calls, NEW k \in Task, NEW e \in Engine, e.browser,
         Plan(c, k, e), ~excuse'.muddled, BoundIn(k, e), LiveIn(users, user, {})
  PROVE  Lands(c)
<1>1. /\ user \in [Objects -> States] /\ Size \in Nat /\ k.to \in Nat /\ k.to \in 0 .. MaxTarget
      /\ MaxTarget \in Nat /\ Filled \subseteq Keys
  BY SizeNat, KeysNat, StructureTypes DEF Task
<1>2. ASSUME NEW phase \in Phases
      PROVE  /\ Phased(e, phase) \in Engine /\ Phased(e, phase).browser
             /\ Phased(e, phase).phase = phase /\ BoundIn(k, Phased(e, phase))
  BY PhasedEngine DEF BoundIn
<1>3. CASE k.to > Size
  <2> DEFINE f == Phased(e, "ramping_up")
  <2>1. Climb(c, k, f, Size, user)
    BY <1>3 DEF Plan, Phased
  <2>2. f \in Engine /\ f.browser /\ BoundIn(k, f)
    BY <1>2 DEF Phases
  <2> HIDE DEF f
  <2>3. Size \in 0 .. MaxTarget /\ Size <= k.to
    BY <1>1, <1>3
  <2> QED
    BY <1>1, <2>1, <2>2, <2>3, ClimbLands
<1>4. CASE k.to < Size
  <2> DEFINE f == Phased(e, "ramping_down")
  <2>1. Descend(c, k, f, FirstOf(Filled, Size - k.to))
    BY <1>1, <1>4 DEF Plan, Phased, FirstOf, Rank
  <2>2. f \in Engine /\ f.browser /\ BoundIn(k, f)
    BY <1>2 DEF Phases
  <2> HIDE DEF f
  <2>3. /\ Size - k.to \in Nat /\ Size - k.to <= Cardinality(Filled) /\ Filled \in SUBSET Nat
        /\ IsFiniteSet(Filled)
    BY <1>1, <1>4, KeysNat, SizeNat DEF Size
  <2>4. Cardinality(FirstOf(Filled, Size - k.to)) = Size - k.to
    BY <2>3, FirstAreMany
  <2>5. FirstOf(Filled, Size - k.to) \in SUBSET Filled
    BY DEF FirstOf
  <2>6. Size = Cardinality(FirstOf(Filled, Size - k.to)) + k.to
    BY <1>1, <1>4, <2>4
  <2> QED
    BY <2>1, <2>2, <2>5, <2>6, DescendLands
<1>5. CASE k.to = Size
  <2> DEFINE phase == IF k.to = 0 THEN "idle" ELSE "running"
             f == Phased(e, phase)
  <2>1. Return(c, k, f, user) /\ users' = users
    BY <1>1, <1>5 DEF Plan, Phased
  <2>2. f \in Engine /\ f.browser /\ BoundIn(k, f) /\ (k.to > 0 => f.phase = "running")
    BY <1>1, <1>2 DEF Phases
  <2> HIDE DEF f
  <2> QED
    BY <1>1, <1>5, <2>1, <2>2, ReturnLands
<1> QED
  BY <1>1, <1>3, <1>4, <1>5

-----------------------------------------------------------------------------
(* Every step leaves the engine sound *)

(* A call in flight goes on.                                               *)
LEMMA StepLands ==
  ASSUME RestSound, NEW c \in Calls, ~Free(c), OthersStay(c), eng'.timers => eng.timers,
         ~excuse'.muddled => ~excuse.muddled,
         Clean /\ ~excuse'.muddled /\ AloneIn(task[c], eng, users, user) => Lands(c)
  PROVE  RestSound'
<1>1. CASE ~excuse'.muddled /\ eng'.timers
  <2>1. Clean
    BY <1>1 DEF Clean
  <2>2. Solo(c) /\ AloneIn(task[c], eng, users, user)
    BY <2>1, BusyIsSolo
  <2> QED
    BY <1>1, <2>1, <2>2, SoloRests
<1>2. CASE ~(~excuse'.muddled /\ eng'.timers)
  BY <1>2 DEF RestSound, Clean
<1> QED
  BY <1>1, <1>2

(* A call begins, which is no news when others are in flight.              *)
LEMMA CallLands ==
  ASSUME Structure, RestSound, NEW c \in Calls, Free(c), OthersStay(c), eng'.timers => eng.timers,
         ~excuse'.muddled => ~excuse.muddled /\ ~Others(c),
         Clean /\ BaseIn(eng, users, user) => Lands(c)
  PROVE  RestSound'
<1>1. CASE ~excuse'.muddled /\ eng'.timers
  <2>1. Clean /\ Solo(c)
    BY <1>1 DEF Clean, Solo, Others, OthersIn, Free
  <2>2. BaseIn(eng, users, user)
    BY <2>1, RestIsBase
  <2> QED
    BY <2>1, <2>2, SoloRests
<1>2. CASE ~(~excuse'.muddled /\ eng'.timers)
  BY <1>2 DEF RestSound, Clean
<1> QED
  BY <1>1, <1>2

LEMMA MuddleClean ==
  ASSUME Structure, NEW c, Muddle(c)
  PROVE  ~excuse'.muddled => ~excuse.muddled /\ ~Others(c)
<1>1. (excuse.muddled \/ Others(c)) \in BOOLEAN
  BY OthersBoolean, StructureTypes DEF Excuse
<1>2. excuse'.muddled = (excuse.muddled \/ Others(c))
  BY <1>1, StructureTypes DEF Muddle, Excuse
<1> QED
  BY <1>1, <1>2

(* A pause at work sounds the engine again.                                *)
LEMMA DrainRests ==
  ASSUME EngineAssumption, Structure, NEW c \in Calls, NEW ts, StandIn(ts, c), NEW k \in Task,
         k.pc = "pausing", NEW e \in Engine, NEW x \in Excuse,
         ts = task \/ (x.muddled /\ OthersIn(ts, c)), Drain(ts, c, k, e, x)
  PROVE  RestSound'
<1>1. ASSUME Cleared(ts, c, k, e, x), ~excuse'.muddled
      PROVE  RestSound'
  <2>1. ts = task /\ ~Others(c) /\ eng'.paused
    BY <1>1 DEF Cleared, Others
  <2>2. Solo(c)
    BY <2>1 DEF Solo, Others, OthersIn, Free
  <2>3. OthersStay(c)
    BY <1>1, <2>1, <2>2 DEF Cleared, RestHeld, Solo, At, OthersStay
  <2>4. BaseIn(eng', users', user')
    BY <1>1, <2>1 DEF Cleared, BaseIn, FilledIn
  <2>5. ASSUME task'[c] # Idle
        PROVE  task'[c].pc \in {"ping", "asking"}
    <3>1. k.back \in BOOLEAN
      BY DEF Task
    <3> QED
      BY <1>1, <2>5, <3>1, AtTasks DEF Cleared, Landing, Thens
  <2>6. Lands(c)
    BY <2>4, <2>5 DEF Lands, SoundIn, AloneIn
  <2> QED
    BY <2>2, <2>3, <2>6, SoloRests
<1>2. ASSUME NEW i \in Filled, Visited(ts, c, k, e, x, i), ~excuse'.muddled
      PROVE  RestSound'
  <2>1. ts = task /\ ~Others(c)
    BY <1>2 DEF Visited
  <2>2. Solo(c) /\ OthersStay(c)
    BY <1>2, <2>1 DEF Visited, Solo, Others, OthersIn, Free, OthersStay
  <2>3. i \in Keys /\ users[i] \in Objects \cup {NoUser}
    BY SizeNat, StructureTypes
  <2>4. task'[c] \in Task /\ task'[c].pc = "pausing"
    BY <1>2, <2>3, VisitingTask DEF Visited
  <2>5. Lands(c)
    BY <2>4 DEF Lands, SoundIn, AloneIn, EngineAssumption
  <2> QED
    BY <2>2, <2>5, SoloRests
<1>3. CASE excuse'.muddled
  BY <1>3 DEF RestSound, Clean
<1> QED
  BY <1>1, <1>2, <1>3, DrainDoes

LEMMA PausesRest ==
  ASSUME EngineAssumption, Structure, NEW c \in Calls, NEW ts, StandIn(ts, c), NEW then \in Thens,
         NEW back \in BOOLEAN, NEW x \in Excuse, ts = task \/ (x.muddled /\ OthersIn(ts, c)),
         Pauses(ts, c, then, back, x)
  PROVE  RestSound'
<1>1. PICK k \in {Pausing(then), PausingBack(then, back)} :
        \E e \in {Paused} \cup {[Paused EXCEPT !.target = n] : n \in 1 .. MaxTarget} : Drain(ts, c, k, e, x)
  BY DEF Pauses
<1>2. PICK e \in Engine : Drain(ts, c, k, e, x)
  BY <1>1, PausedEngine
<1>3. k \in Task /\ k.pc = "pausing"
  BY PausingFits
<1> QED
  BY <1>2, <1>3, DrainRests

(* The process that has started is at rest, or about to ramp.              *)
LEMMA StartRests ==
  ASSUME EngineAssumption, world \in World, NEW c \in Calls, eng' = Started,
         users' = [i \in Keys |-> NoUser],
         task' = [d \in Calls |-> IF d = c /\ ~world.wait THEN Blank ELSE Idle]
  PROVE  RestSound'
<1>1. eng'.paused = world.wait /\ world.wait \in BOOLEAN /\ ~eng'.ramping
  BY StartedEngine DEF World
<1>2. FilledIn(users') = {}
  BY DEF FilledIn
<1>3. SoundIn(task'[c], eng', users', user')
  <2>1. CASE world.wait
    BY <1>1, <1>2, <2>1 DEF SoundIn, BaseIn
  <2>2. CASE ~world.wait
    BY <1>1, <1>2, <2>2, BlankTask DEF SoundIn, AloneIn, EngineAssumption
  <2> QED
    BY <1>1, <2>1, <2>2
<1>4. Solo(c)'
  BY DEF Solo, Free
<1> QED
  BY <1>3, <1>4 DEF RestSound

LEMMA ThrowRests ==
  ASSUME EngineAssumption, Structure, NEW c \in Calls, NEW us, Throw(c, us)
  PROVE  RestSound'
<1>1. CASE Thrown(c, us)
  BY <1>1 DEF Thrown, RestSound, Clean
<1>2. CASE StartAgain(c)
  BY <1>2, StructureTypes, StartRests DEF StartAgain
<1> QED
  BY <1>1, <1>2, ThrowDoes

LEMMA RampToStays ==
  ASSUME Structure, NEW c, NEW e, NEW to, NEW then, RampTo(c, e, to, then)
  PROVE  OthersStay(c) /\ eng' = e
<1>1. CASE e.paused
  BY <1>1 DEF RampTo, OthersStay
<1>2. CASE ~e.paused
  BY <1>2, SetStays DEF RampTo
<1> QED
  BY <1>1, <1>2

(* A ramp to the target that sets out, when nobody is on the move.         *)
LEMMA RampToLands ==
  ASSUME EngineAssumption, Structure, NEW c \in Calls, NEW e \in Engine,
         NEW then \in {"none", "scenario", "resume"}, RampTo(c, e, e.target, then), ~e.paused,
         then # "resume" => ~e.ramping, LiveIn(users, user, {})
  PROVE  Lands(c)
<1> DEFINE t == Ramp(e.target, then)
<1>1. Set(c, t) /\ eng' = e /\ users' = users /\ user' = user
  BY DEF RampTo, Ramp
<1>2. e.target \in 0 .. MaxTarget
  BY DEF Engine
<1>3. t \in Task /\ t.pc = "probing" /\ t.to = e.target /\ t.then = then
  BY <1>2, RampTask DEF Thens
<1>4. task'[c] = t /\ t # Idle
  BY <1>1, <1>3, SetCall DEF EngineAssumption
<1> HIDE DEF t
<1>5. AloneIn(t, e, users, user)
  BY <1>3 DEF AloneIn, BoundIn
<1> QED
  BY <1>1, <1>4, <1>5 DEF Lands, SoundIn

(* A call that begins, or goes on, with nothing moving.                    *)
LEMMA BaseLands ==
  ASSUME EngineAssumption, Structure, NEW c \in Calls, NEW new \in Task \cup {Idle}, Set(c, new),
         new # Idle => new.pc \in {"ping", "cms", "asking"}, BaseIn(eng', users', user')
  PROVE  OthersStay(c) /\ Lands(c)
<1>1. task'[c] = new /\ OthersStay(c)
  BY SetCall, SetStays
<1> QED
  BY <1>1 DEF Lands, SoundIn, AloneIn

LEMMA BaseLives ==
  ASSUME BaseIn(eng, users, user)
  PROVE  LiveIn(users, user, {})
BY DEF BaseIn, LiveIn

LEMMA InitRests ==
  ASSUME EngineAssumption, Init
  PROVE  RestSound
<1>1. /\ world \in World /\ users = [k \in Keys |-> NoUser] /\ eng = Started
  BY DEF Init, World
<1>2. PICK first \in Calls : task = [c \in Calls |-> IF c = first /\ ~world.wait THEN Blank ELSE Idle]
  BY DEF Init
<1>3. eng.paused = world.wait /\ world.wait \in BOOLEAN /\ ~eng.ramping
  BY <1>1, StartedEngine DEF World
<1>4. Solo(first)
  BY <1>2 DEF Solo, Free
<1>5. FilledIn(users) = {}
  BY <1>1 DEF FilledIn
<1>6. SoundIn(task[first], eng, users, user)
  <2>1. CASE world.wait
    BY <1>2, <1>3, <1>5, <2>1 DEF SoundIn, BaseIn
  <2>2. CASE ~world.wait
    BY <1>2, <1>3, <1>5, <2>2, BlankTask DEF SoundIn, AloneIn, EngineAssumption
  <2> QED
    BY <1>3, <2>1, <2>2
<1> QED
  BY <1>4, <1>6 DEF RestSound

LEMMA BeginRests ==
  ASSUME EngineAssumption, Structure, RestSound, NEW c \in Calls, Begin(c)
  PROVE  RestSound'
<1>1. /\ At(c, "begin") /\ ~Free(c) /\ Began(c) /\ users' = users /\ user' = user
      /\ ~excuse'.muddled => ~excuse.muddled
      /\ Reached \in Engine /\ Reached.timers = eng.timers /\ Reached.paused = eng.paused
      /\ Reached.target = eng.target /\ Reached.ramping = eng.ramping
      /\ Waiting.timers = eng.timers /\ Waiting.paused
  BY BeginDoes, StructureTypes DEF Began, At, Excuse
<1>2. ASSUME AloneIn(task[c], eng, users, user)
      PROVE  FilledIn(users) = {} /\ ~eng.ramping
  BY <1>1, <1>2 DEF AloneIn, At
<1>3. CASE eng' = Reached /\ ~eng.paused /\ Set(c, Ramp(eng.target, "none"))
  <2>1. RampTo(c, Reached, Reached.target, "none")
    BY <1>1, <1>3 DEF RampTo, Ramp
  <2>2. AloneIn(task[c], eng, users, user) => Lands(c)
    BY <1>1, <1>2, <1>3, <2>1, RampToLands DEF LiveIn
  <2> QED
    BY <1>1, <1>3, <2>1, <2>2, RampToStays, StepLands
<1>4. CASE eng' \in {Reached, Waiting} /\ eng'.paused /\ Set(c, Idle)
  <2>1. AloneIn(task[c], eng, users, user) => Lands(c)
    BY <1>1, <1>2, <1>4, BaseLands DEF BaseIn
  <2> QED
    BY <1>1, <1>4, <2>1, SetStays, StepLands
<1>5. \/ eng' = Reached /\ ~eng.paused /\ Set(c, Ramp(eng.target, "none"))
      \/ eng' \in {Reached, Waiting} /\ eng'.paused /\ Set(c, Idle)
  BY <1>1, StructureTypes DEF Began, Engine
<1> QED
  BY <1>3, <1>4, <1>5

LEMMA ProbedRests ==
  ASSUME EngineAssumption, Structure, RestSound, NEW c \in Calls, Probed(c)
  PROVE  RestSound'
<1>1. /\ task[c] \in Task /\ ~Free(c) /\ task[c].pc = "probing"
      /\ Probing(c) \in Engine /\ Probing(c).browser /\ Probing(c).timers = eng.timers
      /\ Probing(c).paused = eng.paused /\ Probing(c).target = eng.target
      /\ Probing(c).ramping = eng.ramping
  BY ProbedDoes DEF At
<1>2. CASE Plan(c, task[c], Probing(c))
  <2>1. AloneIn(task[c], eng, users, user) => BoundIn(task[c], Probing(c)) /\ LiveIn(users, user, {})
    BY <1>1 DEF AloneIn, BoundIn
  <2>2. /\ OthersStay(c) /\ (eng'.timers => eng.timers)
        /\ ~excuse'.muddled => ~excuse.muddled
    BY <1>1, <1>2, PlanStays
  <2>3. ~excuse'.muddled /\ AloneIn(task[c], eng, users, user) => Lands(c)
    BY <1>1, <1>2, <2>1, PlanLands
  <2> QED
    BY <1>1, <2>2, <2>3, StepLands
<1>3. CASE Throw(c, user)
  BY <1>3, ThrowRests
<1>4. CASE excuse'.muddled
  BY <1>4 DEF RestSound, Clean
<1> QED
  BY <1>2, <1>3, <1>4, ProbedDoes

LEMMA OpenContextRests ==
  ASSUME EngineAssumption, Structure, RestSound, NEW c \in Calls, OpenContext(c)
  PROVE  RestSound'
<1> DEFINE k == task[c]
           u == k.user
<1>1. /\ At(c, "opening") /\ ~Free(c) /\ k.pc = "opening" /\ user[u] \in {"opening", "doomed"}
      /\ u \in Objects /\ user \in [Objects -> States]
  BY BusyTask, StructureTypes DEF OpenContext, At, Fits
<1>2. CASE user[u] = "doomed" /\ Spawned(c, [user EXCEPT ![u] = "orphan"])
  <2>1. [user EXCEPT ![u] = "orphan"] \in [Objects -> States]
    BY <1>1, UserMoves DEF States, Opened
  <2>2. /\ OthersStay(c) /\ (eng'.timers => eng.timers)
        /\ ~excuse'.muddled => ~excuse.muddled
    BY <1>1, <1>2, <2>1, SpawnedStays
  <2>3. ~AloneIn(k, eng, users, user)
    BY <1>1, <1>2 DEF AloneIn
  <2> QED
    BY <1>1, <2>2, <2>3, StepLands
<1>3. CASE /\ user[u] = "opening" /\ user' = [user EXCEPT ![u] = "paging"]
           /\ UNCHANGED <<eng, users, task, excuse>>
  <2>1. ASSUME AloneIn(k, eng, users, user)
        PROVE  Lands(c)
    <3>1. /\ BoundIn(k, eng) /\ LiveIn(users, user, {k.i})
          /\ Cardinality(FilledIn(users)) = k.i + 1 /\ k.i \in Keys /\ users[k.i] = u
      BY <1>1, <2>1 DEF AloneIn
    <3>2. LiveIn(users, user', {k.i})
      <4> SUFFICES ASSUME NEW j \in FilledIn(users) \ {k.i} PROVE user'[users[j]] = "live"
        BY DEF LiveIn
      <4>1. user[users[j]] = "live"
        BY <3>1 DEF LiveIn
      <4>2. users[j] # u /\ users[j] \in Objects
        BY <1>3, <4>1, StructureTypes DEF FilledIn
      <4> QED
        BY <1>1, <1>3, <4>1, <4>2
    <3>3. user'[u] = "paging"
      BY <1>1, <1>3
    <3>4. AloneIn(k, eng', users', user')
      BY <1>1, <1>3, <3>1, <3>2, <3>3 DEF AloneIn
    <3> QED
      BY <1>1, <1>3, <3>4 DEF Lands, SoundIn, Free
  <2>2. OthersStay(c)
    BY <1>3 DEF OthersStay
  <2> QED
    BY <1>1, <1>3, <2>1, <2>2, StepLands
<1>4. CASE Throw(c, [user EXCEPT ![u] = "gone"])
  BY <1>4, ThrowRests
<1> QED
  BY <1>2, <1>3, <1>4 DEF OpenContext

LEMMA OpenPageRests ==
  ASSUME EngineAssumption, Structure, RestSound, NEW c \in Calls, OpenPage(c)
  PROVE  RestSound'
<1> DEFINE k == task[c]
           u == k.user
           us == [user EXCEPT ![u] = "live"]
<1>1. /\ At(c, "opening") /\ ~Free(c) /\ k.pc = "opening" /\ user[u] \in {"paging", "cut"}
      /\ u \in Objects /\ user \in [Objects -> States]
  BY BusyTask, StructureTypes DEF OpenPage, At, Fits
<1>2. CASE user[u] = "paging" /\ Spawned(c, us)
  <2>1. us \in [Objects -> States]
    BY <1>1, <1>2, UserMoves DEF States, Opened
  <2>2. ASSUME AloneIn(k, eng, users, user)
        PROVE  BoundIn(k, eng) /\ LiveIn(users, us, {}) /\ Size = k.i + 1
    <3>1. /\ BoundIn(k, eng) /\ LiveIn(users, user, {k.i})
          /\ Cardinality(FilledIn(users)) = k.i + 1 /\ users[k.i] = u
      BY <1>1, <2>2 DEF AloneIn
    <3>2. LiveIn(users, us, {})
      <4> SUFFICES ASSUME NEW j \in FilledIn(users) PROVE us[users[j]] = "live"
        BY DEF LiveIn
      <4>1. CASE users[j] = u
        BY <1>1, <4>1
      <4>2. CASE users[j] # u
        <5>1. users[j] \in Objects
          BY StructureTypes DEF FilledIn
        <5>2. user[users[j]] = "live"
          BY <3>1, <4>2 DEF LiveIn
        <5> QED
          BY <1>1, <4>2, <5>1, <5>2
      <4> QED
        BY <4>1, <4>2
    <3> QED
      BY <3>1, <3>2, FilledFacts
  <2> HIDE DEF us
  <2>3. /\ OthersStay(c) /\ (eng'.timers => eng.timers)
        /\ ~excuse'.muddled => ~excuse.muddled
    BY <1>1, <1>2, <2>1, SpawnedStays
  <2>4. Clean /\ ~excuse'.muddled /\ AloneIn(k, eng, users, user) => Lands(c)
    BY <1>1, <1>2, <2>1, <2>2, SpawnedLands, StructureTypes DEF Clean
  <2> QED
    BY <1>1, <2>3, <2>4, StepLands
<1>3. ASSUME NEW vs, Throw(c, vs)
      PROVE  RestSound'
  BY <1>3, ThrowRests
<1> QED
  BY <1>2, <1>3 DEF OpenPage

LEMMA AwakeRests ==
  ASSUME EngineAssumption, Structure, RestSound, NEW c \in Calls, Awake(c)
  PROVE  RestSound'
<1> DEFINE k == task[c]
<1>1. /\ k \in Task /\ k.i \in 0 .. MaxTarget /\ k.i \in Nat /\ k.keys \in SUBSET Keys /\ ~Free(c)
      /\ eng \in Engine /\ (eng.timers => eng.browser) /\ user \in [Objects -> States]
      /\ k.to \in Nat
  BY BusyTask, StructureTypes, KeysNat DEF Awake, At, Task
<1>2. CASE At(c, "nap") /\ Climb(c, k, eng, k.i, user)
  <2>1. /\ OthersStay(c) /\ (eng'.timers => eng.timers)
        /\ ~excuse'.muddled => ~excuse.muddled
    BY <1>1, <1>2, ClimbStays
  <2>2. ASSUME Clean, ~excuse'.muddled, AloneIn(k, eng, users, user)
        PROVE  Lands(c)
    <3>1. /\ BoundIn(k, eng) /\ LiveIn(users, user, {}) /\ k.i < k.to
          /\ Cardinality(FilledIn(users)) = k.i
      BY <1>2, <2>2 DEF AloneIn, At
    <3>2. Size = k.i /\ k.i <= k.to /\ eng.browser
      BY <1>1, <2>2, <3>1, FilledFacts DEF Clean
    <3> QED
      BY <1>1, <1>2, <2>2, <3>1, <3>2, ClimbLands
  <2> QED
    BY <1>1, <2>1, <2>2, StepLands
<1>3. CASE At(c, "rest") /\ Descend(c, k, eng, k.keys) /\ excuse' = excuse
  <2>1. OthersStay(c) /\ (eng'.timers => eng.timers)
    BY <1>1, <1>3, DescendStays
  <2>2. ASSUME AloneIn(k, eng, users, user)
        PROVE  Lands(c)
    <3>1. /\ BoundIn(k, eng) /\ LiveIn(users, user, {}) /\ k.keys \subseteq FilledIn(users)
          /\ Cardinality(FilledIn(users)) = Cardinality(k.keys) + k.to
      BY <1>3, <2>2 DEF AloneIn, At
    <3> QED
      BY <1>1, <1>3, <3>1, FilledFacts, DescendLands
  <2> QED
    BY <1>1, <1>3, <2>1, <2>2, StepLands
<1> QED
  BY <1>2, <1>3 DEF Awake

LEMMA StoppedRests ==
  ASSUME EngineAssumption, Structure, RestSound, NEW c \in Calls, Stopped(c)
  PROVE  RestSound'
<1> DEFINE k == task[c]
<1>1. /\ k \in Task /\ ~Free(c) /\ k.pc = "stopping" /\ k.keys # {} /\ k.keys \in SUBSET Keys
      /\ users \in [Keys -> Objects \cup {NoUser}] /\ k.to \in Nat
      /\ eng' = eng /\ user' = user
  BY BusyTask, StructureTypes, KeysNat DEF Stopped, At, Task, Fits
<1>2. PICK i : i = Min(k.keys)
  OBVIOUS
<1>3. i \in k.keys /\ i \in Keys
  BY <1>1, <1>2, Least, KeysNat
<1> DEFINE rest == [k EXCEPT !.pc = "rest", !.keys = @ \ {i}]
<1>4. /\ task'[c] = rest
      /\ \A d \in Calls \ {c} :
           task'[d] = IF At(d, "pausing") THEN [task[d] EXCEPT !.keys = @ \ {i}] ELSE task[d]
      /\ users' = IF k.user = NoUser THEN users ELSE [users EXCEPT ![i] = NoUser]
      /\ excuse' = IF k.user # NoUser /\ users[i] # k.user
                   THEN [excuse EXCEPT !.collided = @ \cup {users[i]}, !.muddled = TRUE] ELSE excuse
  BY <1>2 DEF Stopped
<1>5. /\ rest \in Task /\ rest.pc = "rest" /\ rest.keys = k.keys \ {i} /\ rest.to = k.to
      /\ rest.then = k.then /\ rest.i = k.i
  BY <1>1 DEF Task
<1> HIDE DEF rest
<1>6. ~excuse'.muddled => excuse' = excuse
  BY <1>4, StructureTypes DEF Excuse
<1>7. CASE excuse'.muddled \/ ~eng'.timers
  BY <1>7 DEF RestSound, Clean
<1>8. CASE ~excuse'.muddled /\ eng'.timers
  <2>1. Clean
    BY <1>1, <1>6, <1>8 DEF Clean
  <2>2. Solo(c) /\ AloneIn(k, eng, users, user)
    BY <1>1, <2>1, BusyIsSolo
  <2>3. /\ BoundIn(k, eng) /\ LiveIn(users, user, {i}) /\ k.keys \subseteq FilledIn(users)
        /\ Cardinality(FilledIn(users)) = Cardinality(k.keys) + k.to /\ users[i] = k.user
    BY <1>1, <1>2, <2>2 DEF AloneIn
  <2>4. users[i] # NoUser /\ users' = [users EXCEPT ![i] = NoUser]
    BY <1>3, <1>4, <2>3 DEF FilledIn
  <2>5. FilledIn(users') = FilledIn(users) \ {i} /\ i \in FilledIn(users)
    BY <1>1, <1>3, <2>4 DEF FilledIn
  <2>6. IsFiniteSet(FilledIn(users)) /\ IsFiniteSet(k.keys)
    BY <2>3, FilledFacts, FS_Subset
  <2>7. /\ Cardinality(FilledIn(users')) = Cardinality(FilledIn(users)) - 1
        /\ Cardinality(k.keys \ {i}) = Cardinality(k.keys) - 1
        /\ Cardinality(k.keys) \in Nat
    <3>1. Cardinality(FilledIn(users) \ {i}) = Cardinality(FilledIn(users)) - 1
      BY <2>5, <2>6, FS_RemoveElement
    <3>2. Cardinality(k.keys \ {i}) = Cardinality(k.keys) - 1
      BY <1>3, <2>6, FS_RemoveElement
    <3>3. Cardinality(k.keys) \in Nat
      BY <2>6, FS_CardinalityType
    <3> QED
      BY <2>5, <3>1, <3>2, <3>3
  <2>8. Cardinality(FilledIn(users')) = Cardinality(rest.keys) + rest.to
    BY <1>1, <1>5, <2>3, <2>7
  <2>9. LiveIn(users', user', {})
    BY <1>1, <2>3, <2>4, <2>5 DEF LiveIn, FilledIn
  <2>10. BoundIn(rest, eng')
    BY <1>1, <1>5, <2>3 DEF BoundIn
  <2>11. rest.keys \subseteq FilledIn(users')
    BY <1>5, <2>3, <2>5
  <2>12. AloneIn(rest, eng', users', user')
    BY <1>5, <2>8, <2>9, <2>10, <2>11 DEF AloneIn
  <2>13. Lands(c)
    BY <1>4, <1>5, <2>12 DEF Lands, SoundIn, EngineAssumption
  <2>14. OthersStay(c)
    BY <1>4, <2>2 DEF OthersStay, Solo, At
  <2> QED
    BY <2>2, <2>13, <2>14, SoloRests
<1> QED
  BY <1>7, <1>8

LEMMA AskedRests ==
  ASSUME EngineAssumption, Structure, RestSound, NEW c \in Calls, Asked(c)
  PROVE  RestSound'
<1>1. /\ ~Free(c) /\ task[c].pc = "asking"
      /\ Resumed \in Engine /\ ~Resumed.paused /\ Resumed.target = eng.target
      /\ Resumed.timers = eng.timers
  BY AskedDoes DEF At
<1>2. CASE RampTo(c, Resumed, eng.target, "resume") /\ excuse' = excuse
  <2>1. AloneIn(task[c], eng, users, user) => LiveIn(users, user, {})
    BY <1>1, BaseLives DEF AloneIn
  <2> QED
    BY <1>1, <1>2, <2>1, RampToStays, RampToLands, StepLands
<1>3. CASE Declined(c)
  BY <1>3 DEF Declined, RestSound, Clean
<1> QED
  BY <1>2, <1>3, AskedDoes

LEMMA ProbesRest ==
  ASSUME EngineAssumption, Structure, RestSound, NEW c \in Calls, Drained(c) \/ Pinged(c) \/ Decide(c)
  PROVE  RestSound'
<1>1. ~Free(c) /\ task[c] \in Task
  BY BusyTask DEF Drained, Pinged, Decide, At
<1>2. ASSUME Drained(c)
      PROVE  RestSound'
  <2>1. task[c].pc = "pausing" /\ Drain(task, c, task[c], eng, excuse)
    BY <1>2 DEF Drained, At
  <2> QED
    BY <1>1, <2>1, StructureTypes, ItselfStandsIn, DrainRests
<1>3. ASSUME Pinged(c)
      PROVE  RestSound'
  <2> DEFINE new == [task[c] EXCEPT !.pc = "cms"]
  <2>1. new \in Task /\ new.pc = "cms"
    BY <1>1 DEF Task
  <2>2. /\ Set(c, new) /\ eng' = [eng EXCEPT !.reach = world.up] /\ task[c].pc = "ping"
        /\ users' = users /\ user' = user /\ excuse' = excuse
    BY <1>3 DEF Pinged, At
  <2> HIDE DEF new
  <2>3. /\ eng'.paused = eng.paused /\ eng'.phase = eng.phase /\ eng'.target = eng.target
        /\ eng'.timers = eng.timers /\ eng'.ramping = eng.ramping
    BY <2>2, StructureTypes DEF Engine
  <2>4. AloneIn(task[c], eng, users, user) => BaseIn(eng', users', user')
    BY <2>2, <2>3 DEF AloneIn, BaseIn
  <2> QED
    BY <1>1, <2>1, <2>2, <2>3, <2>4, SetStays, BaseLands, StepLands
<1>4. ASSUME Decide(c)
      PROVE  RestSound'
  <2>1. CASE Pauses(task, c, "probe", task[c].back, excuse)
    BY <1>4, <2>1, DecideDoes, StructureTypes, ItselfStandsIn, PausesRest DEF Thens
  <2>2. ASSUME NEW new \in Task \cup {Idle}, new # Idle => new.pc = "asking",
               Set(c, new), UNCHANGED <<eng, users, user, excuse>>
        PROVE  RestSound'
    <3>1. AloneIn(task[c], eng, users, user) => BaseIn(eng', users', user')
      BY <1>4, <2>2 DEF AloneIn, Decide, At
    <3> QED
      BY <1>1, <2>2, <3>1, SetStays, BaseLands, StepLands
  <2> QED
    BY <1>4, <2>1, <2>2, DecideDoes
<1> QED
  BY <1>2, <1>3, <1>4

LEMMA RampDownStays ==
  ASSUME EngineAssumption, Structure, NEW c \in Calls, NEW e \in Engine, e.timers => e.browser,
         NEW then \in Thens, NEW goal \in 0 .. MaxTarget, RampDown(c, e, then, goal)
  PROVE  OthersStay(c) /\ (eng'.timers => e.timers)
<1>1. CASE e.paused
  <2>1. Return(c, Down(then, goal), e, user)
    BY <1>1 DEF RampDown, Down
  <2> QED
    BY <2>1, DownTask, StructureTypes, ReturnStays
<1>2. CASE ~e.paused /\ e.browser
  <2>1. PICK phase \in Phases : Descend(c, Down(then, goal), Phased(e, phase), Filled)
    BY <1>2 DEF RampDown, Down, Phased, Phases
  <2> QED
    BY <2>1, DownTask, PhasedEngine, DescendStays
<1>3. CASE ~e.paused /\ ~e.browser
  BY <1>3, SetStays DEF RampDown
<1> QED
  BY <1>1, <1>2, <1>3

(* A ramp to no users that sets out, when nobody is on the move.           *)
LEMMA RampDownLands ==
  ASSUME EngineAssumption, Structure, NEW c \in Calls, NEW e \in Engine, e.browser, ~e.paused,
         NEW then \in Thens, NEW goal \in 0 .. MaxTarget, RampDown(c, e, then, goal),
         then \in {"stop", "exit"} \/ (then = "rumdown" /\ goal = e.target), LiveIn(users, user, {})
  PROVE  Lands(c)
<1> DEFINE k == Down(then, goal)
<1>1. k \in Task /\ k.then = then /\ k.i = goal /\ k.to = 0
  BY DownTask
<1>2. PICK phase \in Phases : Descend(c, k, Phased(e, phase), Filled)
  BY DEF RampDown, Down, Phased, Phases
<1> DEFINE f == Phased(e, phase)
<1>3. f \in Engine /\ f.browser /\ f.paused = e.paused /\ f.target = e.target
  BY PhasedEngine
<1> HIDE DEF k, f
<1>4. BoundIn(k, f)
  BY <1>1, <1>3 DEF BoundIn
<1>5. Size = Cardinality(Filled) + k.to
  BY <1>1, FilledFacts, SizeNat
<1>6. Descend(c, k, f, Filled)
  BY <1>2 DEF f
<1> QED
  BY <1>1, <1>3, <1>4, <1>5, <1>6, DescendLands

LEMMA CallsRest ==
  ASSUME EngineAssumption, Structure, RestSound, NEW c \in Calls, Call(c)
  PROVE  RestSound'
<1>0. Free(c) /\ task[c] = Idle /\ CallForms(c)
  BY CallsHaveForms DEF Free
<1>1. ASSUME CallRamps(c)
      PROVE  RestSound'
  <2>1. PICK then \in {"none", "scenario"} :
          \E e : Alike(e) /\ e.ramping = eng.ramping /\ RampTo(c, e, e.target, then) /\ Muddle(c)
    BY <1>1 DEF CallRamps
  <2>2. PICK e : Alike(e) /\ e.ramping = eng.ramping /\ RampTo(c, e, e.target, then) /\ Muddle(c)
    BY <2>1
  <2>3. e \in Engine /\ e.paused = eng.paused /\ e.timers = eng.timers
    BY <2>2 DEF Alike
  <2>4. ASSUME BaseIn(eng, users, user)
        PROVE  Lands(c)
    <3>1. CASE e.paused
      <4>1. task'[c] = Idle /\ eng' = e /\ users' = users /\ user' = user
        BY <1>0, <2>2, <3>1 DEF RampTo
      <4> QED
        BY <2>3, <2>4, <3>1, <4>1 DEF Lands, SoundIn, BaseIn
    <3>2. CASE ~e.paused
      <4>1. ~e.ramping /\ LiveIn(users, user, {})
        BY <2>2, <2>3, <2>4, <3>2, BaseLives DEF BaseIn
      <4> QED
        BY <2>2, <2>3, <3>2, <4>1, RampToLands
    <3> QED
      BY <3>1, <3>2
  <2> QED
    BY <1>0, <2>2, <2>3, <2>4, RampToStays, MuddleClean, CallLands
<1>2. ASSUME CallDescends(c)
      PROVE  RestSound'
  <2>1. PICK e : /\ Alike(e) /\ Muddle(c)
                 /\ \/ \E then \in {"stop", "exit"} : RampDown(c, e, then, 0)
                    \/ ~eng.paused /\ RampDown(c, e, "rumdown", e.target)
    BY <1>2 DEF CallDescends
  <2>2. PICK then \in {"stop", "exit", "rumdown"}, goal \in {0, e.target} :
          /\ RampDown(c, e, then, goal)
          /\ then = "rumdown" => ~eng.paused /\ goal = e.target
    BY <2>1
  <2>3. /\ e \in Engine /\ (e.timers => e.browser) /\ e.timers = eng.timers /\ e.paused = eng.paused
        /\ e.browser = eng.browser /\ goal \in 0 .. MaxTarget /\ then \in Thens
        /\ user \in [Objects -> States]
    BY <2>1, StructureTypes, KeysNat DEF Alike, Engine, Thens
  <2>4. OthersStay(c) /\ (eng'.timers => eng.timers)
    BY <2>2, <2>3, RampDownStays
  <2>5. CASE e.paused
    <3>1. Return(c, Down(then, goal), e, user) /\ then \in {"stop", "exit"}
      BY <2>2, <2>3, <2>5 DEF RampDown, Down
    <3>2. Down(then, goal) \in Task /\ Down(then, goal).then = then
      BY <2>3, DownTask
    <3>3. ~eng'.timers
      BY <2>3, <3>1, <3>2, ReturnDoes DEF Returned
    <3> QED
      BY <3>3 DEF RestSound, Clean
  <2>6. CASE ~e.paused
    <3>1. Clean /\ BaseIn(eng, users, user) => Lands(c)
      BY <2>2, <2>3, <2>6, StructureTypes, BaseLives, RampDownLands DEF Clean
    <3> QED
      BY <1>0, <2>1, <2>4, <3>1, MuddleClean, CallLands
  <2> QED
    BY <2>5, <2>6
<1>3. ASSUME CallAsks(c)
      PROVE  RestSound'
  <2>1. /\ Set(c, Asking("none")) /\ users' = users /\ user' = user /\ eng'.timers = eng.timers
        /\ eng'.paused = eng.paused /\ (eng' = eng \/ eng.paused)
        /\ ~excuse'.muddled => ~excuse.muddled /\ ~Others(c)
    BY <1>3 DEF CallAsks, Alike
  <2>2. BaseIn(eng, users, user) => BaseIn(eng', users', user')
    BY <2>1 DEF BaseIn
  <2>3. Asking("none") \in Task /\ Asking("none").pc = "asking"
    BY AtTasks DEF Thens
  <2> QED
    BY <1>0, <2>1, <2>2, <2>3, SetStays, BaseLands, CallLands
<1>4. ASSUME CallPings(c)
      PROVE  RestSound'
  <2>1. Pinging(FALSE) \in Task /\ Pinging(FALSE).pc = "ping"
    BY AtTasks
  <2> QED
    BY <1>0, <1>4, <2>1, SetStays, MuddleClean, BaseLands, CallLands DEF CallPings
<1>5. ASSUME CallRaises(c)
      PROVE  RestSound'
  <2>1. /\ UNCHANGED <<users, user, task>> /\ eng'.paused = eng.paused /\ eng'.timers = eng.timers
        /\ eng.paused \/ eng.ramping
        /\ Muddle(c)
    BY <1>5 DEF CallRaises, Alike
  <2>2. BaseIn(eng, users, user) => Lands(c)
    BY <1>0, <2>1 DEF BaseIn, Lands, SoundIn
  <2>3. OthersStay(c)
    BY <2>1 DEF OthersStay
  <2> QED
    BY <1>0, <2>1, <2>2, <2>3, MuddleClean, CallLands
<1>6. ASSUME CallDrains(c)
      PROVE  RestSound'
  <2>1. PICK ts, x : \E then \in {"none", "retarget"}, back \in BOOLEAN :
          /\ Pauses(ts, c, then, back, x) /\ StandIn(ts, c) /\ x \in Excuse
          /\ ts = task \/ (x.muddled /\ OthersIn(ts, c))
    BY <1>6 DEF CallDrains
  <2> QED
    BY <2>1, PausesRest DEF Thens
<1> QED
  BY <1>0, <1>1, <1>2, <1>3, <1>4, <1>5, <1>6 DEF CallForms

LEMMA LoopEndsRests ==
  ASSUME Structure, RestSound, NEW u \in Objects, LoopEnds(u)
  PROVE  RestSound'
<1>1. /\ user[u] = "winding" /\ user' = [user EXCEPT ![u] = "gone"]
      /\ UNCHANGED <<eng, users, task, excuse>>
      /\ user \in [Objects -> States] /\ users \in [Keys -> Objects \cup {NoUser}]
  BY StructureTypes DEF LoopEnds
<1>2. \A v \in Objects : user[v] # "winding" => user'[v] = user[v]
  BY <1>1
<1>3. \A but : LiveIn(users, user, but) => LiveIn(users, user', but)
  <2> SUFFICES ASSUME NEW but, LiveIn(users, user, but), NEW i \in FilledIn(users) \ but
               PROVE  user'[users[i]] = "live"
    BY DEF LiveIn
  <2>1. users[i] \in Objects /\ user[users[i]] = "live"
    BY <1>1 DEF FilledIn, LiveIn
  <2> QED
    BY <1>2, <2>1
<1>4. CASE Clean
  <2>1. PICK c \in Calls : Solo(c) /\ SoundIn(task[c], eng, users, user)
    BY <1>4 DEF RestSound
  <2>2. CASE task[c] = Idle
    <3>1. BaseIn(eng, users, user')
      BY <1>3, <2>1, <2>2 DEF SoundIn, BaseIn
    <3> QED
      BY <1>1, <2>1, <2>2, <3>1 DEF RestSound, SoundIn, Solo, Free
  <2>3. CASE task[c] # Idle
    <3>1. task[c] \in Task /\ Fits(task[c], users, user, excuse.collided)
      BY <2>3, BusyTask DEF Free
    <3>2. AloneIn(task[c], eng, users, user)
      BY <2>1, <2>3 DEF SoundIn
    <3>3. task[c].pc = "opening" => user'[task[c].user] = user[task[c].user]
      BY <1>2, <3>1, <3>2 DEF Fits, AloneIn
    <3>4. AloneIn(task[c], eng, users, user')
      BY <1>3, <3>2, <3>3 DEF AloneIn, BaseIn
    <3>5. SoundIn(task'[c], eng', users', user')
      BY <1>1, <2>3, <3>4 DEF SoundIn
    <3>6. Solo(c)'
      BY <1>1, <2>1 DEF Solo, Free
    <3> QED
      BY <3>5, <3>6 DEF RestSound
  <2> QED
    BY <2>2, <2>3
<1>5. CASE ~Clean
  BY <1>1, <1>5 DEF RestSound, Clean
<1> QED
  BY <1>4, <1>5

LEMMA StepKeepsRest ==
  ASSUME EngineAssumption, Structure, RestSound, [Next]_vars
  PROVE  RestSound'
<1>1. ASSUME NEW c \in Calls, Exit(c)
      PROVE  RestSound'
  BY <1>1, StructureTypes, StartRests DEF Exit, StartAgain
<1>2. ASSUME NEW c \in Calls, Step(c)
      PROVE  RestSound'
  BY <1>1, <1>2, BeginRests, ProbedRests, OpenContextRests, OpenPageRests, AwakeRests, StoppedRests,
     AskedRests, ProbesRest DEF Step
<1>3. CASE UNCHANGED <<eng, users, user, task, excuse>>
  BY <1>3 DEF RestSound, Clean, Solo, Free
<1> QED
  BY <1>2, <1>3, CallsRest, LoopEndsRests DEF Next, Flip, vars

-----------------------------------------------------------------------------
(* The theorems *)

EngineInductive == Structure /\ PauseSound /\ PausedSound /\ RestSound

THEOREM EngineIsInductive == Spec => []EngineInductive
<1>1. Init => EngineInductive
  <2> SUFFICES ASSUME Init PROVE EngineInductive
    OBVIOUS
  <2>1. excuse = NoExcuse /\ users = [k \in Keys |-> NoUser]
    BY DEF Init
  <2>2. PauseSound
    BY <2>1 DEF PauseSound, Held, NoExcuse
  <2>3. PausedSound
    BY <2>1 DEF PausedSound, Filled
  <2> QED
    BY <2>2, <2>3, EngineAssumption, InitStructure, InitRests DEF EngineInductive
<1>2. EngineInductive /\ [Next]_vars => EngineInductive'
  BY EngineAssumption, StepKeepsStructure, StepKeepsPause, StepCovers, StepKeepsRest
  DEF EngineInductive
<1> QED
  BY <1>1, <1>2, PTL DEF Spec

(* A user whose browser context is open is in the map that pauses, ramps   *)
(* and metrics go by, however calls overlap; those that an occupied index  *)
(* took out of it are the only exception.                                  *)
THEOREM NoUserIsLost == Spec => []NoUserEscapes
<1>1. EngineInductive => NoUserEscapes
  BY DEF EngineInductive, Structure
<1> QED
  BY <1>1, EngineIsInductive, PTL

(* A pause of the operator, or of the leader on the pods that follow it,   *)
(* lasts until that one resumes, whatever the probe loop, the monitor,     *)
(* ramps that fail and calls that were in flight do; unless one of those   *)
(* was about to resume, leaves the mark of a target that is down, or the   *)
(* process starts again.                                                   *)
THEOREM PausesHold == Spec => []PauseHolds
<1>1. EngineInductive => PauseHolds
  BY DEF EngineInductive, PauseSound, PauseHolds, Held, Hushed
<1> QED
  BY <1>1, EngineIsInductive, PTL

(* An engine at rest is what it says.  Paused, it has no users, however    *)
(* its calls overlapped, unless a ramp, a resume or the start has failed   *)
(* and paused it; running, it has the users it was asked for, unless since *)
(* the last pause calls have overlapped or a ramp has given up.            *)
THEOREM RestIsAtTarget == Spec => []RestsAtTarget
<1>1. EngineInductive => RestsAtTarget
  <2> SUFFICES ASSUME EngineInductive, Resting, eng.timers
               PROVE  IF eng.paused THEN Filled = {} \/ excuse.kept
                      ELSE \/ /\ Size = eng.target /\ eng.phase = "running"
                              /\ \A k \in Filled : user[users[k]] = "live"
                           \/ excuse.muddled
    BY DEF RestsAtTarget
  <2>1. CASE eng.paused
    BY <2>1 DEF EngineInductive, PausedSound, Covered, Resting, At
  <2>2. CASE ~eng.paused /\ ~excuse.muddled
    <3>1. PICK c \in Calls : SoundIn(task[c], eng, users, user)
      BY <2>2 DEF EngineInductive, RestSound, Clean
    <3>2. BaseIn(eng, users, user)
      BY <3>1 DEF SoundIn, Resting, Free
    <3>3. FilledIn(users) = Filled /\ Size = Cardinality(Filled)
      BY EngineAssumption, FilledFacts
    <3> QED
      BY <2>2, <3>2, <3>3 DEF BaseIn, LiveIn
  <2> QED
    BY <2>1, <2>2
<1> QED
  BY <1>1, EngineIsInductive, PTL

-----------------------------------------------------------------------------
(* The configurations of the pods.                                         *)

(* The targets that can come up.                                           *)
Urls ==
  Locals \cup {Service(app) : app \in Apps} \cup {t.url : t \in Targets}
    \cup {b.url : b \in {o \in Bodies : "url" \in DOMAIN o}}

Config ==
  [count : Int, shards : Int, app : Apps, url : Urls, left : BOOLEAN, mix : [Profiles -> Int]]
Change == [url : Urls, awaited : BOOLEAN]

ControlTypeOK ==
  /\ cfg \in [Pods -> Config]
  /\ pending \in [Pods -> SUBSET Change]
  /\ seen \in [Pods -> SUBSET Config]

Sound(c) == Valid(c) \/ c.left

ControlInductive ==
  /\ ControlTypeOK
  /\ \A p \in Pods : Sound(cfg[p]) /\ \A c \in seen[p] : Sound(c)

-----------------------------------------------------------------------------
(* The operators on configurations.                                        *)

(* A configuration is its fields.                                          *)
LEMMA FieldsMake ==
  ASSUME NEW d, DOMAIN d = {"count", "shards", "app", "url", "left", "mix"},
         d = [f \in DOMAIN d |-> d[f]],
         d.count \in Int, d.shards \in Int, d.app \in Apps, d.url \in Urls,
         d.left \in BOOLEAN, d.mix \in [Profiles -> Int]
  PROVE  d \in Config
<1>1. d = [count |-> d.count, shards |-> d.shards, app |-> d.app, url |-> d.url,
           left |-> d.left, mix |-> d.mix]
  OBVIOUS
<1> QED
  BY <1>1 DEF Config

(* Laying a body over a configuration changes the fields it names.         *)
LEMMA OverIsConfig ==
  ASSUME NEW c \in Config, NEW b, IsBody(b), "url" \in DOMAIN b => b.url \in Urls
  PROVE  Over(c, b) \in Config /\ Over(c, b).left = c.left
<1> DEFINE d == Over(c, b)
<1>1. /\ DOMAIN d = {"count", "shards", "app", "url", "left", "mix"}
      /\ d = [f \in DOMAIN d |-> d[f]]
  BY DEF Over, Config
<1>2. /\ d.count \in Int /\ d.shards \in Int /\ d.app \in Apps /\ d.url \in Urls
      /\ d.left = c.left
  BY DEF Over, Laid, IsBody, Config
<1>3. d.mix \in [Profiles -> Int]
  <2>1. c.mix \in [Profiles -> Int]
    BY DEF Config
  <2>2. d.mix = IF "mix" \in DOMAIN b THEN Laid(c.mix, b.mix) ELSE c.mix
    BY DEF Over, Laid, Config
  <2>3. ASSUME "mix" \in DOMAIN b
        PROVE  Laid(c.mix, b.mix) \in [Profiles -> Int]
    BY <2>1, <2>3 DEF Laid, IsBody
  <2> QED
    BY <2>1, <2>2, <2>3
<1>4. c.left \in BOOLEAN
  BY DEF Config
<1> HIDE DEF d
<1>5. d \in Config
  BY <1>1, <1>2, <1>3, <1>4, FieldsMake
<1> QED
  BY <1>2, <1>5 DEF d

(* Laying one configuration over another gives the one on top.             *)
LEMMA OverAll ==
  ASSUME NEW c \in Config, NEW d \in Config
  PROVE  Over(c, d) = d
<1>1. Laid(c.mix, d.mix) = d.mix
  <2>1. c.mix \in [Profiles -> Int] /\ d.mix \in [Profiles -> Int]
    BY DEF Config
  <2> QED
    BY <2>1 DEF Laid
<1>2. /\ DOMAIN c = {"count", "shards", "app", "url", "left", "mix"} /\ DOMAIN d = DOMAIN c
      /\ d = [f \in DOMAIN c |-> d[f]]
  BY DEF Config
<1>3. \A f \in DOMAIN c : Over(c, d)[f] = d[f]
  BY <1>1, <1>2 DEF Over, Laid
<1> QED
  BY <1>2, <1>3 DEF Over

(* A target that is resolved can be reached, whatever it was, and the rest *)
(* stays.                                                                  *)
LEMMA ResolvedIs ==
  ASSUME NEW c \in Config
  PROVE  /\ Resolved(c) \in Config
         /\ Resolved(c).count = c.count /\ Resolved(c).shards = c.shards
         /\ Resolved(c).mix = c.mix /\ Resolved(c).left = c.left
         /\ InCluster => Resolved(c).url \notin Locals
<1>1. Service(c.app) \in Urls /\ Service(c.app) \notin Locals
  BY DEF Service, Locals, Urls, Config
<1>2. Coerced(c.url, c.app) \in Urls /\ (InCluster => Coerced(c.url, c.app) \notin Locals)
  BY <1>1 DEF Coerced, Config
<1> QED
  BY <1>2 DEF Resolved, Config

LEMMA NormalIs ==
  ASSUME NEW c \in Config
  PROVE  /\ Normal(c) \in Config
         /\ Normal(c).url = c.url /\ Normal(c).shards = c.shards /\ Normal(c).mix = c.mix
         /\ Normal(c).left = c.left
         /\ Normal(c).count = IF c.count < 1 THEN 1 ELSE c.count
BY DEF Normal, Config

LEMMA DefaultIs == Default \in Config /\ N \in Int /\ Valid(Booted(Default))
<1>1. N \in Int /\ 1 <= N /\ N <= 10
  BY ControlAssumption DEF Default
<1>2. DOMAIN Default = {"count", "shards", "app", "url", "left", "mix"}
      /\ Default = [f \in DOMAIN Default |-> Default[f]]
  BY DEF Default
<1>3. /\ Default.count = 10 /\ Default.shards = N /\ Default.app \in Apps
      /\ Default.url \in Urls /\ Default.left = FALSE
  BY DEF Default, Apps, Urls, Locals
<1>4. Default.mix \in [Profiles -> Int] /\ Sum(Default.mix) = 100
  BY DEF Default, Profiles, Sum
<1> HIDE DEF Default
<1>5. Default \in Config
  <2>1. Default.count \in Int /\ Default.shards \in Int
    BY <1>1, <1>3
  <2>2. Default.left \in BOOLEAN
    BY <1>3
  <2> QED
    BY <1>2, <1>3, <1>4, <2>1, <2>2, FieldsMake
<1>6. Valid(Booted(Default))
  BY <1>1, <1>3, <1>4, <1>5, NormalIs, ResolvedIs DEF Booted, Valid
<1> QED
  BY <1>1, <1>5, <1>6

(* What is valid stays so when its target is resolved; and what was        *)
(* normalised to be valid has the users that were asked for.               *)
LEMMA ValidResolves ==
  ASSUME NEW c \in Config, NEW d \in Config, Sound(c),
         d.count = c.count, d.shards = c.shards, d.mix = c.mix, d.left = c.left
  PROVE  Sound(Resolved(d))
BY ResolvedIs DEF Sound, Valid

LEMMA OverlaysAreBodies ==
  ASSUME NEW s \in DOMAIN Overlay
  PROVE  IsBody(Overlay[s]) /\ ("url" \in DOMAIN Overlay[s] => Overlay[s].url \in Urls)
<1>1. CASE s \in {"cms", "canvas"}
  <2>1. /\ DOMAIN Overlay[s] = {"app", "url", "mix"}
        /\ Overlay[s].app \in Apps /\ Overlay[s].url \in Urls
    BY <1>1 DEF Overlay, Apps, Urls, Locals
  <2>2. /\ DOMAIN Overlay[s].mix = Profiles
        /\ \A f \in DOMAIN Overlay[s].mix : Overlay[s].mix[f] \in Int
    BY <1>1 DEF Overlay, Profiles
  <2> QED
    BY <2>1, <2>2 DEF IsBody
<1>2. CASE s \in {"stress", "chaos", "connection_churn"}
  BY <1>2 DEF Overlay, IsBody, Profiles
<1>3. CASE s \in {"smoke", "write_storm"}
  BY <1>3 DEF Overlay, IsBody, Profiles, Drawing
<1>4. CASE s \in {"fanout_storm", "navigation_storm", "media_storm"}
  BY <1>4 DEF Overlay, IsBody, Profiles, Drawing
<1>5. CASE s = "large_board"
  BY <1>5 DEF Overlay, IsBody, Profiles
<1>6. s \in {"cms", "canvas", "stress", "chaos", "connection_churn", "smoke", "write_storm",
             "fanout_storm", "navigation_storm", "media_storm", "large_board"}
  BY DEF Overlay
<1> QED
  BY <1>1, <1>2, <1>3, <1>4, <1>5, <1>6

(* Laying a scenario or a body over the configuration of a pod.            *)
LEMMA MergedIs ==
  ASSUME NEW c \in Config, NEW b, IsBody(b), "url" \in DOMAIN b => b.url \in Urls
  PROVE  Booted(Over(c, b)) \in Config
BY OverIsConfig, NormalIs, ResolvedIs DEF Booted

LEMMA ChangesAre ==
  ASSUME NEW c \in Config, NEW w \in BOOLEAN
  PROVE  [url |-> c.url, awaited |-> w] \in Change
BY DEF Config, Change

-----------------------------------------------------------------------------
(* The steps.                                                              *)

LEMMA InitSound == ControlInit => ControlInductive
<1> SUFFICES ASSUME ControlInit PROVE ControlInductive
  OBVIOUS
<1>1. Booted(Default) \in Config
  BY DefaultIs, NormalIs, ResolvedIs DEF Booted
<1>2. \A p \in Pods : cfg[p] = Booted(Default) /\ pending[p] = {} /\ seen[p] = {}
  BY DEF ControlInit
<1>3. ControlTypeOK
  BY <1>1 DEF ControlInit, ControlTypeOK
<1> QED
  BY <1>2, <1>3, DefaultIs DEF ControlInductive, Sound

(* A pod takes a sound configuration, and perhaps a target to wait for.    *)
LEMMA TakesSound ==
  ASSUME ControlInductive, NEW p \in Pods, NEW c \in Config, Sound(c), NEW anew \in BOOLEAN,
         Has(p, c, anew), pending' \in [Pods -> SUBSET Change],
         seen' \in [Pods -> SUBSET Config], \A q \in Pods : seen'[q] \subseteq seen[q]
  PROVE  ControlInductive'
<1>1. cfg \in [Pods -> Config] /\ cfg' = [cfg EXCEPT ![p] = c]
  BY DEF Has, ControlInductive, ControlTypeOK
<1>2. cfg' \in [Pods -> Config] /\ \A q \in Pods : cfg'[q] = IF q = p THEN c ELSE cfg[q]
  BY <1>1
<1>3. \A q \in Pods : Sound(cfg'[q])
  BY <1>2 DEF ControlInductive
<1>4. \A q \in Pods : \A d \in seen'[q] : Sound(d)
  BY DEF ControlInductive
<1> QED
  BY <1>2, <1>3, <1>4 DEF ControlInductive, ControlTypeOK

LEMMA RetargetIs ==
  ASSUME ControlTypeOK, NEW p \in Pods, NEW u \in Urls, NEW w \in BOOLEAN, QueueTarget(p, u, w)
  PROVE  pending' \in [Pods -> SUBSET Change]
BY DEF QueueTarget, ControlTypeOK, Change

(* A merge whose result is sound.                                          *)
LEMMA MergeSound ==
  ASSUME ControlInductive, NEW p \in Pods, NEW b, Merge(p, b),
         Normal(Over(cfg[p], b)) \in Config, Sound(Resolved(Normal(Over(cfg[p], b)))),
         seen' \in [Pods -> SUBSET Config], \A q \in Pods : seen'[q] \subseteq seen[q]
  PROVE  ControlInductive'
<1> DEFINE c == Resolved(Normal(Over(cfg[p], b)))
           anew == {"count", "shards"} \cap DOMAIN b # {}
<1>1. c \in Config /\ anew \in BOOLEAN /\ Sound(c)
  BY ResolvedIs
<1>2. ControlTypeOK
  BY DEF ControlInductive
<1>3. \/ Has(p, c, FALSE) /\ QueueTarget(p, c.url, FALSE)
      \/ Has(p, c, anew) /\ UNCHANGED pending
  BY DEF Merge
<1> HIDE DEF c, anew
<1>4. c.url \in Urls
  BY <1>1 DEF Config
<1>5. CASE Has(p, c, FALSE) /\ QueueTarget(p, c.url, FALSE)
  <2>1. pending' \in [Pods -> SUBSET Change]
    BY <1>2, <1>4, <1>5, RetargetIs
  <2> QED
    BY <1>1, <1>5, <2>1, TakesSound
<1>6. CASE Has(p, c, anew) /\ UNCHANGED pending
  <2>1. pending' \in [Pods -> SUBSET Change]
    BY <1>2, <1>6 DEF ControlTypeOK
  <2> QED
    BY <1>1, <1>6, <2>1, TakesSound
<1> QED
  BY <1>3, <1>5, <1>6

LEMMA LeaderIsPod == Leader \in Pods
BY ControlAssumption DEF Leader, Pods, Default

(* What the validation of a PUT has seen is what the merge makes, up to    *)
(* the target that is resolved.                                            *)
LEMMA PutConfigKeeps ==
  ASSUME ControlInductive, NEW body \in Bodies, PutConfig(body)
  PROVE  ControlInductive'
<1> DEFINE b == [f \in DOMAIN body \cup {"left"} |-> IF f = "left" THEN FALSE ELSE body[f]]
           c == cfg[Leader]
           d == Normal(Over(c, body))
           n == Normal(Over(c, b))
<1>1. c \in Config /\ IsBody(body) /\ ("url" \in DOMAIN body => body.url \in Urls)
  BY LeaderIsPod, ControlAssumption DEF ControlInductive, ControlTypeOK, Urls
<1>2. Over(c, b) = [Over(c, body) EXCEPT !.left = FALSE] /\ Over(c, body) \in Config
  <2>1. Over(c, body) \in Config
    BY <1>1, OverIsConfig
  <2>2. DOMAIN c = {"count", "shards", "app", "url", "left", "mix"}
    BY <1>1 DEF Config
  <2>3. "left" \notin DOMAIN body /\ \A f \in DOMAIN body : b[f] = body[f]
    BY <1>1 DEF IsBody
  <2>4. \A f \in DOMAIN c : Over(c, b)[f] = IF f = "left" THEN FALSE ELSE Over(c, body)[f]
    <3> HIDE DEF c
    <3> QED
      BY <2>2, <2>3 DEF Over, Laid
  <2>5. /\ DOMAIN Over(c, b) = DOMAIN c /\ DOMAIN Over(c, body) = DOMAIN c
        /\ Over(c, b) = [f \in DOMAIN c |-> Over(c, b)[f]]
    BY DEF Over
  <2> HIDE DEF b, c
  <2> QED
    BY <2>1, <2>2, <2>4, <2>5
<1>3. n \in Config /\ n.count = d.count /\ n.shards = d.shards /\ n.mix = d.mix /\ d \in Config
  <2>1. [Over(c, body) EXCEPT !.left = FALSE] \in Config
    BY <1>2 DEF Config
  <2> QED
    BY <1>2, <2>1, NormalIs DEF Config
<1>4. Valid(d) /\ Merge(Leader, b) /\ UNCHANGED seen
  BY DEF PutConfig, Accepted, Operate
<1> HIDE DEF b, d, c
<1>5. Valid(Resolved(n))
  BY <1>3, <1>4, ResolvedIs DEF Valid
<1>6. seen' \in [Pods -> SUBSET Config] /\ \A q \in Pods : seen'[q] \subseteq seen[q]
  BY <1>4 DEF ControlInductive, ControlTypeOK
<1> QED
  BY <1>3, <1>4, <1>5, <1>6, LeaderIsPod, MergeSound DEF Sound, c

LEMMA ApplyScenarioKeeps ==
  ASSUME ControlInductive, NEW s \in Scenarios, ApplyScenario(s)
  PROVE  ControlInductive'
<1> DEFINE c == Booted(Over(cfg[Leader], Overlay[s]))
           n == [c EXCEPT !.left = ~Valid(c)]
<1>1. c \in Config
  BY LeaderIsPod, ControlAssumption, OverlaysAreBodies, MergedIs DEF ControlInductive, ControlTypeOK
<1>2. /\ Has(Leader, n, TRUE)
      /\ QueueTarget(Leader, c.url, TRUE) \/ UNCHANGED pending
      /\ UNCHANGED seen
  BY DEF ApplyScenario, Operate
<1> HIDE DEF c
<1>3. n \in Config /\ Sound(n) /\ c.url \in Urls
  <2>1. n \in Config /\ n.left = ~Valid(c)
    BY <1>1 DEF Config, Valid
  <2>2. Valid(n) <=> Valid(c)
    BY <1>1 DEF Valid, Config
  <2>3. c.url \in Urls
    BY <1>1 DEF Config
  <2> QED
    BY <2>1, <2>2, <2>3 DEF Sound
<1> HIDE DEF n
<1>4. pending' \in [Pods -> SUBSET Change]
  BY <1>2, <1>3, LeaderIsPod, RetargetIs DEF ControlInductive, ControlTypeOK
<1>5. seen' \in [Pods -> SUBSET Config] /\ \A q \in Pods : seen'[q] \subseteq seen[q]
  BY <1>2 DEF ControlInductive, ControlTypeOK
<1> QED
  BY <1>2, <1>3, <1>4, <1>5, LeaderIsPod, TakesSound

LEMMA ApplyRumBatchPresetKeeps ==
  ASSUME ControlInductive, ApplyRumBatchPreset
  PROVE  ControlInductive'
<1> DEFINE c == cfg[Leader]
           n == [c EXCEPT !.count = Suggested]
<1>1. c \in Config /\ Sound(c) /\ Suggested \in Int
  BY LeaderIsPod, ControlAssumption DEF ControlInductive, ControlTypeOK
<1>2. Has(Leader, n, TRUE) /\ c.count < Suggested /\ UNCHANGED <<pending, seen>>
  BY DEF ApplyRumBatchPreset, Operate
<1> HIDE DEF c
<1>3. n \in Config /\ Sound(n)
  BY <1>1, <1>2 DEF Config, Sound, Valid
<1> HIDE DEF n
<1>4. /\ pending' \in [Pods -> SUBSET Change] /\ seen' \in [Pods -> SUBSET Config]
      /\ \A q \in Pods : seen'[q] \subseteq seen[q]
  BY <1>2 DEF ControlInductive, ControlTypeOK
<1> QED
  BY <1>2, <1>3, <1>4, LeaderIsPod, TakesSound

LEMMA ReloadTargetKeeps ==
  ASSUME ControlInductive, NEW t \in Targets, ReloadTarget(t)
  PROVE  ControlInductive'
<1> DEFINE c == cfg[Leader]
           n == [c EXCEPT !.app = t.app]
<1>1. c \in Config /\ Sound(c) /\ t.app \in Apps /\ t.url \in Urls
  BY LeaderIsPod, ControlAssumption DEF ControlInductive, ControlTypeOK, Urls
<1>2. Has(Leader, n, FALSE) /\ QueueTarget(Leader, Coerced(t.url, t.app), TRUE) /\ UNCHANGED seen
  BY DEF ReloadTarget, Operate
<1>3. Coerced(t.url, t.app) \in Urls
  BY <1>1 DEF Coerced, Urls
<1> HIDE DEF c
<1>4. n \in Config /\ Sound(n)
  BY <1>1 DEF Config, Sound, Valid
<1> HIDE DEF n
<1>5. pending' \in [Pods -> SUBSET Change]
  BY <1>2, <1>3, LeaderIsPod, RetargetIs DEF ControlInductive
<1>6. seen' \in [Pods -> SUBSET Config] /\ \A q \in Pods : seen'[q] \subseteq seen[q]
  BY <1>2 DEF ControlInductive, ControlTypeOK
<1> QED
  BY <1>2, <1>4, <1>5, <1>6, LeaderIsPod, TakesSound

LEMMA BootKeeps ==
  ASSUME ControlInductive, NEW p \in Pods, Boot(p)
  PROVE  ControlInductive'
<1>1. Booted(Default) \in Config /\ Sound(Booted(Default))
  BY DefaultIs, NormalIs, ResolvedIs DEF Booted, Sound
<1>2. /\ pending' \in [Pods -> SUBSET Change] /\ seen' \in [Pods -> SUBSET Config]
      /\ \A q \in Pods : seen'[q] \subseteq seen[q]
  BY DEF Boot, ControlInductive, ControlTypeOK
<1>3. Has(p, Booted(Default), TRUE)
  BY DEF Boot
<1> QED
  BY <1>1, <1>2, <1>3, TakesSound

LEMMA RetargetedKeeps ==
  ASSUME ControlInductive, NEW p \in Pods, NEW r \in pending[p], Retargeted(p, r)
  PROVE  ControlInductive'
<1> DEFINE d == [cfg[p] EXCEPT !.url = r.url]
           c == Resolved(d)
<1>1. cfg[p] \in Config /\ Sound(cfg[p]) /\ r.url \in Urls
  BY DEF ControlInductive, ControlTypeOK, Change
<1>2. /\ d \in Config /\ d.count = cfg[p].count /\ d.shards = cfg[p].shards
      /\ d.mix = cfg[p].mix /\ d.left = cfg[p].left
  BY <1>1 DEF Config
<1>3. \/ Has(p, c, FALSE) /\ pending' = [pending EXCEPT ![p] = @ \ {r}] /\ UNCHANGED seen
      \/ Boot(p)
  BY DEF Retargeted
<1> HIDE DEF d
<1>4. c \in Config /\ Sound(c)
  BY <1>1, <1>2, ResolvedIs, ValidResolves
<1> HIDE DEF c
<1>5. CASE Has(p, c, FALSE) /\ pending' = [pending EXCEPT ![p] = @ \ {r}] /\ UNCHANGED seen
  <2>1. /\ pending' \in [Pods -> SUBSET Change] /\ seen' \in [Pods -> SUBSET Config]
        /\ \A q \in Pods : seen'[q] \subseteq seen[q]
    BY <1>5 DEF ControlInductive, ControlTypeOK
  <2> QED
    BY <1>4, <1>5, <2>1, TakesSound
<1> QED
  BY <1>3, <1>5, BootKeeps

LEMMA FetchKeeps ==
  ASSUME ControlInductive, NEW p \in Pods, Fetch(p)
  PROVE  ControlInductive'
<1>1. cfg[Leader] \in Config /\ Sound(cfg[Leader])
  BY LeaderIsPod DEF ControlInductive, ControlTypeOK
<1>2. UNCHANGED <<cfg, pending>> /\ seen' = [seen EXCEPT ![p] = @ \cup {cfg[Leader]}]
  BY DEF Fetch
<1>3. seen' \in [Pods -> SUBSET Config]
  BY <1>1, <1>2 DEF ControlInductive, ControlTypeOK
<1>4. \A q \in Pods : \A d \in seen'[q] : d \in seen[q] \/ d = cfg[Leader]
  BY <1>2 DEF ControlInductive, ControlTypeOK
<1> QED
  BY <1>1, <1>2, <1>3, <1>4 DEF ControlInductive, ControlTypeOK

(* What has been fetched replaces what there is.                           *)
LEMMA MergeSeenKeeps ==
  ASSUME ControlInductive, NEW p \in Pods, NEW c \in seen[p], MergeSeen(p, c)
  PROVE  ControlInductive'
<1>1. c \in Config /\ Sound(c) /\ cfg[p] \in Config
  BY DEF ControlInductive, ControlTypeOK
<1>2. Over(cfg[p], c) = c
  BY <1>1, OverAll
<1>3. Normal(c) \in Config /\ Sound(Resolved(Normal(c)))
  BY <1>1, NormalIs, ResolvedIs DEF Sound, Valid, Config
<1>4. Merge(p, c) /\ seen' = [seen EXCEPT ![p] = @ \ {c}]
  BY DEF MergeSeen
<1>5. seen' \in [Pods -> SUBSET Config] /\ \A q \in Pods : seen'[q] \subseteq seen[q]
  BY <1>4 DEF ControlInductive, ControlTypeOK
<1> QED
  BY <1>2, <1>3, <1>4, <1>5, MergeSound

(* A configuration in force passes the validation that guards PUT, but     *)
(* where a scenario was laid over what it does not know of.                *)
THEOREM ConfigsStayValid == ControlSpec => []ConfigsAreValid
<1>1. ControlInductive /\ [ControlNext]_controlVars => ControlInductive'
  <2> SUFFICES ASSUME ControlInductive, [ControlNext]_controlVars PROVE ControlInductive'
    OBVIOUS
  <2>1. ASSUME NEW body \in Bodies, PutConfig(body) PROVE ControlInductive'
    BY <2>1, PutConfigKeeps
  <2>2. ASSUME NEW s \in Scenarios, ApplyScenario(s) PROVE ControlInductive'
    BY <2>2, ApplyScenarioKeeps
  <2>3. CASE ApplyRumBatchPreset
    BY <2>3, ApplyRumBatchPresetKeeps
  <2>4. ASSUME NEW t \in Targets, ReloadTarget(t) PROVE ControlInductive'
    BY <2>4, ReloadTargetKeeps
  <2>5. ASSUME NEW p \in Pods, NEW r \in pending[p], Retargeted(p, r) PROVE ControlInductive'
    BY <2>5, RetargetedKeeps
  <2>6. ASSUME NEW p \in Pods, Restart(p) PROVE ControlInductive'
    BY <2>6, BootKeeps DEF Restart
  <2>7. ASSUME NEW p \in Pods, Fetch(p) PROVE ControlInductive'
    BY <2>7, FetchKeeps
  <2>8. ASSUME NEW p \in Pods, NEW c \in seen[p], MergeSeen(p, c) PROVE ControlInductive'
    BY <2>8, MergeSeenKeeps
  <2>9. CASE UNCHANGED controlVars
    BY <2>9 DEF ControlInductive, ControlTypeOK, controlVars
  <2> QED
    BY <2>1, <2>2, <2>3, <2>4, <2>5, <2>6, <2>7, <2>8, <2>9 DEF ControlNext
<1>2. ControlInductive => ConfigsAreValid
  BY DEF ControlInductive, ConfigsAreValid, Sound
<1> QED
  BY InitSound, <1>1, <1>2, PTL DEF ControlSpec

-----------------------------------------------------------------------------
(* The users that the pods share.                                          *)

(* A number is so many times another, and a rest.                          *)
LEMMA Quotient ==
  ASSUME NEW x \in Nat, NEW b \in Nat \ {0}
  PROVE  x \div b \in Nat /\ b * (x \div b) <= x /\ x < b * (x \div b) + b
<1>1. x \div b \in Int
  OBVIOUS
<1>2. x % b \in 0 .. b - 1
  OBVIOUS
<1>3. x = b * (x \div b) + (x % b)
  OBVIOUS
<1>4. PICK q \in Int : q = x \div b
  BY <1>1
<1>5. PICK r \in 0 .. b - 1 : r = x % b
  BY <1>2
<1>6. x = b * q + r
  BY <1>3, <1>4, <1>5
<1>7. q >= 0
  <2>1. SUFFICES ASSUME q <= -1 PROVE FALSE
    BY <1>4
  <2>2. b * q <= -b
    BY <2>1
  <2> QED
    BY <1>6, <2>2
<1> QED
  BY <1>4, <1>6, <1>7

(* Blocks of b numbers follow each other.                                  *)
LEMMA BlocksFollow ==
  ASSUME NEW p \in Nat, NEW q \in Nat, NEW b \in Nat, p < q
  PROVE  p * b \in Nat /\ p * b + b <= q * b
<1>1. PICK d \in Nat : q = p + 1 + d
  BY q - p - 1 \in Nat
<1>2. q * b = p * b + b + d * b
  BY <1>1
<1>3. p * b \in Nat /\ d * b \in Nat
  OBVIOUS
<1> QED
  BY <1>2, <1>3

(* Pods that have the leader's configuration and have planned by it share  *)
(* its users: a user is run by one pod, and none is left out, however many *)
(* pods there are and however the shares are rounded (buildUserShardPlan). *)
THEOREM SharesAreFair ==
  ASSUME cfg[Leader].count \in Nat \ {0},
         \A p \in Pods : cfg[p] = cfg[Leader] /\ plan[p] = PlanFor(p, cfg[p])
  PROVE  UsersAreShared
<1> DEFINE k == cfg[Leader].count
           b == (k + N - 1) \div N
<1>1. SUFFICES ASSUME cfg[Leader].shards = N, (N - 1) * b <= k
               PROVE  /\ UNION {Mine(p) : p \in Pods} = 0 .. k - 1
                      /\ \A p, q \in Pods : p # q => Mine(p) \cap Mine(q) = {}
  BY DEF UsersAreShared
<1>2. k \in Nat \ {0} /\ N \in Nat \ {0}
  BY ControlAssumption DEF Default
<1>3. b \in Nat /\ N * b <= k + N - 1 /\ k + N - 1 < N * b + N
  <2>1. k + N - 1 \in Nat
    BY <1>2
  <2> QED
    BY <1>2, <2>1, Quotient
<1>4. \A p \in Pods : p \in Nat /\ p < N
  BY <1>2 DEF Pods
<1>5. ASSUME NEW p \in Pods
      PROVE  /\ plan[p].offset = p * b
             /\ plan[p].local = IF p = N - 1 THEN IF k > p * b THEN k - p * b ELSE 0 ELSE b
  <2>1. p \in Nat /\ p < N
    BY <1>4
  <2>2. Index(p, cfg[p]) = p
    BY <1>1, <2>1 DEF Index
  <2>3. plan[p] = PlanFor(p, cfg[p]) /\ cfg[p] = cfg[Leader]
    OBVIOUS
  <2> QED
    BY <1>1, <1>2, <2>1, <2>2, <2>3 DEF PlanFor
<1> HIDE DEF k, b
<1>6. b # 0
  BY <1>2, <1>3
<1>7. ASSUME NEW p \in Pods, p < N - 1
      PROVE  Mine(p) = p * b .. p * b + b - 1
  BY <1>4, <1>5, <1>7 DEF Mine
<1>8. ASSUME NEW p \in Pods, p = N - 1
      PROVE  Mine(p) = p * b .. k - 1
  <2>1. p * b <= k /\ p * b \in Nat
    BY <1>1, <1>2, <1>3, <1>8
  <2>2. plan[p].offset = p * b /\ plan[p].local = k - p * b
    BY <1>2, <1>5, <1>8, <2>1
  <2> QED
    BY <1>2, <2>1, <2>2 DEF Mine
<1>9. ASSUME NEW p \in Pods, NEW q \in Pods, p < q, NEW x \in Mine(p) \cap Mine(q)
      PROVE  FALSE
  <2>1. p \in Nat /\ q \in Nat /\ p < N - 1
    BY <1>2, <1>4, <1>9
  <2>2. p * b \in Nat /\ q * b \in Nat /\ p * b + b <= q * b
    BY <1>3, <1>9, <2>1, BlocksFollow
  <2>3. x \in Int /\ x < p * b + b
    BY <1>3, <1>7, <2>1, <2>2
  <2>4. x >= q * b
    <3>1. CASE q < N - 1
      BY <1>3, <1>7, <2>2, <3>1
    <3>2. CASE q = N - 1
      BY <1>2, <1>8, <2>2, <3>2
    <3> QED
      BY <1>2, <1>4, <3>1, <3>2
  <2> QED
    BY <1>3, <2>2, <2>3, <2>4
<1>10. \A p, q \in Pods : p # q => Mine(p) \cap Mine(q) = {}
  <2>1. SUFFICES ASSUME NEW p \in Pods, NEW q \in Pods, p # q, NEW x \in Mine(p) \cap Mine(q)
                 PROVE  FALSE
    OBVIOUS
  <2>2. p < q \/ q < p
    BY <1>4, <2>1
  <2> QED
    BY <1>9, <2>2
<1>11. ASSUME NEW p \in Pods, NEW x \in Mine(p)
       PROVE  x \in 0 .. k - 1
  <2>1. CASE p = N - 1
    <3>1. p * b \in Nat
      BY <1>3, <1>4
    <3> QED
      BY <1>2, <1>8, <2>1, <3>1
  <2>2. CASE p < N - 1
    <3>1. p \in Nat /\ N - 1 \in Nat
      BY <1>2, <1>4
    <3>2. p * b \in Nat /\ p * b + b <= (N - 1) * b
      BY <1>3, <2>2, <3>1, BlocksFollow
    <3>3. x \in Int /\ p * b <= x /\ x <= p * b + b - 1
      BY <1>3, <1>7, <2>2, <3>2
    <3>4. (N - 1) * b \in Nat
      BY <1>3, <3>1
    <3> QED
      BY <1>1, <1>2, <1>3, <3>2, <3>3, <3>4
  <2> QED
    BY <1>2, <1>4, <2>1, <2>2
<1>12. ASSUME NEW x \in 0 .. k - 1
       PROVE  \E p \in Pods : x \in Mine(p)
  <2>1. PICK q \in Nat : b * q <= x /\ x < b * q + b
    <3>1. x \in Nat /\ b \in Nat \ {0}
      BY <1>2, <1>3, <1>6
    <3>2. x \div b \in Nat /\ b * (x \div b) <= x /\ x < b * (x \div b) + b
      BY <3>1, Quotient
    <3> QED
      BY <3>2
  <2>2. q * b \in Nat /\ q * b = b * q /\ N - 1 \in Nat /\ (N - 1) * b \in Nat
    BY <1>2, <1>3
  <2>3. CASE q < N - 1
    <3>1. q \in Pods
      BY <1>2, <2>3 DEF Pods
    <3> QED
      BY <1>3, <1>7, <2>1, <2>2, <2>3, <3>1
  <2>4. CASE q >= N - 1
    <3>1. N - 1 \in Pods
      BY <1>2 DEF Pods
    <3>2. (N - 1) * b <= q * b
      <4>1. CASE q = N - 1
        BY <2>2, <4>1
      <4>2. CASE N - 1 < q
        BY <1>3, <2>2, <4>2, BlocksFollow
      <4> QED
        BY <2>2, <2>4, <4>1, <4>2
    <3>3. (N - 1) * b <= x
      BY <2>1, <2>2, <3>2
    <3> QED
      BY <1>2, <1>8, <2>2, <3>1, <3>3
  <2> QED
    BY <2>2, <2>3, <2>4
<1> QED
  BY <1>10, <1>11, <1>12
=============================================================================
