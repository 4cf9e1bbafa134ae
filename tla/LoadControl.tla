---------------------------- MODULE LoadControl ----------------------------
(***************************************************************************)
(* The control plane of the load generator: one configuration per pod.     *)
(* The operator changes the leader's, pod 0, with PUT config, scenarios,   *)
(* RUM presets and reload-target; every few seconds the other pods fetch   *)
(* it and merge it into theirs.  Each pod plans from its own which of the  *)
(* users are its to run.                                                   *)
(*                                                                         *)
(* A change of target waits for the pod's users to stop before it checks   *)
(* the configuration, which may be another by then; where nobody awaits    *)
(* it, a failed check is an unhandled rejection and the pod starts again   *)
(* from its file.  Of a configuration the model keeps what is validated    *)
(* and varies: users, shards, target, and the mix of profiles, in hundredths*)
(* and by groups that scenarios change together.  Running users are those  *)
(* of LoadEngine.                                                          *)
(***************************************************************************)
EXTENDS Integers, FiniteSets

CONSTANTS
  N,           \* pods
  InCluster,
  Bodies,      \* what the operator may PUT: records of some fields of a configuration
  Targets,     \* what it may ask to reload: [url, app]
  Scenarios,
  Suggested,   \* users of a RUM preset
  MaxOps,      \* bound: calls of the operator
  MaxRestarts  \* bound: restarts of pods from outside

Pods == 0 .. N - 1
Leader == 0

Apps == {"canvas", "cms"}
Profiles == {"drawing", "complex", "text", "cms"}

\* Some of the fields of a configuration, with values of their kinds.
IsBody(b) ==
  /\ DOMAIN b \subseteq {"count", "shards", "app", "url", "mix"}
  /\ \A f \in {"count", "shards"} \cap DOMAIN b : b[f] \in Int
  /\ "app" \in DOMAIN b => b.app \in Apps
  /\ "mix" \in DOMAIN b => /\ DOMAIN b.mix \subseteq Profiles
                           /\ \A f \in DOMAIN b.mix : b.mix[f] \in Int

VARIABLES
  cfg,      \* configuration of each pod; `left`, a history: a scenario left it invalid
  plan,     \* its UserShardPlan
  pending,  \* its changes of target that wait for a pause: [url, awaited]
  seen,     \* configurations of the leader it has fetched and not yet merged
  ops, restarts,
  skipped   \* history: the leader has changed its users and its target in one PUT

controlVars == <<cfg, plan, pending, seen, ops, restarts, skipped>>

Locals == {"localhost", "localhost/cms"}
Service(app) == IF app = "cms" THEN "cms-frontend/cms" ELSE "canvas-frontend"
Coerced(url, app) == IF InCluster /\ url \in Locals THEN Service(app) ELSE url

-----------------------------------------------------------------------------
(* Configurations *)

Sum(mix) == mix.drawing + mix.complex + mix.text + mix.cms

Valid(c) ==
  /\ InCluster => c.url \notin Locals
  /\ Sum(c.mix) = 100
  /\ c.count >= 1 /\ c.count >= c.shards

\* What a file or a body gives overrides what there is; the mix is merged profile by profile.
Laid(c, b) == [f \in DOMAIN c |-> IF f \in DOMAIN b THEN b[f] ELSE c[f]]
Over(c, body) ==
  [f \in DOMAIN c |-> IF f = "mix" /\ "mix" \in DOMAIN body THEN Laid(c.mix, body.mix)
                      ELSE Laid(c, body)[f]]

Normal(c) == [c EXCEPT !.count = IF @ < 1 THEN 1 ELSE @]
Resolved(c) == [c EXCEPT !.url = Coerced(@, c.app)]

Default == [count |-> 10, shards |-> N, app |-> "canvas", url |-> "localhost", left |-> FALSE,
            mix |-> [drawing |-> 95, complex |-> 5, text |-> 0, cms |-> 0]]

Drawing == [drawing |-> 100]
Overlay ==
  [cms |-> [app |-> "cms", url |-> "localhost/cms", mix |-> [drawing |-> 0, complex |-> 0, text |-> 0, cms |-> 100]],
   canvas |-> [app |-> "canvas", url |-> "localhost", mix |-> [drawing |-> 95, complex |-> 5, text |-> 0, cms |-> 0]],
   smoke |-> [count |-> 5, mix |-> Drawing],
   stress |-> [count |-> 100], chaos |-> [count |-> 15], connection_churn |-> [count |-> 15],
   write_storm |-> [count |-> 25, mix |-> Drawing],
   fanout_storm |-> [mix |-> Drawing], navigation_storm |-> [mix |-> Drawing], media_storm |-> [mix |-> Drawing],
   large_board |-> [count |-> 8, mix |-> [drawing |-> 10, text |-> 90]]]

\* The pod's place among c.shards, and the users that are its to run.
Index(p, c) == IF p < c.shards THEN p ELSE c.shards - 1
IsControl(p) == Index(p, cfg[p]) = 0

PlanFor(p, c) ==
  LET base == (c.count + c.shards - 1) \div c.shards
      offset == Index(p, c) * base
      rest == IF c.count > offset THEN c.count - offset ELSE 0
  IN  [total |-> c.count, offset |-> offset, local |-> IF Index(p, c) = c.shards - 1 THEN rest ELSE base]

Booted(c) == Resolved(Normal(c))

\* The file asks for ten users, who are to suffice for the pods.
ASSUME ControlAssumption ==
  /\ N \in 1 .. Default.count /\ Suggested \in Int
  /\ \A b \in Bodies : IsBody(b)
  /\ \A t \in Targets : t.app \in Apps
  /\ Scenarios \subseteq DOMAIN Overlay

ControlInit ==
  /\ cfg = [p \in Pods |-> Booted(Default)] /\ plan = [p \in Pods |-> PlanFor(p, cfg[p])]
  /\ pending = [p \in Pods |-> {}] /\ seen = [p \in Pods |-> {}]
  /\ ops = 0 /\ restarts = 0 /\ skipped = FALSE

Operate == ops < MaxOps /\ ops' = ops + 1 /\ UNCHANGED <<restarts, seen>>

\* Pod p has the configuration c, and plans by it if `anew`.
Has(p, c, anew) ==
  /\ cfg' = [cfg EXCEPT ![p] = c]
  /\ plan' = [plan EXCEPT ![p] = IF anew THEN PlanFor(p, c) ELSE @]

QueueTarget(p, url, awaited) == pending' = [pending EXCEPT ![p] = @ \cup {[url |-> url, awaited |-> awaited]}]

-----------------------------------------------------------------------------
(* The operator and the leader *)

\* mergeConfig(): a change of target returns before the users are planned anew.
Merge(p, body) ==
  LET c == Resolved(Normal(Over(cfg[p], body)))
  IN  IF "url" \in DOMAIN body /\ c.url # cfg[p].url
      THEN Has(p, c, FALSE) /\ QueueTarget(p, c.url, FALSE)
      ELSE Has(p, c, {"count", "shards"} \cap DOMAIN body # {}) /\ UNCHANGED pending

\* Fault: only the fields of the body are checked.
AcceptedAlone(body) == Valid(Normal(Over(Booted(Default), body)))

\* validateMergedConfig(): what a PUT would make is checked before it is made.
Accepted(body) == Valid(Normal(Over(cfg[Leader], body)))

PutConfig(body) ==
  /\ Operate /\ Accepted(body)
  /\ Merge(Leader, [f \in DOMAIN body \cup {"left"} |-> IF f = "left" THEN FALSE ELSE body[f]])
  /\ skipped' = (skipped \/ ("url" \in DOMAIN body /\ {"count", "shards"} \cap DOMAIN body # {}))

\* POST scenario: the overlay is merged as it is, and checked only if the target is another.
ApplyScenario(s) ==
  /\ Operate
  /\ LET c == Booted(Over(cfg[Leader], Overlay[s]))
     IN  /\ Has(Leader, [c EXCEPT !.left = ~Valid(c)], TRUE)
         /\ IF c.url # cfg[Leader].url THEN QueueTarget(Leader, c.url, TRUE) ELSE UNCHANGED pending
  /\ UNCHANGED skipped

\* POST rum/batch: the users are at least those that the preset asks for.
ApplyRumBatchPreset ==
  /\ Operate
  /\ cfg[Leader].count < Suggested /\ Has(Leader, [cfg[Leader] EXCEPT !.count = Suggested], TRUE)
  /\ UNCHANGED <<pending, skipped>>

\* POST reload-target: the app is changed at once, the target after the pause.
ReloadTarget(t) ==
  /\ Operate
  /\ Has(Leader, [cfg[Leader] EXCEPT !.app = t.app], FALSE)
  /\ QueueTarget(Leader, Coerced(t.url, t.app), TRUE)
  /\ UNCHANGED skipped

Boot(p) ==
  /\ Has(p, Booted(Default), TRUE)
  /\ pending' = [pending EXCEPT ![p] = {}] /\ seen' = [seen EXCEPT ![p] = {}]

\* reconfigureTarget(), after its pause: the target is the one that was asked for, whatever has
\* been since, and the rest of the configuration as it is by now.
Retargeted(p, r) ==
  /\ r \in pending[p]
  /\ LET c == Resolved([cfg[p] EXCEPT !.url = r.url])
     IN  IF Valid(c) \/ r.awaited
         THEN /\ Has(p, c, FALSE)
              /\ pending' = [pending EXCEPT ![p] = @ \ {r}] /\ UNCHANGED seen
         ELSE Boot(p)
  /\ UNCHANGED <<ops, restarts, skipped>>

Restart(p) ==
  /\ restarts < MaxRestarts /\ restarts' = restarts + 1
  /\ Boot(p) /\ UNCHANGED <<ops, skipped>>

-----------------------------------------------------------------------------
(* The other pods: syncFromLeader() every few seconds, unless the pod takes itself for the leader.
   Fetches may overlap. *)

Fetch(p) ==
  /\ p # Leader /\ ~IsControl(p) /\ Cardinality(seen[p] \cup {cfg[Leader]}) <= 2
  /\ seen' = [seen EXCEPT ![p] = @ \cup {cfg[Leader]}]
  /\ UNCHANGED <<cfg, plan, pending, ops, restarts, skipped>>

\* Fault: the target is not taken over.
MergeSeenWithoutTarget(p, c) ==
  /\ c \in seen[p] /\ seen' = [seen EXCEPT ![p] = @ \ {c}]
  /\ Merge(p, [f \in DOMAIN c \ {"url"} |-> c[f]])
  /\ UNCHANGED <<ops, restarts, skipped>>

MergeSeen(p, c) ==
  /\ c \in seen[p] /\ seen' = [seen EXCEPT ![p] = @ \ {c}]
  /\ Merge(p, c)
  /\ UNCHANGED <<ops, restarts, skipped>>

ControlNext ==
  \/ \E body \in Bodies : PutConfig(body)
  \/ \E s \in Scenarios : ApplyScenario(s)
  \/ ApplyRumBatchPreset
  \/ \E t \in Targets : ReloadTarget(t)
  \/ \E p \in Pods : \E r \in pending[p] : Retargeted(p, r)
  \/ \E p \in Pods : Restart(p) \/ Fetch(p) \/ \E c \in seen[p] : MergeSeen(p, c)

ControlSpec == ControlInit /\ [][ControlNext]_controlVars

\* The interval timer goes on, the leader answers, and users stop in bounded time.
FairControlSpec ==
  /\ ControlSpec
  /\ \A p \in Pods :
       /\ WF_controlVars(\E r \in pending[p] : Retargeted(p, r))
       /\ WF_controlVars(Fetch(p))
       /\ WF_controlVars(\E c \in seen[p] : MergeSeen(p, c))

-----------------------------------------------------------------------------
(* Properties *)

\* A configuration in force passes the validation that guards PUT, in whatever order calls,
\* pauses and fetches come, but where a scenario was laid over profiles or shards it does not
\* know of (see `left`).
ConfigsAreValid == \A p \in Pods : Valid(cfg[p]) \/ cfg[p].left

Mine(p) == plan[p].offset .. plan[p].offset + plan[p].local - 1

\* No two pods run a user of the same index, and together they run as many as asked for.  They
\* cannot when there are more or fewer shards than pods, when the shards before the last have more
\* room than there are users, or when the leader has not planned anew.
UsersAreShared ==
  (/\ cfg[Leader].shards = N /\ ~skipped
   /\ (N - 1) * ((cfg[Leader].count + N - 1) \div N) <= cfg[Leader].count)
     => /\ UNION {Mine(p) : p \in Pods} = 0 .. cfg[Leader].count - 1
        /\ \A p, q \in Pods : p # q => Mine(p) \cap Mine(q) = {}

\* When the operator rests, every pod comes to have the leader's configuration, and to run its own
\* share of the users: also after restarts, fetches that overlap, and targets that wait for each
\* other.  It need not when the leader's configuration is invalid, for then a pod may start again
\* and again, nor when a pod takes itself for the leader, which it never stops to do.
FollowersCatchUp ==
  <>[](/\ Valid(cfg[Leader])
       /\ \A p \in Pods \ {Leader} : ~IsControl(p)
       => UsersAreShared /\ \A p \in Pods : cfg[p] = cfg[Leader])

=============================================================================
