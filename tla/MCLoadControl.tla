--------------------------- MODULE MCLoadControl ---------------------------
(* A leader and a follower in a cluster: see MCLoadControl.cfg for the bounds. *)
EXTENDS LoadControl

MCBodies == {[count |-> 20, url |-> "elsewhere"], [shards |-> 1], [shards |-> 3],
             [mix |-> [drawing |-> 60, complex |-> 40, text |-> 0, cms |-> 0]]}
MCTargets == {[url |-> "elsewhere", app |-> "canvas"], [url |-> "localhost", app |-> "cms"]}
=============================================================================
