----------------------------- MODULE MCCustody -----------------------------
(* Scenes of Custody for TLC: a first boot under `supervise`, an old key    *)
(* set whose API key is too narrow, two remote replicas beside each other   *)
(* and through a rollout that takes a scope away, and an operator's acts.   *)
EXTENDS Custody

CONSTANTS n1, n2, openid, read, write

MCNode == {n1, n2}
MCScope == {openid, read, write}
MCBase == {openid}
MCDeclared == <<{openid, read, write}, {openid, read}, {}>>

All == KeyFile
Sound == [secret |-> 1, sound |-> TRUE, extra |-> FALSE, lifetime |-> 1]

Scene == [mode |-> "remote", nodes |-> {n1, n2}, files |-> All, rauthy |-> << >>,
          left |-> [crash |-> 0, fail |-> 0, act |-> 0], last |-> 1, acts |-> {}]

FirstBoot == [Scene EXCEPT !.mode = "supervise", !.nodes = {n1}, !.files = {}, !.last = 3,
                !.acts = {"delete", "account", "widen", "drift"},
                !.left = [crash |-> 2, fail |-> 2, act |-> 2]]
Narrow == [Scene EXCEPT !.mode = "supervise", !.nodes = {n1},
                !.rauthy = [access |-> "narrow", client |-> Sound, secrets |-> 1],
                !.left = [crash |-> 2, fail |-> 1, act |-> 1], !.acts = {"account"}]
NoPasskey == [Narrow EXCEPT !.files = All \ {"passkey"}]
Pair == [Scene EXCEPT !.left = [crash |-> 1, fail |-> 1, act |-> 0]]
Rollout == [Scene EXCEPT !.last = 2, !.rauthy =
                [client |-> Sound, secrets |-> 1, scopes |-> MCScope,
                 native |-> [grants |-> {openid, read, write}, public |-> TRUE],
                 account |-> [password |-> None, passkey |-> TRUE], role |-> TRUE],
                !.left = [crash |-> 1, fail |-> 0, act |-> 1], !.acts = {"drift", "widen"}]
Replaced == [Scene EXCEPT !.rauthy =
                [client |-> Sound, secrets |-> 1, scopes |-> MCScope,
                 native |-> [grants |-> {openid, read, write}, public |-> TRUE]],
                !.left = [crash |-> 1, fail |-> 0, act |-> 1], !.acts = {"delete"}]

MCScenes == {FirstBoot, Narrow, NoPasskey, Pair, Rollout, Replaced}

MCStrandScene == {[Pair EXCEPT !.left = [crash |-> 1, fail |-> 0, act |-> 0]]}
============================================================================
