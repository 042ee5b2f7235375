---------------------------- MODULE BoundedBoot ----------------------------
(***************************************************************************)
(* What a unit promises of its boots, with nothing of how it keeps count:  *)
(* it makes at most MaxStrikes attempts in a row without a healthy boot,   *)
(* then only rescue until someone asks for a retry; and an image on trial  *)
(* is run at most MaxTrials times before it has been healthy once.         *)
(* DotBoot implements it, with a count in MISC, a store that loses writes  *)
(* and processes that stop anywhere.                                       *)
(***************************************************************************)
EXTENDS Naturals

CONSTANTS Roots, Nothing, MaxStrikes, MaxTrials

VARIABLES
  mode,      \* "off", "starting", "running" or "rescue"
  root,      \* the root that runs, or Nothing
  attempts,  \* attempts since a healthy boot or a retry
  runs       \* runs of each root's image since it went on trial

bbvars == <<mode, root, attempts, runs>>

Init ==
  /\ mode = "off"
  /\ root = Nothing
  /\ attempts = 0
  /\ runs = [r \in Roots |-> 0]

Attempt ==
  /\ mode = "off"
  /\ attempts < MaxStrikes
  /\ mode' = "starting"
  /\ attempts' = attempts + 1
  /\ UNCHANGED <<root, runs>>

\* A run of an image on trial, or of one that has proved itself.
Run(r) ==
  /\ mode = "starting"
  /\ mode' = "running"
  /\ root' = r
  /\ \/ runs[r] < MaxTrials /\ runs' = [runs EXCEPT ![r] = @ + 1]
     \/ UNCHANGED runs
  /\ UNCHANGED attempts

StayInRescue ==
  /\ mode \in {"off", "starting"}
  /\ mode' = "rescue"
  /\ UNCHANGED <<root, attempts, runs>>

\* The running root is healthy: its trial is over, and so, then, is the count.
Prove ==
  /\ mode = "running"
  /\ runs' = [runs EXCEPT ![root] = 0]
  /\ UNCHANGED <<mode, root, attempts>>

ForgetAttempts ==
  /\ mode = "running"
  /\ runs[root] = 0
  /\ attempts' = 0
  /\ UNCHANGED <<mode, root, runs>>

\* A root gets a new image, or its old one another trial.
Offer(r) ==
  /\ mode \in {"running", "rescue"}
  /\ runs' = [runs EXCEPT ![r] = 0]
  /\ UNCHANGED <<mode, root, attempts>>

RetryAll ==
  /\ mode = "rescue"
  /\ mode' = "off"
  /\ attempts' = 0
  /\ UNCHANGED <<root, runs>>

Stop ==
  /\ mode' = "off"
  /\ root' = Nothing
  /\ UNCHANGED <<attempts, runs>>

Next ==
  \/ Attempt \/ StayInRescue \/ Prove \/ ForgetAttempts \/ RetryAll \/ Stop
  \/ \E r \in Roots : Run(r) \/ Offer(r)

Spec == Init /\ [][Next]_bbvars
=============================================================================
