-------------------------------- MODULE Turns --------------------------------
(***************************************************************************)
(* What the rolling upgrade of lib/charms_ceph/utils.py promises: "It      *)
(* rolls an entire server at a time" (line 2605), in the order of the      *)
(* hosts' names.  A host takes its turn when every host before it has had  *)
(* its own, or has given it up.  RollingUpgrade implements this.           *)
(***************************************************************************)
EXTENDS Integers

CONSTANT Hosts  \* by their positions in the sorted list, in 1..N

VARIABLE phase

Phases == {"before", "in", "over"}

TypeOK == phase \in [Hosts -> Phases]

Init == phase = [n \in Hosts |-> "before"]

Enter(n) ==
  /\ phase[n] = "before"
  /\ \A m \in Hosts : m < n => phase[m] = "over"
  /\ phase' = [phase EXCEPT ![n] = "in"]

Leave(n) ==
  /\ phase[n] = "in"
  /\ phase' = [phase EXCEPT ![n] = "over"]

\* A host that fails before its turn has come.
Skip(n) ==
  /\ phase[n] = "before"
  /\ phase' = [phase EXCEPT ![n] = "over"]

Next == \E n \in Hosts : Enter(n) \/ Leave(n) \/ Skip(n)

Spec == Init /\ [][Next]_phase
=============================================================================
