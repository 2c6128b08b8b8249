---------------------------- MODULE MCKeyGroups -----------------------------
(* Instances of KeyGroups for TLC.                                         *)
EXTENDS KeyGroups

CONSTANTS nova, glance, images, vms

Permit(s, perm, group) ==
  [op |-> "add-permissions", service |-> s, perm |-> perm, group |-> group,
   ns |-> <<>>]
AddPool(pool, group) ==
  [op |-> "add-pool", pool |-> pool, group |-> group, ns |-> <<>>]

\* Two services of one group, one of them also in a second group.
SharedOps ==
  {Permit(nova, "rwx", "images"), Permit(glance, "rx", "images"),
   Permit(nova, "rwx", "vms"), AddPool(images, "images"), AddPool(vms, "vms")}

\* One of the groups with two pools, one of the pools in two groups.
CrowdedOps == SharedOps \union {AddPool(vms, "images")}

NoNamespace == {<<>>}
=============================================================================
