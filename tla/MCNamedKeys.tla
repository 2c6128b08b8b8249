----------------------------- MODULE MCNamedKeys -----------------------------
(* An instance of NamedKeys for TLC.                                        *)
EXTENDS NamedKeys, MCKeyGroups

\* Two services of one group, with a pool in it.
MemberOps ==
  {Permit(nova, "rwx", "images"), Permit(glance, "rx", "images"),
   AddPool(images, "images")}
=============================================================================
