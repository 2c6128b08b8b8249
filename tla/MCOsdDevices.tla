----------------------------- MODULE MCOsdDevices -----------------------------
(* Instances of OsdDevices for TLC.                                        *)
EXTENDS OsdDevices

Volume == [tool |-> "ceph-volume", vault |-> FALSE, ignoreErrors |-> FALSE]
EverySetup ==
  {Volume,
   [Volume EXCEPT !.vault = TRUE],
   [Volume EXCEPT !.tool = "ceph-disk"],
   [Volume EXCEPT !.ignoreErrors = TRUE]}
=============================================================================
