--------------------------- MODULE MCRollingUpgrade ---------------------------
(* Instances of RollingUpgrade for TLC.                                    *)
EXTENDS RollingUpgrade

NoSkew == [n \in Hosts |-> 0]
Skewed == [n \in Hosts |-> IF n = 2 THEN 1 ELSE 0]
=============================================================================
