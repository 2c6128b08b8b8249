------------------------ MODULE MCBrokerConversation ------------------------
(* Instances of BrokerConversation for TLC.                                *)
EXTENDS BrokerConversation, TLC

CONSTANT c1

\* Two units of one client application.
TwoClients == [c \in Clients |-> "client"]

\* A RADOS gateway and a metadata server.
RadosgwAndMds == [c \in Clients |-> IF c = c1 THEN "radosgw" ELSE "mds"]

\* Requests that differ in a key that _ops_equal compares.
AllDifferent == [r \in Requests |-> r]

\* Not configured at first.
SecondConf == 2 .. MaxConfs
\* Configured, then taken away, then configured again.
OddConfs == {v \in 1 .. MaxConfs : v % 2 = 1}
AllConfs == 1 .. MaxConfs

\* Units of one relation, and requests that only differ, may be exchanged.
OneProxySymmetry == Permutations(Clients) \union Permutations(Requests)
=============================================================================
