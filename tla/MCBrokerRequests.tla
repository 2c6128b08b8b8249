--------------------------- MODULE MCBrokerRequests ---------------------------
(* Instances of BrokerRequests for TLC.                                    *)
EXTENDS BrokerRequests, PlacementGroups

NoSettings == [s \in Settings |-> None]

Replicated(pool, n) ==
  [op |-> "create-pool", kind |-> "replicated", pool |-> pool,
   profile |-> None, params |-> "ok", pg |-> TRUE, group |-> TRUE,
   want |-> [NoSettings EXCEPT !.size = n, !.ratio = 10, !.app = 1,
                               !.quota = n]]
Plain(pool) ==
  [Replicated(pool, 3) EXCEPT !.pg = FALSE, !.group = FALSE,
                              !.want = [NoSettings EXCEPT !.size = 3]]
Erasure(pool, profile) ==
  [op |-> "create-pool", kind |-> "erasure", pool |-> pool,
   profile |-> profile, params |-> "ok", pg |-> FALSE, group |-> FALSE,
   want |-> [NoSettings EXCEPT !.ratio = 10, !.app = 1, !.overwrites = 1,
                               !.compression = 1]]
Profile(profile) ==
  [op |-> "create-erasure-profile", profile |-> profile, params |-> "ok"]
FileSystem ==
  [op |-> "create-cephfs", fs |-> "fs", first |-> <<"data", "meta">>,
   extra |-> <<"more">>, params |-> "ok"]
Admin == [op |-> "rgw", params |-> "ok"]
Unknown == [op |-> "unknown", params |-> "ok"]
Rename(pool, to) == [op |-> "rename-pool", pool |-> pool, to |-> to]
Delete(pool) == [op |-> "delete-pool", pool |-> pool]
SetValue(pool, key, v) ==
  [op |-> "set-pool-value", pool |-> pool, key |-> key, value |-> v,
   params |-> "ok"]
CacheTier(cold, hot, mode) ==
  [op |-> "create-cache-tier", cold |-> cold, hot |-> hot, mode |-> mode,
   params |-> "ok"]
Untier(cold, hot) == [CacheTier(cold, hot, "writeback") EXCEPT !.op = "remove-cache-tier"]
Snapshot(pool) == [op |-> "snapshot-pool", pool |-> pool]
RemoveSnapshot(pool) == [op |-> "remove-pool-snapshot", pool |-> pool]
Client(c) ==
  [op |-> "create-cephfs-client", fs |-> "fs", client |-> c, grant |-> 1,
   params |-> "ok"]
SetCaps(c, grant) ==
  [op |-> "set-key-permissions", client |-> c, grant |-> grant]
MoveOsd == [op |-> "move-osd-to-bucket", params |-> "ok"]
RemoveProfile(profile) ==
  [op |-> "delete-erasure-profile", profile |-> profile]
Missing(o) == [o EXCEPT !.params = "missing"]
Invalid(o) == [o EXCEPT !.params = "invalid"]

\* Requests of every operation, with faulty parameters among them.
EveryRequest ==
  [pools |-> <<Replicated("vms", 3), Replicated("images", 2),
               SetValue("images", "quota", 1)>>,
   erasure |-> <<Profile("ec"), Erasure("objects", "ec"), Delete("objects")>>,
   files |-> <<Plain("data"), Plain("meta"), Plain("more"), FileSystem,
               Client("writer")>>,
   moves |-> <<Replicated("old", 3), Rename("old", "new")>>,
   faulty |-> <<Admin, Missing(Replicated("odd", 2)), Unknown>>,
   refused |-> <<Missing(Profile("ec2")), Invalid(SetValue("old", "size", 1))>>,
   invalid |-> <<Invalid(Erasure("odd2", "ec"))>>,
   rival |-> <<Replicated("vms", 2)>>,
   nameless |-> <<Profile("default-canonical"), Erasure("odd2", None)>>,
   tier |-> <<Plain("cold"), Plain("hot"),
              CacheTier("cold", "hot", "writeback")>>,
   untier |-> <<Plain("cold2"), Plain("hot2"),
                CacheTier("cold2", "hot2", "writeback"),
                Untier("cold2", "hot2")>>,
   readonly |-> <<Plain("cold3"), Plain("hot3"),
                  CacheTier("cold3", "hot3", "readonly")>>,
   clients |-> <<Client("reader"), SetCaps("reader", 2)>>,
   snaps |-> <<Plain("snapped"), Snapshot("snapped"), Plain("spare"),
               Snapshot("spare"), RemoveSnapshot("spare")>>,
   osds |-> <<MoveOsd>>,
   pool_action |-> <<Plain("plain")>>,
   quota_action |-> <<SetValue("plain", "quota", 2)>>,
   delete_action |-> <<Delete("plain")>>,
   tier_action |-> <<CacheTier("cold3", "hot3", "writeback")>>,
   untier_action |-> <<Untier("cold3", "hot3")>>,
   profile_action |-> <<Profile("ec2")>>,
   no_profile |-> <<RemoveProfile("ec2")>>]

ReadonlyTier ==
  [tier |-> <<Plain("cold"), Plain("hot"), CacheTier("cold", "hot", "readonly")>>,
   untier |-> <<Untier("cold", "hot")>>]

AllRequests == DOMAIN EveryRequest
AllPools == {"vms", "images", "objects", "data", "meta", "more", "old", "new",
             "odd", "odd2", "cold", "hot", "cold2", "hot2", "cold3", "hot3",
             "snapped", "spare", "plain"}
AllClients == {"reader", "writer"}
AllActions == {"pool_action", "quota_action", "delete_action", "tier_action",
               "untier_action", "profile_action", "no_profile"}
AllProfiles == {"ec", "ec2", "default-canonical"}

\* What the proof that creation settings stick assumes holds of these requests.
ASSUME CreationAssumption == LooksSuffice /\ NoneReset
=============================================================================
