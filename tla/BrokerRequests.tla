---------------------------- MODULE BrokerRequests ----------------------------
(***************************************************************************)
(* How a broker request is carried out: lib/charms_ceph/broker.py,         *)
(* process_requests and process_requests_v1, with the handlers of pools,   *)
(* cache tiers, erasure profiles, file systems, their clients and gateways *)
(* and the Pool classes of charmhelpers/contrib/storage/linux/ceph.py; and *)
(* the charm's actions, which call the same functions.                     *)
(*                                                                         *)
(* A handler is a sequence of steps, one ceph command each.  A step may    *)
(* return from the handler (with or without an error dict), raise, or skip *)
(* what follows.  Several proxy units may carry out the same request, one  *)
(* may go down or fail in the middle, and every hook that runs again       *)
(* carries out its requests from the start.                                *)
(***************************************************************************)
EXTENDS Naturals, Sequences

CONSTANTS
  Proxies, Pools, Profiles, FileSystems, Clients,
  Values,         \* of pool properties and of capabilities
  Requests,
  Actions,        \* the requests that are actions, of one operation each
  Ops,            \* the operations of each request
  DefaultProfile, \* "default-canonical"
  None,
  MaxRuns,        \* bound on how often a request is taken up
  MaxReadFaults,  \* bound on lspools, profile get and fs ls commands that fail
  MaxFaults,      \* bound on commands that change the cluster and fail
  MaxCrashes      \* bound on units that go down with a request half done

CreationSettings == {"size", "ratio", "app", "autoscale", "overwrites"}
MutableSettings == {"quota", "compression"}
Settings == CreationSettings \union MutableSettings

\* Of the parameters it matters whether one is missing, for which handlers
\* return an error dict, or is invalid, for which validators raise.
Params == {"ok", "missing", "invalid"}

CacheModes == {"none", "readonly", "writeback", "forward"}

Tier == [cold : Pools, mode : CacheModes, overlay : BOOLEAN, bloom : BOOLEAN]
Properties == [Settings -> Values \union {None}]

OpType ==
  [op : {"create-pool"}, kind : {"replicated", "erasure"}, pool : Pools,
   profile : Profiles \union {None}, params : Params,
   pg : BOOLEAN,     \* pg_num is given
   group : BOOLEAN,  \* a group is given
   want : [Settings -> Values \union {None}]]
    \union
  [op : {"create-erasure-profile"}, profile : Profiles, params : Params]
    \union
  [op : {"delete-pool", "snapshot-pool", "remove-pool-snapshot"}, pool : Pools]
    \union
  [op : {"create-cache-tier", "remove-cache-tier"}, cold : Pools, hot : Pools,
   mode : {"readonly", "writeback"}, params : Params]
    \union
  [op : {"create-cephfs-client"}, fs : FileSystems, client : Clients,
   grant : Values, params : Params]
    \union
  [op : {"set-key-permissions"}, client : Clients, grant : Values]
    \union
  [op : {"delete-erasure-profile"}, profile : Profiles]
    \union
  [op : {"rename-pool"}, pool : Pools, to : Pools]
    \union
  [op : {"set-pool-value"}, pool : Pools, key : Settings, value : Values,
   params : Params]
    \union
  [op : {"create-cephfs"}, fs : FileSystems, first : Seq(Pools),
   extra : Seq(Pools), params : Params]
    \union
  [op : {"rgw", "move-osd-to-bucket", "unknown"}, params : Params]

ASSUME BrokerRequestsAssumption ==
  /\ \A r \in Requests : Ops[r] \in Seq(OpType)
  /\ Actions \subseteq Requests
  /\ \A r \in Actions : Len(Ops[r]) = 1
  /\ None \notin Requests
  /\ None \notin Values
  /\ None \notin Profiles
  /\ None \notin Properties
  /\ None \notin Tier
  /\ \A s \in SUBSET Pools : s # None
  /\ DefaultProfile \in Profiles
  /\ {MaxRuns, MaxReadFaults, MaxFaults, MaxCrashes} \subseteq Nat

\* The action that creates a pool has parameters for neither group nor mutable
\* settings, and one for the profile that is never empty ("default" when the
\* operator names none).  The action that sets a value is set-pool-max-bytes:
\* pool-set ends where it imports a module that is not there.
ASSUME ActionsAssumption ==
  \A r \in Actions :
    LET o == Ops[r][1]
    IN /\ o.op = "create-pool" =>
            /\ ~o.group /\ \A s \in MutableSettings : o.want[s] = None
            /\ o.kind = "erasure" => o.profile # None
       /\ o.op = "set-pool-value" => o.key = "quota"

\* Only an action deletes a profile: the broker has no such operation.
ASSUME BrokerAssumption ==
  \A r \in Requests \ Actions : \A i \in DOMAIN Ops[r] :
    Ops[r][i].op # "delete-erasure-profile"

\* ErasurePool knows no replicas, and ReplicatedPool no allow_ec_overwrites:
\* what a request says of them is not read.
ASSUME KindsAssumption ==
  \A r \in Requests : \A i \in DOMAIN Ops[r] :
    LET o == Ops[r][i]
    IN o.op = "create-pool" =>
         o.want[IF o.kind = "erasure" THEN "size" ELSE "overwrites"] = None

VARIABLES
  \* the cluster
  pools,       \* per name None, or the properties that were set
  profiles,    \* erasure code profiles
  filesystems, \* per name None, or its pools
  tiers,       \* per hot pool None, or how it caches a cold one
  dirty,       \* hot pools that hold data their cold pool does not
  snaps,       \* pools that have the snapshot
  clients,     \* per client key None, or what it may do
  grouped,     \* pools that are in their group (KeyGroups has the details)
  \* the request each proxy carries out
  req,         \* or None
  pos,         \* the operation it is at; 0 before the first
  todo,        \* the steps left of that operation
  ret,         \* what its handler returns: "ok" for None or exit code 0,
               \* "error", or "unprintable" for a dict json.dumps refuses
  \* history
  failed,      \* positions of operations that failed in this run
  answer,      \* the answer of the last run, or None
  runs, readFaults, faults, crashes

tiering == <<tiers, dirty, snaps>>
rest == <<profiles, filesystems, clients, grouped>>
cluster == <<pools, tiering, rest>>
counters == <<runs, readFaults, faults, crashes>>
vars == <<cluster, req, pos, todo, ret, failed, answer, counters>>

Returned == {"ok", "error", "unprintable"}

TypeOK ==
  /\ pools \in [Pools -> Properties \union {None}]
  /\ profiles \subseteq Profiles
  /\ filesystems \in [FileSystems -> (SUBSET Pools) \union {None}]
  /\ tiers \in [Pools -> Tier \union {None}]
  /\ dirty \subseteq Pools
  /\ snaps \subseteq Pools
  /\ clients \in [Clients -> Values \union {None}]
  /\ grouped \subseteq Pools
  /\ req \in [Proxies -> Requests \union {None}]
  /\ \A p \in Proxies : req[p] # None => pos[p] \in 0 .. Len(Ops[req[p]])
  /\ \A p \in Proxies : todo[p] # <<>> => req[p] # None /\ pos[p] > 0
  /\ ret \in [Proxies -> Returned]
  /\ \A p \in Proxies : failed[p] \subseteq 1 .. pos[p]
  /\ \A p \in Proxies : answer[p] # None => answer[p].req \in Requests
  /\ runs \in 0 .. MaxRuns
  /\ readFaults \in 0 .. MaxReadFaults
  /\ faults \in 0 .. MaxFaults
  /\ crashes \in 0 .. MaxCrashes

Init ==
  /\ pools = [x \in Pools |-> None]
  /\ profiles = {}
  /\ filesystems = [f \in FileSystems |-> None]
  /\ tiers = [x \in Pools |-> None]
  /\ dirty = {}
  /\ snaps = {}
  /\ clients = [c \in Clients |-> None]
  /\ grouped = {}
  /\ req = [p \in Proxies |-> None]
  /\ pos = [p \in Proxies |-> 0]
  /\ todo = [p \in Proxies |-> <<>>]
  /\ ret = [p \in Proxies |-> "ok"]
  /\ failed = [p \in Proxies |-> {}]
  /\ answer = [p \in Proxies |-> None]
  /\ runs = 0 /\ readFaults = 0 /\ faults = 0 /\ crashes = 0

-----------------------------------------------------------------------------
(* Handlers as sequences of steps.                                         *)

Each(step, names) == [i \in DOMAIN names |-> <<step, names[i]>>]

When(condition, step) == IF condition THEN <<step>> ELSE <<>>

Want(o, s) == When(o.want[s] # None, <<"set", s>>)

\* BasePool.update
UpdatePool(o) == <<<<"validate">>>> \o Want(o, "quota") \o Want(o, "compression")

\* BasePool._post_create
BasePostCreate(o) == Want(o, "ratio") \o Want(o, "app") \o Want(o, "autoscale")

Bug_PostCreate(o) ==
  IF o.kind = "erasure" THEN BasePostCreate(o) \o Want(o, "overwrites")
  ELSE BasePostCreate(o)

\* _post_create of the two Pool classes
PostCreate(o) ==
  IF o.kind = "erasure" THEN BasePostCreate(o) \o Want(o, "overwrites")
  ELSE Want(o, "size") \o BasePostCreate(o)

\* BasePool.create, once the pool is known not to exist
CreatePool(o) ==
  <<<<"validate">>>> \o When(o.kind = "erasure", <<"read-profile">>)
    \o <<<<"create">>>> \o PostCreate(o) \o UpdatePool(o)

\* handle_replicated_pool and handle_erasure_pool; the second look for the
\* pool is the one in BasePool.create.
CreatePoolPlan(o) ==
  When(o.kind = "replicated" /\ o.pg, <<"cap">>)
    \o When(o.group, <<"group">>)
    \o When(o.kind = "erasure", <<"profile">>)
    \o <<<<"params">>, <<"exists">>, <<"exists">>>>
    \o CreatePool(o) \o UpdatePool(o)

\* handle_create_erasure_profile
ErasureProfilePlan ==
  <<<<"params">>, <<"no-profile">>, <<"validate">>, <<"set-profile">>>>

\* handle_set_pool_value
SetPoolValuePlan(o) == <<<<"params">>, <<"validate">>, <<"set", o.key>>>>

\* handle_create_cephfs
CreateCephfsPlan(o) ==
  <<<<"params">>>> \o Each("needs", o.first \o o.extra)
    \o <<<<"no-fs">>, <<"fs-new">>>> \o Each("fs-add", o.extra)

\* BasePool.add_cache_tier
AddCacheTier(o) ==
  <<<<"validate">>, <<"tier-add">>, <<"tier-set", "mode", o.mode>>,
    <<"tier-set", "overlay", TRUE>>, <<"tier-set", "bloom", TRUE>>>>

\* Both pools of a tier must exist.
TierPools(step, o) == Each(step, <<o.cold, o.hot>>)

Bug_FlushesFirst(mode) ==
  CASE mode = "readonly" -> <<<<"tier-set", "mode", "none">>, <<"tier-remove">>>>
    [] mode = "writeback" ->
         <<<<"flush">>, <<"tier-set", "mode", "forward">>,
           <<"tier-set", "overlay", FALSE>>, <<"tier-remove">>>>
    [] OTHER -> <<>>

\* BasePool.remove_cache_tier, once the mode is known; there is nothing to do
\* for any other mode.
RemoveCacheTier(mode) ==
  CASE mode = "readonly" -> <<<<"tier-set", "mode", "none">>, <<"tier-remove">>>>
    [] mode = "writeback" ->
         <<<<"tier-set", "mode", "forward">>, <<"flush">>,
           <<"tier-set", "overlay", FALSE>>, <<"tier-remove">>>>
    [] OTHER -> <<>>

Plan(o) ==
  CASE o.op = "create-pool" -> CreatePoolPlan(o)
    [] o.op = "create-cache-tier" -> TierPools("tier-pool", o) \o AddCacheTier(o)
    [] o.op = "remove-cache-tier" ->
         TierPools("tier-pool", o) \o <<<<"tier-mode">>>>
    [] o.op = "create-erasure-profile" -> ErasureProfilePlan
    [] o.op = "set-pool-value" -> SetPoolValuePlan(o)
    [] o.op = "create-cephfs" -> CreateCephfsPlan(o)
    [] o.op = "create-cephfs-client" ->
         <<<<"params">>, <<"no-client">>, <<"authorize">>>>
    [] o.op = "set-key-permissions" -> <<<<"caps">>>>
    [] o.op = "delete-pool" -> <<<<"delete">>>>
    [] o.op = "rename-pool" -> <<<<"rename">>>>
    [] o.op = "snapshot-pool" -> <<<<"snapshot", TRUE>>>>
    [] o.op = "remove-pool-snapshot" -> <<<<"snapshot", FALSE>>>>
    [] o.op = "move-osd-to-bucket" -> <<<<"params">>, <<"crushmap">>>>
    [] OTHER -> <<<<"params">>, <<"admin">>>>

\* The actions call the same functions, with less of a check before them.
ActionPlan(o) ==
  CASE o.op = "create-pool" -> <<<<"exists">>>> \o CreatePool(o)
    [] o.op = "create-cache-tier" -> TierPools("preflight", o) \o AddCacheTier(o)
    [] o.op = "remove-cache-tier" ->
         TierPools("preflight", o) \o <<<<"tier-mode">>>>
    [] o.op = "create-erasure-profile" -> Tail(ErasureProfilePlan)
    [] o.op = "delete-erasure-profile" -> <<<<"remove-profile">>>>
    [] o.op = "set-pool-value" -> <<<<"set", o.key>>>>
    [] OTHER -> Plan(o)

Op(p) == Ops[req[p]][pos[p]]
At(p, step) == todo[p] # <<>> /\ Head(todo[p])[1] = step

GoOn(p) ==
  /\ todo' = [todo EXCEPT ![p] = Tail(@)]
  /\ UNCHANGED <<req, pos, ret, failed, answer>>

Skip(p, steps) ==
  /\ todo' = [todo EXCEPT ![p] = steps]
  /\ UNCHANGED <<req, pos, ret, failed, answer>>

\* The handler returns an error dict.
Returns(p, v) ==
  /\ todo' = [todo EXCEPT ![p] = <<>>]
  /\ ret' = [ret EXCEPT ![p] = v]
  /\ failed' = [failed EXCEPT ![p] = @ \union {pos[p]}]
  /\ UNCHANGED <<req, pos, answer>>

Bug_Answer(p, ok, bad) ==
  /\ answer' = [answer EXCEPT ![p] = [req |-> req[p], ok |-> ok, failed |-> bad]]
  /\ req' = [req EXCEPT ![p] = None]
  /\ UNCHANGED <<pos, todo, ret, failed>>

\* process_requests ends with this answer; bad are the operations that failed.
Answer(p, ok, bad) ==
  /\ answer' = [answer EXCEPT ![p] = [req |-> req[p], ok |-> ok, failed |-> bad]]
  /\ req' = [req EXCEPT ![p] = None]
  /\ todo' = [todo EXCEPT ![p] = <<>>]
  /\ UNCHANGED <<pos, ret, failed>>

\* The handler raises; process_requests catches it.
Raises(p) == Answer(p, FALSE, failed[p] \union {pos[p]})

ReadFault(fault) ==
  /\ fault => readFaults < MaxReadFaults
  /\ readFaults' = IF fault THEN readFaults + 1 ELSE readFaults
  /\ UNCHANGED <<runs, faults, crashes>>

Fault(fault) ==
  /\ fault => faults < MaxFaults
  /\ faults' = IF fault THEN faults + 1 ELSE faults
  /\ UNCHANGED <<runs, readFaults, crashes>>

-----------------------------------------------------------------------------
(* process_requests_v1.                                                    *)

\* client_relation_changed or client_relation_joined takes up a request.
Start(p, r) ==
  /\ req[p] = None
  /\ runs < MaxRuns
  /\ req' = [req EXCEPT ![p] = r]
  /\ pos' = [pos EXCEPT ![p] = 0]
  /\ ret' = [ret EXCEPT ![p] = "ok"]
  /\ failed' = [failed EXCEPT ![p] = {}]
  /\ answer' = [answer EXCEPT ![p] = None]
  /\ runs' = runs + 1
  /\ UNCHANGED <<cluster, todo, readFaults, faults, crashes>>

\* The loop over the operations; what the handler before returned is
\* forgotten.
NextOp(p) ==
  /\ req[p] # None
  /\ todo[p] = <<>>
  /\ pos[p] < Len(Ops[req[p]])
  /\ LET o == Ops[req[p]][pos[p] + 1]
     IN IF o.op = "unknown"
        THEN Answer(p, FALSE, failed[p] \union {pos[p] + 1})
        ELSE /\ pos' = [pos EXCEPT ![p] = @ + 1]
             /\ todo' = [todo EXCEPT ![p] =
                             IF req[p] \in Actions THEN ActionPlan(o) ELSE Plan(o)]
             /\ ret' = [ret EXCEPT ![p] = "ok"]
             /\ UNCHANGED <<req, failed, answer>>
  /\ UNCHANGED <<cluster, counters>>

\* The answer to a request is what its last handler returned.
Verdict(v) == v = "ok"

Reply(p) ==
  /\ req[p] # None
  /\ todo[p] = <<>>
  /\ pos[p] = Len(Ops[req[p]])
  /\ IF ret[p] = "unprintable"
     THEN /\ req' = [req EXCEPT ![p] = None]
          /\ UNCHANGED <<pos, todo, ret, failed, answer>>
     ELSE Answer(p, Verdict(ret[p]), failed[p])
  /\ UNCHANGED <<cluster, counters>>

\* The unit goes down; nothing of the run is left but its effects.
Crash(p) ==
  /\ req[p] # None
  /\ crashes < MaxCrashes
  /\ crashes' = crashes + 1
  /\ req' = [req EXCEPT ![p] = None]
  /\ todo' = [todo EXCEPT ![p] = <<>>]
  /\ UNCHANGED <<cluster, pos, ret, failed, answer, runs, readFaults, faults>>

-----------------------------------------------------------------------------
(* Steps that only look.                                                   *)

\* Of a replicated pool only replicas can be missing, and the cap on pg_num
\* divides by it; get_osds may fail as well.
Cap(p, fault) ==
  /\ At(p, "cap")
  /\ ReadFault(fault)
  /\ IF fault \/ Op(p).params = "missing" THEN Raises(p) ELSE GoOn(p)
  /\ UNCHANGED cluster

CheckParams(p) ==
  /\ At(p, "params")
  /\ IF Op(p).params = "missing" THEN Returns(p, "error") ELSE GoOn(p)
  /\ UNCHANGED <<cluster, counters>>

Validate(p) ==
  /\ At(p, "validate")
  /\ IF Op(p).params = "invalid" THEN Raises(p) ELSE GoOn(p)
  /\ UNCHANGED <<cluster, counters>>

\* handle_erasure_pool puts the default in the place of a profile that is not
\* named, but only for this check.
CheckProfile(p, fault) ==
  /\ At(p, "profile")
  /\ ReadFault(fault)
  /\ LET name == IF Op(p).profile = None THEN DefaultProfile ELSE Op(p).profile
     IN IF name \in profiles /\ ~fault THEN GoOn(p) ELSE Returns(p, "error")
  /\ UNCHANGED cluster

\* ErasurePool._create asks for the profile as it was named; None is no
\* argument for a command, and no profile is a PoolCreationError.
ReadProfile(p, fault) ==
  /\ At(p, "read-profile")
  /\ ReadFault(fault)
  /\ IF Op(p).profile \in profiles /\ ~fault THEN GoOn(p) ELSE Raises(p)
  /\ UNCHANGED cluster

Bug_IfThere(p, there) == GoOn(p)
Bug_NoUpdate(p, there) == IF there THEN Skip(p, <<>>) ELSE GoOn(p)

\* An existing pool is only updated, and by an action not even that.
IfThere(p, there) ==
  IF there THEN Skip(p, IF req[p] \in Actions THEN <<>> ELSE UpdatePool(Op(p)))
  ELSE GoOn(p)

\* pool_exists, False as well when lspools fails
CheckExists(p, fault) ==
  /\ At(p, "exists")
  /\ ReadFault(fault)
  /\ IfThere(p, pools[Op(p).pool] # None /\ ~fault)
  /\ UNCHANGED cluster

\* create_erasure_profile leaves an existing profile alone.
CheckNoProfile(p, fault) ==
  /\ At(p, "no-profile")
  /\ ReadFault(fault)
  /\ IF Op(p).profile \in profiles /\ ~fault THEN Skip(p, <<>>) ELSE GoOn(p)
  /\ UNCHANGED cluster

\* The pools of a new file system must exist.
CheckFsPool(p, fault) ==
  /\ At(p, "needs")
  /\ ReadFault(fault)
  /\ IF pools[Head(todo[p])[2]] # None /\ ~fault
     THEN GoOn(p) ELSE Returns(p, "error")
  /\ UNCHANGED cluster

IfFsThere(p, there) == IF there THEN Skip(p, <<>>) ELSE GoOn(p)

\* get_cephfs, empty when fs ls fails; an existing file system is left alone.
CheckNoFs(p, fault) ==
  /\ At(p, "no-fs")
  /\ ReadFault(fault)
  /\ IfFsThere(p, filesystems[Op(p).fs] # None /\ ~fault)
  /\ UNCHANGED cluster

CheckTierPool(p, fault) ==
  /\ At(p, "tier-pool")
  /\ ReadFault(fault)
  /\ IF pools[Head(todo[p])[2]] # None /\ ~fault
     THEN GoOn(p) ELSE Returns(p, "error")
  /\ UNCHANGED cluster

\* The pre-flight checks of the two cache tier actions: action_fail, and on.
Preflight(p, fault) ==
  /\ At(p, "preflight")
  /\ ReadFault(fault)
  /\ IF pools[Head(todo[p])[2]] # None /\ ~fault
     THEN GoOn(p)
     ELSE /\ todo' = [todo EXCEPT ![p] = Tail(@)]
          /\ ret' = [ret EXCEPT ![p] = "error"]
          /\ failed' = [failed EXCEPT ![p] = @ \union {pos[p]}]
          /\ UNCHANGED <<req, pos, answer>>
  /\ UNCHANGED cluster

\* get_cache_mode, "none" for a pool that is no tier
CacheMode(x) == IF tiers[x] = None THEN "none" ELSE tiers[x].mode

LookAtMode(p, fault) ==
  /\ At(p, "tier-mode")
  /\ ReadFault(fault)
  /\ IF fault THEN Raises(p)
     ELSE Skip(p, RemoveCacheTier(CacheMode(Op(p).hot)))
  /\ UNCHANGED cluster

\* A client that is there gets its key, whatever it may do.
CheckNoClient(p, fault) ==
  /\ At(p, "no-client")
  /\ ReadFault(fault)
  /\ CASE fault -> Returns(p, "error")
       [] ~fault /\ clients[Op(p).client] # None -> Skip(p, <<>>)
       [] OTHER -> GoOn(p)
  /\ UNCHANGED cluster

\* Crushmap.load_crushmap asks a string for its stdout.
LoadCrushmap(p) ==
  /\ At(p, "crushmap")
  /\ Raises(p)
  /\ UNCHANGED <<cluster, counters>>

-----------------------------------------------------------------------------
(* Steps that change the cluster.                                          *)

\* add_pool_to_group, as a whole
AddToGroup(p, fault) ==
  /\ At(p, "group")
  /\ Fault(fault)
  /\ grouped' = IF fault THEN grouped ELSE grouped \union {Op(p).pool}
  /\ IF fault THEN Raises(p) ELSE GoOn(p)
  /\ UNCHANGED <<pools, tiering, profiles, filesystems, clients>>

\* ceph osd pool create; ceph leaves a pool that is there as it is.
CreateCommand(p, fault) ==
  /\ At(p, "create")
  /\ Fault(fault)
  /\ pools' = IF fault \/ pools[Op(p).pool] # None
              THEN pools
              ELSE [pools EXCEPT ![Op(p).pool] = [s \in Settings |-> None]]
  /\ IF fault THEN Raises(p) ELSE GoOn(p)
  /\ UNCHANGED <<tiering, rest>>

ValueOf(o, s) == IF o.op = "set-pool-value" THEN o.value ELSE o.want[s]

\* A failure of these two is logged and passed over.
Tolerated(o, s) == o.op = "create-pool" /\ s \in {"app", "autoscale"}

\* ceph osd pool set, set-quota and application enable
SetCommand(p, fault) ==
  /\ At(p, "set")
  /\ Fault(fault)
  /\ LET o == Op(p)
         s == Head(todo[p])[2]
         works == ~fault /\ pools[o.pool] # None
     IN /\ pools' = IF works THEN [pools EXCEPT ![o.pool][s] = ValueOf(o, s)]
                    ELSE pools
        /\ IF works \/ Tolerated(o, s) THEN GoOn(p) ELSE Raises(p)
  /\ UNCHANGED <<tiering, rest>>

\* ceph keeps a pool that is in a tier or in a file system.
InUse(x) ==
  \/ tiers[x] # None
  \/ \E y \in Pools : tiers[y] # None /\ tiers[y].cold = x
  \/ \E f \in FileSystems : filesystems[f] # None /\ x \in filesystems[f]

\* The command takes a pool that is gone for deleted; librados, which the
\* action uses, does not.
DeleteCommand(p, fault) ==
  /\ At(p, "delete")
  /\ Fault(fault)
  /\ LET x == Op(p).pool
         works == ~fault /\ ~InUse(x) /\ (req[p] \in Actions => pools[x] # None)
     IN /\ pools' = IF works THEN [pools EXCEPT ![x] = None] ELSE pools
        /\ snaps' = IF works THEN snaps \ {x} ELSE snaps
        /\ IF works THEN GoOn(p) ELSE Raises(p)
  /\ UNCHANGED <<tiers, dirty, rest>>

\* ceph takes a rename whose source is gone and whose target is there for one
\* that was done before.  A pool keeps its snapshot and its place in tiers and
\* file systems.
RenameCommand(p, fault) ==
  /\ At(p, "rename")
  /\ Fault(fault)
  /\ LET o == Op(p)
         moves == ~fault /\ pools[o.pool] # None /\ pools[o.to] = None
         moved == ~fault /\ pools[o.pool] = None /\ pools[o.to] # None
         swap == [x \in Pools |-> CASE ~moves -> x
                                    [] moves /\ x = o.pool -> o.to
                                    [] moves /\ x = o.to -> o.pool
                                    [] OTHER -> x]
     IN /\ pools' = [x \in Pools |-> pools[swap[x]]]
        /\ tiers' = [x \in Pools |->
                       IF tiers[swap[x]] = None THEN None
                       ELSE [tiers[swap[x]] EXCEPT !.cold = swap[@]]]
        /\ dirty' = {swap[x] : x \in dirty}
        /\ snaps' = {swap[x] : x \in snaps}
        /\ filesystems' = [f \in FileSystems |->
                             IF filesystems[f] = None THEN None
                             ELSE {swap[x] : x \in filesystems[f]}]
        /\ IF moves \/ moved THEN GoOn(p) ELSE Raises(p)
  /\ UNCHANGED <<profiles, clients, grouped>>

SnapshotCommand(p, fault) ==
  /\ At(p, "snapshot")
  /\ Fault(fault)
  /\ LET x == Op(p).pool
         works == ~fault /\ pools[x] # None
     IN /\ snaps' = CASE ~works -> snaps
                      [] works /\ Head(todo[p])[2] -> snaps \union {x}
                      [] OTHER -> snaps \ {x}
        /\ IF works THEN GoOn(p) ELSE Raises(p)
  /\ UNCHANGED <<pools, tiers, dirty, rest>>

\* ceph osd tier add; no pool is in two tiers, and none that has a snapshot
\* becomes one.
CanAdd(o) ==
  \/ tiers[o.hot] # None /\ tiers[o.hot].cold = o.cold
  \/ /\ pools[o.cold] # None /\ pools[o.hot] # None /\ o.cold # o.hot
     /\ ~InUse(o.hot) /\ tiers[o.cold] = None /\ o.hot \notin snaps

TierAddCommand(p, fault) ==
  /\ At(p, "tier-add")
  /\ Fault(fault)
  /\ LET o == Op(p)
         works == ~fault /\ CanAdd(o)
     IN /\ tiers' = IF works /\ tiers[o.hot] = None
                    THEN [tiers EXCEPT ![o.hot] =
                            [cold |-> o.cold, mode |-> "none",
                             overlay |-> FALSE, bloom |-> FALSE]]
                    ELSE tiers
        /\ IF works THEN GoOn(p) ELSE Raises(p)
  /\ UNCHANGED <<pools, dirty, snaps, rest>>

\* ceph osd tier cache-mode, set-overlay and remove-overlay, and ceph osd pool
\* set hit_set_type; all may be repeated.
TierSetCommand(p, fault) ==
  /\ At(p, "tier-set")
  /\ Fault(fault)
  /\ LET hot == Op(p).hot
         step == Head(todo[p])
         works == ~fault /\ tiers[hot] # None
     IN /\ tiers' = IF works
                    THEN [tiers EXCEPT ![hot] =
                            [@ EXCEPT ![step[2]] = step[3]]]
                    ELSE tiers
        /\ IF works THEN GoOn(p) ELSE Raises(p)
  /\ UNCHANGED <<pools, dirty, snaps, rest>>

\* rados cache-flush-evict-all
FlushCommand(p, fault) ==
  /\ At(p, "flush")
  /\ Fault(fault)
  /\ dirty' = IF fault THEN dirty ELSE dirty \ {Op(p).hot}
  /\ IF fault THEN Raises(p) ELSE GoOn(p)
  /\ UNCHANGED <<pools, tiers, snaps, rest>>

\* ceph osd tier remove takes a tier that is gone for removed and keeps one
\* that clients are still directed to.
TierRemoveCommand(p, fault) ==
  /\ At(p, "tier-remove")
  /\ Fault(fault)
  /\ LET hot == Op(p).hot
         works == ~fault /\ (tiers[hot] # None => ~tiers[hot].overlay)
     IN /\ tiers' = IF works THEN [tiers EXCEPT ![hot] = None] ELSE tiers
        /\ IF works THEN GoOn(p) ELSE Raises(p)
  /\ UNCHANGED <<pools, dirty, snaps, rest>>

\* ceph keeps a profile that a pool uses, which is taken for a fault.
RemoveProfileCommand(p, fault) ==
  /\ At(p, "remove-profile")
  /\ Fault(fault)
  /\ profiles' = IF fault THEN profiles ELSE profiles \ {Op(p).profile}
  /\ IF fault THEN Raises(p) ELSE GoOn(p)
  /\ UNCHANGED <<pools, tiering, filesystems, clients, grouped>>

ProfileCommand(p, fault) ==
  /\ At(p, "set-profile")
  /\ Fault(fault)
  /\ profiles' = IF fault THEN profiles ELSE profiles \union {Op(p).profile}
  /\ IF fault THEN Raises(p) ELSE GoOn(p)
  /\ UNCHANGED <<pools, tiering, filesystems, clients, grouped>>

\* ceph fs new; exit status 22 is taken for a file system that is there,
\* whatever its reason.  Of any other failure the handler returns the output,
\* which is bytes.
FsNewCommand(p, fault) ==
  /\ At(p, "fs-new")
  /\ Fault(fault)
  /\ LET o == Op(p)
         there == filesystems[o.fs] # None
     IN \/ /\ ~fault /\ ~there
           /\ filesystems' = [filesystems EXCEPT ![o.fs] =
                {o.first[i] : i \in DOMAIN o.first}]
           /\ GoOn(p)
        \/ /\ fault \/ there
           /\ filesystems' = filesystems
           /\ \/ Skip(p, <<>>)
              \/ fault /\ Returns(p, "unprintable")
  /\ UNCHANGED <<pools, tiering, profiles, clients, grouped>>

FsAddCommand(p, fault) ==
  /\ At(p, "fs-add")
  /\ Fault(fault)
  /\ filesystems' = IF fault THEN filesystems
                    ELSE [filesystems EXCEPT ![Op(p).fs] =
                            @ \union {Head(todo[p])[2]}]
  /\ IF fault THEN Returns(p, "unprintable") ELSE GoOn(p)
  /\ UNCHANGED <<pools, tiering, profiles, clients, grouped>>

\* ceph fs authorize
AuthorizeCommand(p, fault) ==
  /\ At(p, "authorize")
  /\ Fault(fault)
  /\ LET o == Op(p)
         works == ~fault /\ filesystems[o.fs] # None
     IN /\ clients' = IF works THEN [clients EXCEPT ![o.client] = o.grant]
                      ELSE clients
        /\ IF works THEN GoOn(p) ELSE Returns(p, "error")
  /\ UNCHANGED <<pools, tiering, profiles, filesystems, grouped>>

\* ceph auth caps; handle_set_key_permissions logs a failure and returns None.
CapsCommand(p, fault) ==
  /\ At(p, "caps")
  /\ Fault(fault)
  /\ LET o == Op(p)
     IN clients' = IF fault \/ clients[o.client] = None THEN clients
                   ELSE [clients EXCEPT ![o.client] = o.grant]
  /\ GoOn(p)
  /\ UNCHANGED <<pools, tiering, profiles, filesystems, grouped>>

\* radosgw-admin
AdminCommand(p, fault) ==
  /\ At(p, "admin")
  /\ Fault(fault)
  /\ IF fault THEN Returns(p, "unprintable") ELSE GoOn(p)
  /\ UNCHANGED cluster

Look(p, fault) ==
  \/ Cap(p, fault)
  \/ CheckProfile(p, fault)
  \/ ReadProfile(p, fault)
  \/ CheckExists(p, fault)
  \/ CheckNoProfile(p, fault)
  \/ CheckFsPool(p, fault)
  \/ CheckNoFs(p, fault)
  \/ CheckTierPool(p, fault)
  \/ Preflight(p, fault)
  \/ LookAtMode(p, fault)
  \/ CheckNoClient(p, fault)

Change(p, fault) ==
  \/ AddToGroup(p, fault)
  \/ CreateCommand(p, fault)
  \/ SetCommand(p, fault)
  \/ DeleteCommand(p, fault)
  \/ RenameCommand(p, fault)
  \/ ProfileCommand(p, fault)
  \/ FsNewCommand(p, fault)
  \/ FsAddCommand(p, fault)
  \/ AdminCommand(p, fault)
  \/ SnapshotCommand(p, fault)
  \/ TierAddCommand(p, fault)
  \/ TierSetCommand(p, fault)
  \/ FlushCommand(p, fault)
  \/ TierRemoveCommand(p, fault)
  \/ RemoveProfileCommand(p, fault)
  \/ AuthorizeCommand(p, fault)
  \/ CapsCommand(p, fault)

Proxy(p) ==
  \/ \E r \in Requests : Start(p, r)
  \/ NextOp(p)
  \/ CheckParams(p)
  \/ Validate(p)
  \/ LoadCrushmap(p)
  \/ \E fault \in BOOLEAN : Look(p, fault) \/ Change(p, fault)
  \/ Reply(p)
  \/ Crash(p)

\* Clients of the cold pool write; a writeback tier keeps what they write.
ClientWrites(x) ==
  /\ tiers[x] # None /\ tiers[x].overlay /\ tiers[x].mode = "writeback"
  /\ x \notin dirty
  /\ dirty' = dirty \union {x}
  /\ UNCHANGED <<pools, tiers, snaps, rest, req, pos, todo, ret, failed, answer,
                 counters>>

Next ==
  \/ \E p \in Proxies : Proxy(p)
  \/ \E x \in Pools : ClientWrites(x)

Spec == Init /\ [][Next]_vars

-----------------------------------------------------------------------------
(* Properties.                                                             *)

\* The names an operation is about.
Touches(o) ==
  CASE o.op = "create-erasure-profile" -> {o.profile}
    [] o.op = "rename-pool" -> {o.pool, o.to}
    [] o.op = "create-cephfs" -> {o.fs}
    [] o.op \in {"create-cache-tier", "remove-cache-tier"} -> {o.cold, o.hot}
    [] o.op = "delete-erasure-profile" -> {o.profile}
    [] o.op \in {"create-cephfs-client", "set-key-permissions"} -> {o.client}
    [] o.op \in {"rgw", "move-osd-to-bucket", "unknown"} -> {}
    [] OTHER -> {o.pool}

\* Only earlier operations of the same request are about the names that
\* operation i of r is about, and none if it is to create.
Settles(r, i) ==
  \A r2 \in Requests : \A j \in DOMAIN Ops[r2] :
    Touches(Ops[r2][j]) \intersect Touches(Ops[r][i]) # {} =>
      /\ r2 = r
      /\ j = i \/ (j < i /\ Ops[r][i].op \notin {"create-pool", "create-cephfs"})

Holds(o, settings) ==
  /\ pools[o.pool] # None
  /\ \A s \in settings : o.want[s] # None => pools[o.pool][s] = o.want[s]

\* The tier is complete, and clients of the cold pool use it.
Cached(o) ==
  /\ tiers[o.hot] # None
  /\ tiers[o.hot] = [cold |-> o.cold, mode |-> o.mode, overlay |-> TRUE,
                     bloom |-> TRUE]

Done(o) ==
  CASE o.op = "create-pool" ->
         Holds(o, Settings) /\ (o.group => o.pool \in grouped)
    [] o.op = "create-erasure-profile" -> o.profile \in profiles
    [] o.op = "delete-pool" -> pools[o.pool] = None
    [] o.op = "rename-pool" -> pools[o.pool] = None /\ pools[o.to] # None
    [] o.op = "set-pool-value" ->
         pools[o.pool] # None /\ pools[o.pool][o.key] = o.value
    [] o.op = "create-cephfs" ->
         /\ filesystems[o.fs] # None
         /\ \A i \in DOMAIN o.extra : o.extra[i] \in filesystems[o.fs]
    [] o.op = "create-cache-tier" -> Cached(o)
    [] o.op = "remove-cache-tier" -> tiers[o.hot] = None
    [] o.op = "create-cephfs-client" -> clients[o.client] # None
    [] o.op = "set-key-permissions" -> clients[o.client] \in {o.grant, None}
    [] o.op = "delete-erasure-profile" -> o.profile \notin profiles
    [] o.op = "snapshot-pool" -> o.pool \in snaps
    [] o.op = "remove-pool-snapshot" -> o.pool \notin snaps
    [] OTHER -> TRUE

\* No other operation undoes what operation i of r brings about under names that
\* are not its own, or would find it half undone: the pools of its file system
\* keep their names, the tier that it removes was never a read-only one (their
\* removal fails or does nothing) nor of another name, and the tier that it
\* creates is not taken apart first, which a second proxy would repeat.
Steady(r, i) ==
  LET o == Ops[r][i]
  IN \A r2 \in Requests : \A j \in DOMAIN Ops[r2] :
       LET other == Ops[r2][j]
       IN /\ o.op = "create-cephfs" /\ other.op = "rename-pool" =>
               \A k \in DOMAIN o.extra : o.extra[k] \notin {other.pool, other.to}
          /\ o.op = "remove-cache-tier" =>
               /\ other.op = "create-cache-tier" /\ other.hot = o.hot =>
                    other.mode = "writeback"
               /\ other.op = "rename-pool" => o.hot \notin {other.pool, other.to}
          /\ /\ o.op = "create-cache-tier" /\ <<r2, j>> # <<r, i>>
             /\ Touches(other) \intersect Touches(o) # {}
             => other.op \notin {"create-cache-tier", "remove-cache-tier", "rename-pool"}

Settled == [r \in Requests |-> {i \in DOMAIN Ops[r] : Settles(r, i) /\ Steady(r, i)}]

\* No other request asks for the pool of o with other creation settings, or
\* gives its name to another pool.
Unrivalled(o) ==
  \A r \in Requests : \A i \in DOMAIN Ops[r] :
    LET other == Ops[r][i]
    IN /\ other.op = "create-pool" /\ other.pool = o.pool =>
            \A s \in CreationSettings : other.want[s] = o.want[s]
       /\ other.op = "rename-pool" => other.to # o.pool

\* The handlers look for a pool twice before they create it: one look may fail.
\* The action that creates a pool looks once.
LooksSuffice ==
  \/ MaxReadFaults = 0
  \/ /\ MaxReadFaults = 1
     /\ \A r \in Actions : Ops[r][1].op = "create-pool" => Unrivalled(Ops[r][1])

\* No request sets a creation setting of a pool by itself.
NoneReset ==
  \A r \in Requests : \A i \in DOMAIN Ops[r] :
    LET o == Ops[r][i]
    IN o.op = "set-pool-value" /\ o.key \in CreationSettings =>
         o.params # "ok" /\ r \notin Actions

\* The operations of a request that the answer of p gives for done.
Acknowledged(p) == Settled[answer[p].req] \ answer[p].failed

\* An answer without an error means that what was asked for is there: a pool
\* with its replicas and properties, a file system with all its pools
\* ("Number of copies there should be of each object added to this replicated
\* pool", ceph.py, line 634).
AnswerMeansDone ==
  \A p \in Proxies : answer[p] # None /\ answer[p].ok =>
    \A i \in Acknowledged(p) : Done(Ops[answer[p].req][i])

\* As much holds on any number of proxies, whatever fails and goes down: the
\* pool is there, in its group, with the properties that may change, and a
\* cache tier is complete, also when an earlier run was cut short between its
\* commands.
AnswerMeansUpdated ==
  \A p \in Proxies : answer[p] # None /\ answer[p].ok =>
    \A i \in Acknowledged(p) :
      LET o == Ops[answer[p].req][i]
      IN CASE o.op = "create-pool" ->
                Holds(o, MutableSettings) /\ (o.group => o.pool \in grouped)
           [] o.op = "create-cache-tier" -> Cached(o)
           [] OTHER -> TRUE

\* The handlers never set a property anew that is settled when a pool is
\* created ("Note that pool properties subject to change during the lifetime
\* of a pool / deployment should go into the ``update`` method", ceph.py,
\* line 339): carrying out a request again, or another one for the same pool,
\* leaves them as they are.
CreationSettingsStick ==
  [][\A x \in Pools, s \in CreationSettings :
       /\ pools[x] # None /\ pools'[x] # None
       /\ pools[x][s] # None
       => pools'[x][s] = pools[x][s]]_pools

\* A cache tier is not removed while it holds data its cold pool lacks: no
\* write gets into it between the flush and the removal ("Flushes all dirty
\* objects from writeback pools and waits for that to complete", ceph.py,
\* line 464).
NothingDirtyIsRemoved == \A x \in dirty : tiers[x] # None

\* A cache tier whose removal is reported done is gone ("Removes a cache tier
\* from Ceph", ceph.py, line 462).
RemovedMeansGone ==
  [][\A p \in Proxies :
       /\ answer'[p] # answer[p] /\ answer'[p] # None
       /\ answer'[p].ok
       => \A i \in DOMAIN Ops[req[p]] :
            Ops[req[p]][i].op = "remove-cache-tier"
              => tiers'[Ops[req[p]][i].hot] = None]_vars
=============================================================================
