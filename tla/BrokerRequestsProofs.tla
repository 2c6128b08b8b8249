------------------------- MODULE BrokerRequestsProofs -------------------------
(***************************************************************************)
(* Proofs about BrokerRequests, for any requests, proxies and bounds on    *)
(* faults and crashes:                                                     *)
(*  - AnswersAreKept: an answer without an error means that every pool it  *)
(*    names exists, has its quota and compression and is in its group, and *)
(*    that every cache tier is complete.  Each promise of an operation is  *)
(*    kept as the step that brings it about (Goals); of the operation a    *)
(*    run is at, it holds or its step is still to do (Promised); and what  *)
(*    holds is undone by nobody (Keeps).                                   *)
(*  - TypeCorrect: the state keeps its types.                              *)
(*  - FlushedBeforeRemoved: on one proxy, no cache tier goes with data its *)
(*    cold pool lacks (DrainInv).                                          *)
(*  - SettingsStick: on one proxy, no property that is settled when a pool *)
(*    is created is set anew (SettleInv).                                  *)
(*  - AllIsDone: on one proxy where no command fails, an answer without an *)
(*    error means that all it names is done (DoneInv).                     *)
(***************************************************************************)
EXTENDS BrokerRequests, TLAPS

\* How the process of p gets on with the handler it is in: it goes on, returns
\* an error, or raises.
Handles(p) ==
  \/ UNCHANGED <<req, pos, ret, failed, answer>>
  \/ /\ \E v \in {"error", "unprintable"} : ret' = [ret EXCEPT ![p] = v]
     /\ failed' = [failed EXCEPT ![p] = @ \union {pos[p]}]
     /\ UNCHANGED <<req, pos, answer>>
  \/ Raises(p)

\* No step of a handler ends a run in any other way.
LEMMA LookHandles ==
  ASSUME NEW p \in Proxies, NEW fault \in BOOLEAN, Look(p, fault)
  PROVE  Handles(p)
<1> USE DEF GoOn, Skip, Returns, Handles
<1>1. CASE Cap(p, fault) \/ CheckProfile(p, fault) \/ ReadProfile(p, fault)
  BY <1>1 DEF Cap, CheckProfile, ReadProfile
<1>2. CASE CheckExists(p, fault) \/ CheckNoProfile(p, fault) \/ CheckFsPool(p, fault)
  BY <1>2 DEF CheckExists, IfThere, CheckNoProfile, CheckFsPool
<1>3. CASE CheckNoFs(p, fault) \/ CheckTierPool(p, fault) \/ Preflight(p, fault)
  BY <1>3 DEF CheckNoFs, IfFsThere, CheckTierPool, Preflight
<1>4. CASE LookAtMode(p, fault) \/ CheckNoClient(p, fault)
  BY <1>4 DEF LookAtMode, CheckNoClient
<1> QED
  BY <1>1, <1>2, <1>3, <1>4 DEF Look

LEMMA ChangeHandles ==
  ASSUME NEW p \in Proxies, NEW fault \in BOOLEAN, Change(p, fault)
  PROVE  Handles(p)
<1> USE DEF GoOn, Skip, Returns, Handles
<1>1. CASE AddToGroup(p, fault) \/ CreateCommand(p, fault) \/ SetCommand(p, fault)
  BY <1>1 DEF AddToGroup, CreateCommand, SetCommand
<1>2. CASE DeleteCommand(p, fault) \/ RenameCommand(p, fault) \/ SnapshotCommand(p, fault)
  BY <1>2 DEF DeleteCommand, RenameCommand, SnapshotCommand
<1>3. CASE TierAddCommand(p, fault) \/ TierSetCommand(p, fault) \/ TierRemoveCommand(p, fault)
  BY <1>3 DEF TierAddCommand, TierSetCommand, TierRemoveCommand
<1>4. CASE FlushCommand(p, fault) \/ ProfileCommand(p, fault) \/ RemoveProfileCommand(p, fault)
  BY <1>4 DEF FlushCommand, ProfileCommand, RemoveProfileCommand
<1>5. CASE FsNewCommand(p, fault) \/ FsAddCommand(p, fault) \/ AuthorizeCommand(p, fault)
  BY <1>5 DEF FsNewCommand, FsAddCommand, AuthorizeCommand
<1>6. CASE CapsCommand(p, fault) \/ AdminCommand(p, fault)
  BY <1>6 DEF CapsCommand, AdminCommand
<1> QED
  BY <1>1, <1>2, <1>3, <1>4, <1>5, <1>6 DEF Change

-----------------------------------------------------------------------------
\* What a run knows of its request and of its answer.
RunTypes ==
  /\ req \in [Proxies -> Requests \union {None}]
  /\ pos \in [Proxies -> Nat]
  /\ ret \in [Proxies -> Returned]
  /\ failed \in [Proxies -> SUBSET Nat]
  /\ answer \in [Proxies -> [req : Requests \union {None}, ok : BOOLEAN, failed : SUBSET Nat]
                              \union {None}]

LEMMA InitRun == Init => RunTypes
BY DEF Init, RunTypes, Returned

LEMMA AnswerRun ==
  ASSUME RunTypes, NEW p \in Proxies, NEW ok \in BOOLEAN, NEW bad \in SUBSET Nat,
         Answer(p, ok, bad)
  PROVE  RunTypes'
BY DEF RunTypes, Answer

LEMMA HandlesRun ==
  ASSUME RunTypes, NEW p \in Proxies, Handles(p)
  PROVE  RunTypes'
<1>1. CASE UNCHANGED <<req, pos, ret, failed, answer>>
  BY <1>1 DEF RunTypes
<1>2. CASE /\ \E v \in {"error", "unprintable"} : ret' = [ret EXCEPT ![p] = v]
           /\ failed' = [failed EXCEPT ![p] = @ \union {pos[p]}]
           /\ UNCHANGED <<req, pos, answer>>
  BY <1>2 DEF RunTypes, Returned
<1>3. CASE Raises(p)
  <2>1. failed[p] \union {pos[p]} \in SUBSET Nat
    BY DEF RunTypes
  <2> QED
    BY <1>3, <2>1, AnswerRun DEF Raises
<1> QED
  BY <1>1, <1>2, <1>3 DEF Handles

LEMMA NextOpRun ==
  ASSUME RunTypes, NEW p \in Proxies, NextOp(p)
  PROVE  RunTypes'
<1>1. pos[p] + 1 \in Nat /\ failed[p] \union {pos[p] + 1} \in SUBSET Nat
  BY DEF RunTypes
<1>2. CASE Answer(p, FALSE, failed[p] \union {pos[p] + 1})
  BY <1>1, <1>2, AnswerRun
<1>3. CASE /\ pos' = [pos EXCEPT ![p] = @ + 1]
           /\ ret' = [ret EXCEPT ![p] = "ok"]
           /\ UNCHANGED <<req, failed, answer>>
  BY <1>3 DEF RunTypes, Returned
<1> QED
  BY <1>2, <1>3 DEF NextOp

LEMMA ReplyRun ==
  ASSUME RunTypes, NEW p \in Proxies, Reply(p)
  PROVE  RunTypes'
<1>1. CASE req' = [req EXCEPT ![p] = None] /\ UNCHANGED <<pos, todo, ret, failed, answer>>
  BY <1>1 DEF RunTypes
<1>2. CASE Answer(p, Verdict(ret[p]), failed[p])
  <2>1. failed[p] \in SUBSET Nat /\ Verdict(ret[p]) \in BOOLEAN
    BY DEF RunTypes, Verdict
  <2> QED
    BY <1>2, <2>1, AnswerRun
<1> QED
  BY <1>1, <1>2 DEF Reply

LEMMA NextRun == RunTypes /\ [Next]_vars => RunTypes'
<1> SUFFICES ASSUME RunTypes, [Next]_vars PROVE RunTypes'
  OBVIOUS
<1>1. ASSUME NEW p \in Proxies, Proxy(p) PROVE RunTypes'
  <2>1. CASE \E r \in Requests : Start(p, r)
    BY <2>1 DEF Start, RunTypes, Returned
  <2>2. CASE NextOp(p)
    BY <2>2, NextOpRun
  <2>3. CASE CheckParams(p) \/ Validate(p) \/ LoadCrushmap(p)
    <3>1. Handles(p)
      BY <2>3 DEF CheckParams, Validate, LoadCrushmap, GoOn, Returns, Handles
    <3> QED
      BY <3>1, HandlesRun
  <2>4. CASE \E fault \in BOOLEAN : Look(p, fault) \/ Change(p, fault)
    BY <2>4, LookHandles, ChangeHandles, HandlesRun
  <2>5. CASE Reply(p)
    BY <2>5, ReplyRun
  <2>6. CASE Crash(p)
    BY <2>6 DEF Crash, RunTypes
  <2> QED
    BY <1>1, <2>1, <2>2, <2>3, <2>4, <2>5, <2>6 DEF Proxy
<1>2. CASE \E x \in Pools : ClientWrites(x)
  BY <1>2 DEF ClientWrites, RunTypes
<1>3. CASE UNCHANGED vars
  BY <1>3 DEF vars, RunTypes
<1> QED
  BY <1>1, <1>2, <1>3 DEF Next

-----------------------------------------------------------------------------
(* The steps of an operation.                                               *)

\* What todo may hold: a step's name and what it is about.
StepType ==
  {<<name>> : name \in {"cap", "params", "validate", "profile", "read-profile", "exists",
                        "no-profile", "no-fs", "tier-mode", "no-client", "crushmap",
                        "group", "create", "delete", "rename", "set-profile",
                        "remove-profile", "fs-new", "tier-add", "flush", "tier-remove",
                        "authorize", "caps", "admin"}}
    \union ({"set"} \X Settings)
    \union ({"needs", "fs-add", "tier-pool", "preflight"} \X Pools)
    \union ({"snapshot"} \X BOOLEAN)
    \union ({"tier-set"} \X {"mode"} \X CacheModes)
    \union ({"tier-set"} \X {"overlay", "bloom"} \X BOOLEAN)

\* The operations that a step may belong to.
Owned(st, o) ==
  /\ st[1] \in {"create", "group", "exists"} => o.op = "create-pool"
  /\ st[1] = "set" => o.op \in {"create-pool", "set-pool-value"}
  /\ st[1] = "delete" => o.op = "delete-pool"
  /\ st[1] = "rename" => o.op = "rename-pool"
  /\ st[1] = "snapshot" => o.op \in {"snapshot-pool", "remove-pool-snapshot"}
  /\ st[1] = "tier-add" => o.op = "create-cache-tier"
  /\ st[1] = "tier-set" => o.op \in {"create-cache-tier", "remove-cache-tier"}
  /\ st[1] \in {"flush", "tier-remove", "tier-mode"} => o.op = "remove-cache-tier"
  /\ st[1] \in {"no-profile", "set-profile"} => o.op = "create-erasure-profile"
  /\ st[1] = "remove-profile" => o.op = "delete-erasure-profile"
  /\ st[1] \in {"no-fs", "fs-new", "fs-add"} => o.op = "create-cephfs"
  /\ st[1] \in {"no-client", "authorize"} => o.op = "create-cephfs-client"
  /\ st[1] = "caps" => o.op = "set-key-permissions"

\* What a new tier is set to.
Final(o, field) == IF field = "mode" THEN o.mode ELSE TRUE

\* The steps that the handler of o may take.  What it sets of a tier that it
\* creates is what the tier ends with.
StepsOf(o) ==
  {st \in StepType :
     /\ Owned(st, o)
     /\ st[1] = "tier-set" /\ o.op = "create-cache-tier" => st[3] = Final(o, st[2])}

\* What an operation names is there to be named.
LEMMA OpFields ==
  ASSUME NEW o \in OpType
  PROVE  /\ o.op \in {"create-pool", "set-pool-value", "delete-pool", "rename-pool",
                      "snapshot-pool", "remove-pool-snapshot"} => o.pool \in Pools
         /\ o.op = "create-pool" =>
              /\ o.want \in [Settings -> Values \union {None}]
              /\ o.group \in BOOLEAN
         /\ o.op = "set-pool-value" => o.key \in Settings /\ o.value \in Values
         /\ o.op = "rename-pool" => o.to \in Pools
         /\ o.op \in {"create-cache-tier", "remove-cache-tier"} =>
              o.cold \in Pools /\ o.hot \in Pools /\ o.mode \in {"readonly", "writeback"}
         /\ o.op \in {"create-erasure-profile", "delete-erasure-profile"} => o.profile \in Profiles
         /\ o.op = "create-cephfs" =>
              o.fs \in FileSystems /\ o.first \in Seq(Pools) /\ o.extra \in Seq(Pools)
         /\ o.op = "create-cephfs-client" => o.client \in Clients /\ o.grant \in Values
         /\ o.op = "set-key-permissions" => o.client \in Clients /\ o.grant \in Values
         /\ o.op \in {"create-pool", "create-erasure-profile", "delete-pool", "snapshot-pool",
                      "remove-pool-snapshot", "create-cache-tier", "remove-cache-tier",
                      "create-cephfs-client", "set-key-permissions", "delete-erasure-profile",
                      "rename-pool", "set-pool-value", "create-cephfs", "rgw",
                      "move-osd-to-bucket", "unknown"}
BY DEF OpType

LEMMA Optional ==
  ASSUME NEW S, NEW c \in BOOLEAN, NEW x, c => x \in S
  PROVE  When(c, x) \in Seq(S)
BY DEF When

LEMMA EachStep ==
  ASSUME NEW S, NEW step, NEW X, NEW names \in Seq(X), \A x \in X : <<step, x>> \in S
  PROVE  Each(step, names) \in Seq(S)
BY DEF Each

\* The steps without an argument that any handler, or some handlers, may take.
LEMMA PlainSteps ==
  ASSUME NEW o \in OpType, NEW name \in {"cap", "params", "validate", "profile", "read-profile",
           "crushmap", "admin"}
  PROVE  <<name>> \in StepsOf(o)
BY DEF StepsOf, StepType, Owned

LEMMA OwnedSteps ==
  ASSUME NEW o \in OpType, NEW name \in {"exists", "no-profile", "no-fs", "tier-mode", "no-client",
           "group", "create", "delete", "rename", "set-profile", "remove-profile", "fs-new",
           "tier-add", "flush", "tier-remove", "authorize", "caps"},
         Owned(<<name>>, o)
  PROVE  <<name>> \in StepsOf(o)
BY DEF StepsOf, StepType, Owned

\* The steps of an operation but for the one that adds a pool to its group.
Ungrouped(o) == StepsOf(o) \ {<<"group">>}

LEMMA WantStep ==
  ASSUME NEW o \in OpType, o.op = "create-pool", NEW s \in Settings
  PROVE  Want(o, s) \in Seq(Ungrouped(o))
<1>1. <<"set", s>> \in Ungrouped(o)
  BY DEF Ungrouped, StepsOf, StepType, Owned
<1> QED
  BY <1>1, Optional DEF Want

\* The parts of a handler are steps of its operation.
LEMMA PoolSteps ==
  ASSUME NEW o \in OpType, o.op = "create-pool"
  PROVE  /\ UpdatePool(o) \in Seq(Ungrouped(o))
         /\ PostCreate(o) \in Seq(Ungrouped(o))
         /\ CreatePool(o) \in Seq(Ungrouped(o))
         /\ CreatePoolPlan(o) \in Seq(StepsOf(o))
<1> DEFINE S == Ungrouped(o)
<1>1. /\ <<"cap">> \in S /\ <<"profile">> \in S /\ <<"params">> \in S /\ <<"exists">> \in S
      /\ <<"validate">> \in S /\ <<"read-profile">> \in S /\ <<"create">> \in S
  BY PlainSteps, OwnedSteps DEF Owned, Ungrouped
<1>2. \A s \in Settings : Want(o, s) \in Seq(S)
  BY WantStep
<1>3. /\ Want(o, "quota") \in Seq(S) /\ Want(o, "compression") \in Seq(S)
      /\ Want(o, "ratio") \in Seq(S) /\ Want(o, "app") \in Seq(S)
      /\ Want(o, "autoscale") \in Seq(S) /\ Want(o, "overwrites") \in Seq(S)
      /\ Want(o, "size") \in Seq(S)
  BY <1>2 DEF Settings, MutableSettings, CreationSettings
<1> HIDE DEF S
<1>4. UpdatePool(o) \in Seq(S)
  BY <1>1, <1>3 DEF UpdatePool
<1>5. BasePostCreate(o) \in Seq(S)
  BY <1>3 DEF BasePostCreate
<1>6. PostCreate(o) \in Seq(S)
  BY <1>3, <1>5 DEF PostCreate
<1>7. CreatePool(o) \in Seq(S)
  <2>1. When(o.kind = "erasure", <<"read-profile">>) \in Seq(S)
    BY <1>1 DEF When
  <2>2. <<<<"validate">>>> \in Seq(S) /\ <<<<"create">>>> \in Seq(S)
    BY <1>1
  <2> QED
    BY <1>4, <1>6, <2>1, <2>2 DEF CreatePool
<1>8. CreatePoolPlan(o) \in Seq(StepsOf(o))
  <2>1. S \subseteq StepsOf(o) /\ <<"group">> \in StepsOf(o)
    BY OwnedSteps DEF S, Ungrouped, Owned
  <2>2. /\ When(o.kind = "replicated" /\ o.pg, <<"cap">>) \in Seq(StepsOf(o))
        /\ When(o.group, <<"group">>) \in Seq(StepsOf(o))
        /\ When(o.kind = "erasure", <<"profile">>) \in Seq(StepsOf(o))
    BY <1>1, <2>1 DEF When
  <2>3. <<<<"params">>, <<"exists">>, <<"exists">>>> \in Seq(StepsOf(o))
    BY <1>1, <2>1
  <2>4. UpdatePool(o) \in Seq(StepsOf(o)) /\ CreatePool(o) \in Seq(StepsOf(o))
    BY <1>4, <1>7, <2>1
  <2> QED
    BY <2>2, <2>3, <2>4 DEF CreatePoolPlan
<1> QED
  BY <1>4, <1>6, <1>7, <1>8 DEF S

LEMMA TierSteps ==
  ASSUME NEW o \in OpType, o.op \in {"create-cache-tier", "remove-cache-tier"}
  PROVE  /\ \A step \in {"tier-pool", "preflight"} : TierPools(step, o) \in Seq(StepsOf(o))
         /\ o.op = "create-cache-tier" => AddCacheTier(o) \in Seq(StepsOf(o))
         /\ o.op = "remove-cache-tier" =>
              \A mode \in CacheModes : RemoveCacheTier(mode) \in Seq(StepsOf(o))
<1> DEFINE S == StepsOf(o)
<1>1. o.cold \in Pools /\ o.hot \in Pools /\ o.mode \in {"readonly", "writeback"}
  BY OpFields
<1>2. \A step \in {"tier-pool", "preflight"}, x \in Pools : <<step, x>> \in S
  BY DEF StepsOf, StepType, Owned
<1>3. \A step \in {"tier-pool", "preflight"} : TierPools(step, o) \in Seq(S)
  <2> SUFFICES ASSUME NEW step \in {"tier-pool", "preflight"}
               PROVE  TierPools(step, o) \in Seq(S)
    OBVIOUS
  <2>1. <<o.cold, o.hot>> \in Seq(Pools)
    BY <1>1
  <2>2. \A x \in Pools : <<step, x>> \in S
    BY <1>2
  <2> HIDE DEF S
  <2> QED
    BY <2>1, <2>2, EachStep DEF TierPools
<1>4. ASSUME o.op = "create-cache-tier" PROVE AddCacheTier(o) \in Seq(S)
  <2>1. <<"validate">> \in S /\ <<"tier-add">> \in S
    BY <1>4, PlainSteps, OwnedSteps DEF Owned
  <2>2. /\ <<"tier-set", "mode", o.mode>> \in S /\ <<"tier-set", "overlay", TRUE>> \in S
        /\ <<"tier-set", "bloom", TRUE>> \in S
    BY <1>1, <1>4 DEF StepsOf, StepType, Owned, Final, CacheModes
  <2> HIDE DEF S
  <2> QED
    BY <2>1, <2>2 DEF AddCacheTier
<1>5. ASSUME o.op = "remove-cache-tier", NEW mode \in CacheModes
      PROVE  RemoveCacheTier(mode) \in Seq(S)
  <2>1. <<"flush">> \in S /\ <<"tier-remove">> \in S
    BY <1>5, PlainSteps, OwnedSteps DEF Owned
  <2>2. /\ <<"tier-set", "mode", "none">> \in S /\ <<"tier-set", "mode", "forward">> \in S
        /\ <<"tier-set", "overlay", FALSE>> \in S
    BY <1>1, <1>5 DEF StepsOf, StepType, Owned, Final, CacheModes
  <2> HIDE DEF S
  <2> QED
    BY <2>1, <2>2 DEF RemoveCacheTier
<1> QED
  BY <1>3, <1>4, <1>5

LEMMA PlanSteps ==
  ASSUME NEW o \in OpType
  PROVE  Plan(o) \in Seq(StepsOf(o)) /\ ActionPlan(o) \in Seq(StepsOf(o))
<1> DEFINE S == StepsOf(o)
<1>1. /\ <<"params">> \in S /\ <<"validate">> \in S /\ <<"crushmap">> \in S
      /\ <<"admin">> \in S
  BY PlainSteps
<1>2. CASE o.op = "create-pool"
  <2>1. <<<<"exists">>>> \in Seq(S)
    BY <1>2, OwnedSteps DEF Owned
  <2>2. CreatePool(o) \in Seq(S) /\ CreatePoolPlan(o) \in Seq(S)
    <3>1. CreatePool(o) \in Seq(Ungrouped(o)) /\ CreatePoolPlan(o) \in Seq(S)
      BY <1>2, PoolSteps
    <3>2. Ungrouped(o) \subseteq S
      BY DEF Ungrouped
    <3> HIDE DEF S
    <3> QED
      BY <3>1, <3>2
  <2> QED
    BY <1>2, <2>1, <2>2 DEF Plan, ActionPlan
<1>3. CASE o.op = "create-cache-tier"
  BY <1>3, TierSteps DEF Plan, ActionPlan
<1>4. CASE o.op = "remove-cache-tier"
  <2>1. <<<<"tier-mode">>>> \in Seq(S)
    BY <1>4, OwnedSteps DEF Owned
  <2> QED
    BY <1>4, <2>1, TierSteps DEF Plan, ActionPlan
<1>5. CASE o.op = "create-erasure-profile"
  <2>1. <<"set-profile">> \in S /\ <<"no-profile">> \in S
    BY <1>5, OwnedSteps DEF Owned
  <2>2. ErasureProfilePlan \in Seq(S)
    BY <1>1, <2>1 DEF ErasureProfilePlan
  <2>3. Tail(ErasureProfilePlan) = <<<<"no-profile">>, <<"validate">>, <<"set-profile">>>>
    BY DEF ErasureProfilePlan
  <2>4. <<<<"no-profile">>, <<"validate">>, <<"set-profile">>>> \in Seq(S)
    BY <1>1, <2>1
  <2> QED
    BY <1>5, <2>2, <2>3, <2>4 DEF Plan, ActionPlan
<1>6. CASE o.op = "set-pool-value"
  <2>1. <<"set", o.key>> \in S
    BY <1>6, OpFields DEF StepsOf, StepType, Owned
  <2>2. SetPoolValuePlan(o) \in Seq(S) /\ <<<<"set", o.key>>>> \in Seq(S)
    BY <1>1, <2>1 DEF SetPoolValuePlan
  <2> QED
    BY <1>6, <2>2 DEF Plan, ActionPlan
<1>7. CASE o.op = "create-cephfs"
  <2>1. o.first \in Seq(Pools) /\ o.extra \in Seq(Pools) /\ o.first \o o.extra \in Seq(Pools)
    BY <1>7, OpFields
  <2>2. \A step \in {"needs", "fs-add"}, x \in Pools : <<step, x>> \in S
    BY <1>7 DEF StepsOf, StepType, Owned
  <2>3. Each("needs", o.first \o o.extra) \in Seq(S) /\ Each("fs-add", o.extra) \in Seq(S)
    <3>1. /\ \A x \in Pools : <<"needs", x>> \in S
          /\ \A x \in Pools : <<"fs-add", x>> \in S
      BY <2>2
    <3> HIDE DEF S
    <3> QED
      BY <2>1, <3>1, EachStep
  <2>4. <<"fs-new">> \in S /\ <<"no-fs">> \in S
    BY <1>7, OwnedSteps DEF Owned
  <2>5. <<<<"params">>>> \in Seq(S) /\ <<<<"no-fs">>, <<"fs-new">>>> \in Seq(S)
    BY <1>1, <2>4
  <2>6. CreateCephfsPlan(o) \in Seq(S)
    BY <2>3, <2>5 DEF CreateCephfsPlan
  <2> QED
    BY <1>7, <2>6 DEF Plan, ActionPlan
<1>8. CASE o.op \in {"create-cephfs-client", "set-key-permissions", "delete-pool", "rename-pool",
                    "delete-erasure-profile"}
  <2>1. /\ o.op = "create-cephfs-client" => <<"authorize">> \in S /\ <<"no-client">> \in S
        /\ o.op = "set-key-permissions" => <<"caps">> \in S
        /\ o.op = "delete-pool" => <<"delete">> \in S
        /\ o.op = "rename-pool" => <<"rename">> \in S
        /\ o.op = "delete-erasure-profile" => <<"remove-profile">> \in S
    BY OwnedSteps DEF Owned
  <2> HIDE DEF S
  <2>2. /\ o.op = "create-cephfs-client" =>
             <<<<"params">>, <<"no-client">>, <<"authorize">>>> \in Seq(S)
        /\ o.op = "set-key-permissions" => <<<<"caps">>>> \in Seq(S)
        /\ o.op = "delete-pool" => <<<<"delete">>>> \in Seq(S)
        /\ o.op = "rename-pool" => <<<<"rename">>>> \in Seq(S)
        /\ o.op = "delete-erasure-profile" => <<<<"remove-profile">>>> \in Seq(S)
        /\ <<<<"params">>, <<"admin">>>> \in Seq(S)
    BY <1>1, <2>1
  <2>3. Plan(o) \in Seq(S) /\ ActionPlan(o) \in Seq(S)
    BY <1>8, <2>2 DEF Plan, ActionPlan
  <2> QED
    BY <2>3 DEF S
<1>9. CASE o.op \in {"snapshot-pool", "remove-pool-snapshot"}
  <2>1. <<"snapshot", TRUE>> \in S /\ <<"snapshot", FALSE>> \in S
    BY <1>9 DEF StepsOf, StepType, Owned
  <2> QED
    BY <1>9, <2>1 DEF Plan, ActionPlan
<1>10. CASE o.op \in {"rgw", "move-osd-to-bucket", "unknown"}
  <2>1. <<<<"params">>, <<"admin">>>> \in Seq(S) /\ <<<<"params">>, <<"crushmap">>>> \in Seq(S)
    BY <1>1
  <2> QED
    BY <1>10, <2>1 DEF Plan, ActionPlan
<1> QED
  BY <1>2, <1>3, <1>4, <1>5, <1>6, <1>7, <1>8, <1>9, <1>10, OpFields

\* Step x is among the steps s.
Has(s, x) == \E k \in 1 .. Len(s) : s[k] = x

\* A run is at an operation of its request and has steps of that operation
\* before it.
WorkTypes ==
  /\ pools \in [Pools -> Properties \union {None}]
  /\ tiers \in [Pools -> Tier \union {None}]
  /\ todo \in [Proxies -> Seq(StepType)]
  /\ \A p \in Proxies : req[p] # None => pos[p] \in 0 .. Len(Ops[req[p]])
  /\ \A p \in Proxies :
       todo[p] # <<>> =>
         /\ req[p] # None /\ pos[p] > 0
         /\ todo[p] \in Seq(StepsOf(Op(p)))

\* The ways a handler goes on.
Outcome(p) ==
  \/ GoOn(p)
  \/ /\ \E steps \in Seq(StepsOf(Op(p))) :
          /\ Skip(p, steps)
          /\ Op(p).op = "create-pool" =>
               steps = IF req[p] \in Actions THEN <<>> ELSE UpdatePool(Op(p))
          /\ Op(p).op = "create-cephfs" => steps = <<>>
          /\ Op(p).op = "remove-cache-tier" => Head(todo[p])[1] = "tier-mode"
     /\ Op(p).op \notin {"create-cache-tier", "set-pool-value"}
     /\ Op(p).op = "create-pool" =>
          Head(todo[p]) = <<"exists">> /\ pools[Op(p).pool] # None
  \/ /\ \/ todo' = [todo EXCEPT ![p] = <<>>]
        \/ todo' = [todo EXCEPT ![p] = Tail(@)] /\ Head(todo[p])[1] = "preflight"
     /\ failed' = [failed EXCEPT ![p] = @ \union {pos[p]}]
     /\ UNCHANGED <<req, pos, answer>>
  \/ Raises(p)

\* Where a run with steps left is.
LEMMA AtOp ==
  ASSUME RunTypes, WorkTypes, NEW p \in Proxies, todo[p] # <<>>
  PROVE  /\ req[p] \in Requests /\ pos[p] \in DOMAIN Ops[req[p]]
         /\ Ops[req[p]] \in Seq(OpType)
         /\ Op(p) \in OpType
         /\ Head(todo[p]) \in StepsOf(Op(p))
         /\ Owned(Head(todo[p]), Op(p))
         /\ Tail(todo[p]) \in Seq(StepsOf(Op(p)))
<1>1. req[p] \in Requests
  BY DEF RunTypes, WorkTypes
<1>2. Ops[req[p]] \in Seq(OpType)
  BY <1>1, BrokerRequestsAssumption
<1>3. pos[p] \in 1 .. Len(Ops[req[p]])
  BY DEF WorkTypes
<1>4. todo[p] \in Seq(StepsOf(Op(p)))
  BY DEF WorkTypes
<1>5. Head(todo[p]) \in StepsOf(Op(p)) /\ Tail(todo[p]) \in Seq(StepsOf(Op(p)))
  BY <1>4
<1>6. Owned(Head(todo[p]), Op(p))
  BY <1>5 DEF StepsOf
<1> QED
  BY <1>1, <1>2, <1>3, <1>5, <1>6 DEF Op

\* Every step of a handler ends in one of these ways, and no look changes the
\* cluster.
LEMMA CheckOutcome ==
  ASSUME NEW p \in Proxies, CheckParams(p) \/ Validate(p) \/ LoadCrushmap(p)
  PROVE  /\ todo[p] # <<>> /\ Outcome(p)
         /\ UNCHANGED cluster
BY DEF CheckParams, Validate, LoadCrushmap, At, Returns, Outcome

LEMMA LookOutcome ==
  ASSUME RunTypes, WorkTypes, NEW p \in Proxies, NEW fault \in BOOLEAN, Look(p, fault)
  PROVE  /\ todo[p] # <<>> /\ Outcome(p)
         /\ UNCHANGED cluster
<1>1. todo[p] # <<>> /\ UNCHANGED cluster
  BY DEF Look, Cap, CheckProfile, ReadProfile, CheckExists, CheckNoProfile, CheckFsPool,
         CheckNoFs, CheckTierPool, Preflight, LookAtMode, CheckNoClient, At
<1>2. /\ Op(p) \in OpType /\ Owned(Head(todo[p]), Op(p))
      /\ Head(todo[p]) \in StepsOf(Op(p))
  BY <1>1, AtOp
<1>3. <<>> \in Seq(StepsOf(Op(p)))
  OBVIOUS
<1>4. CASE Cap(p, fault) \/ CheckProfile(p, fault) \/ ReadProfile(p, fault)
  BY <1>1, <1>4 DEF Cap, CheckProfile, ReadProfile, Returns, Outcome
<1>5. CASE CheckFsPool(p, fault) \/ CheckTierPool(p, fault) \/ Preflight(p, fault)
  BY <1>1, <1>5 DEF CheckFsPool, CheckTierPool, Preflight, At, Returns, Outcome
<1>6. CASE CheckExists(p, fault)
  <2>1. Head(todo[p])[1] = "exists"
    BY <1>6 DEF CheckExists, At
  <2>2. Head(todo[p]) = <<"exists">> /\ Op(p).op = "create-pool"
    BY <2>1, <1>2 DEF Owned, StepsOf, StepType
  <2>3. UpdatePool(Op(p)) \in Seq(StepsOf(Op(p)))
    <3>1. UpdatePool(Op(p)) \in Seq(Ungrouped(Op(p)))
      BY <1>2, <2>2, PoolSteps
    <3>2. Ungrouped(Op(p)) \subseteq StepsOf(Op(p))
      BY DEF Ungrouped
    <3> QED
      BY <3>1, <3>2
  <2> QED
    BY <1>1, <1>3, <1>6, <2>2, <2>3 DEF CheckExists, IfThere, Outcome
<1>7. CASE CheckNoProfile(p, fault)
  <2>1. Op(p).op = "create-erasure-profile"
    BY <1>2, <1>7 DEF CheckNoProfile, At, Owned
  <2> QED
    BY <1>1, <1>3, <1>7, <2>1 DEF CheckNoProfile, Outcome
<1>8. CASE CheckNoFs(p, fault)
  <2>1. Op(p).op = "create-cephfs"
    BY <1>2, <1>8 DEF CheckNoFs, At, Owned
  <2> QED
    BY <1>1, <1>3, <1>8, <2>1 DEF CheckNoFs, IfFsThere, Outcome
<1>9. CASE LookAtMode(p, fault)
  <2>1. Op(p).op = "remove-cache-tier"
    BY <1>2, <1>9 DEF LookAtMode, At, Owned
  <2>2. CacheMode(Op(p).hot) \in CacheModes
    BY <1>2, <2>1, OpFields DEF WorkTypes, CacheMode, CacheModes, Tier
  <2>3. RemoveCacheTier(CacheMode(Op(p).hot)) \in Seq(StepsOf(Op(p)))
    BY <1>2, <2>1, <2>2, TierSteps
  <2> QED
    BY <1>1, <1>9, <2>1, <2>3 DEF LookAtMode, At, Outcome
<1>10. CASE CheckNoClient(p, fault)
  <2>1. Op(p).op = "create-cephfs-client"
    BY <1>2, <1>10 DEF CheckNoClient, At, Owned
  <2> QED
    BY <1>1, <1>3, <1>10, <2>1 DEF CheckNoClient, Returns, Outcome
<1> QED
  BY <1>1, <1>4, <1>5, <1>6, <1>7, <1>8, <1>9, <1>10 DEF Look

LEMMA ChangeOutcome ==
  ASSUME RunTypes, WorkTypes, NEW p \in Proxies, NEW fault \in BOOLEAN, Change(p, fault)
  PROVE  todo[p] # <<>> /\ Outcome(p)
<1>1. todo[p] # <<>>
  BY DEF Change, At, AddToGroup, CreateCommand, SetCommand, DeleteCommand, RenameCommand,
         ProfileCommand, FsNewCommand, FsAddCommand, AdminCommand, SnapshotCommand,
         TierAddCommand, TierSetCommand, FlushCommand, TierRemoveCommand,
         RemoveProfileCommand, AuthorizeCommand, CapsCommand
<1>2. Owned(Head(todo[p]), Op(p))
  BY <1>1, AtOp
<1>3. CASE FsNewCommand(p, fault)
  <2>1. Op(p).op = "create-cephfs"
    BY <1>2, <1>3 DEF FsNewCommand, At, Owned
  <2>2. <<>> \in Seq(StepsOf(Op(p)))
    OBVIOUS
  <2> QED
    BY <1>1, <1>3, <2>1, <2>2 DEF FsNewCommand, Returns, Outcome
<1>4. CASE AddToGroup(p, fault) \/ CreateCommand(p, fault) \/ SetCommand(p, fault)
  BY <1>1, <1>4 DEF AddToGroup, CreateCommand, SetCommand, Outcome
<1>5. CASE DeleteCommand(p, fault) \/ RenameCommand(p, fault) \/ SnapshotCommand(p, fault)
  BY <1>1, <1>5 DEF DeleteCommand, RenameCommand, SnapshotCommand, Outcome
<1>6. CASE TierAddCommand(p, fault) \/ TierSetCommand(p, fault) \/ TierRemoveCommand(p, fault)
  BY <1>1, <1>6 DEF TierAddCommand, TierSetCommand, TierRemoveCommand, Outcome
<1>7. CASE FlushCommand(p, fault) \/ ProfileCommand(p, fault) \/ RemoveProfileCommand(p, fault)
  BY <1>1, <1>7 DEF FlushCommand, ProfileCommand, RemoveProfileCommand, Outcome
<1>8. CASE \/ FsAddCommand(p, fault) \/ AuthorizeCommand(p, fault)
           \/ CapsCommand(p, fault) \/ AdminCommand(p, fault)
  BY <1>1, <1>8 DEF FsAddCommand, AuthorizeCommand, CapsCommand, AdminCommand, Returns, Outcome
<1> QED
  BY <1>1, <1>3, <1>4, <1>5, <1>6, <1>7, <1>8 DEF Change

\* Pools and tiers are whole records: no command changes a property of a pool
\* or of a tier that is not there.
PoolTypes ==
  /\ pools \in [Pools -> Properties \union {None}]
  /\ tiers \in [Pools -> Tier \union {None}]

LEMMA TierUpdate ==
  ASSUME NEW t \in Tier, NEW st \in StepType, st[1] = "tier-set"
  PROVE  [t EXCEPT ![st[2]] = st[3]] \in Tier
<1>1. CASE st[2] = "mode"
  <2>1. st[3] \in CacheModes
    BY <1>1 DEF StepType
  <2>2. [t EXCEPT !.mode = st[3]] \in Tier
    BY <2>1 DEF Tier
  <2> QED
    BY <1>1, <2>2
<1>2. CASE st[2] = "overlay"
  <2>1. st[3] \in BOOLEAN
    BY <1>2 DEF StepType
  <2>2. [t EXCEPT !.overlay = st[3]] \in Tier
    BY <2>1 DEF Tier
  <2> QED
    BY <1>2, <2>2
<1>3. CASE st[2] = "bloom"
  <2>1. st[3] \in BOOLEAN
    BY <1>3 DEF StepType
  <2>2. [t EXCEPT !.bloom = st[3]] \in Tier
    BY <2>1 DEF Tier
  <2> QED
    BY <1>3, <2>2
<1>4. st[2] \in {"mode", "overlay", "bloom"}
  BY DEF StepType
<1> QED
  BY <1>1, <1>2, <1>3, <1>4

LEMMA ChangePools ==
  ASSUME RunTypes, WorkTypes, NEW p \in Proxies, NEW fault \in BOOLEAN, Change(p, fault)
  PROVE  PoolTypes'
<1>1. todo[p] # <<>>
  BY ChangeOutcome
<1> DEFINE o == Op(p)
<1>2. o \in OpType /\ Owned(Head(todo[p]), o) /\ Head(todo[p]) \in StepType
  BY <1>1, AtOp DEF StepsOf
<1>3. PoolTypes
  BY DEF PoolTypes, WorkTypes
<1>4. CASE CreateCommand(p, fault)
  <2>1. o.pool \in Pools
    BY <1>2, <1>4, OpFields DEF CreateCommand, At, Owned
  <2> QED
    BY <1>3, <1>4, <2>1 DEF CreateCommand, PoolTypes, Properties, tiering
<1>5. CASE SetCommand(p, fault)
  <2>1. o.op \in {"create-pool", "set-pool-value"}
    BY <1>2, <1>5 DEF SetCommand, At, Owned
  <2>2. Head(todo[p])[2] \in Settings
    BY <1>2, <1>5 DEF SetCommand, At, StepType
  <2>3. ValueOf(o, Head(todo[p])[2]) \in Values \union {None}
    BY <1>2, <2>1, <2>2, OpFields DEF ValueOf
  <2>4. o.pool \in Pools
    BY <1>2, <2>1, OpFields
  <2> QED
    BY <1>3, <1>5, <2>2, <2>3, <2>4 DEF SetCommand, PoolTypes, Properties, tiering
<1>6. CASE DeleteCommand(p, fault)
  BY <1>3, <1>6 DEF DeleteCommand, PoolTypes
<1>7. CASE RenameCommand(p, fault)
  <2>1. o.pool \in Pools /\ o.to \in Pools
    BY <1>2, <1>7, OpFields DEF RenameCommand, At, Owned
  <2> DEFINE moves == ~fault /\ pools[o.pool] # None /\ pools[o.to] = None
  <2> DEFINE swap == [x \in Pools |-> CASE ~moves -> x
                                        [] moves /\ x = o.pool -> o.to
                                        [] moves /\ x = o.to -> o.pool
                                        [] OTHER -> x]
  <2>2. swap \in [Pools -> Pools]
    BY <2>1
  <2>3. /\ pools' = [x \in Pools |-> pools[swap[x]]]
        /\ tiers' = [x \in Pools |->
                       IF tiers[swap[x]] = None THEN None
                       ELSE [tiers[swap[x]] EXCEPT !.cold = swap[@]]]
    BY <1>7 DEF RenameCommand
  <2> HIDE DEF swap
  <2>4. pools' \in [Pools -> Properties \union {None}]
    BY <1>3, <2>2, <2>3 DEF PoolTypes
  <2>5. tiers' \in [Pools -> Tier \union {None}]
    BY <1>3, <2>2, <2>3 DEF PoolTypes, Tier
  <2> QED
    BY <2>4, <2>5 DEF PoolTypes
<1>8. CASE TierAddCommand(p, fault)
  <2>1. o.cold \in Pools /\ o.hot \in Pools
    BY <1>2, <1>8, OpFields DEF TierAddCommand, At, Owned
  <2>2. [cold |-> o.cold, mode |-> "none", overlay |-> FALSE, bloom |-> FALSE] \in Tier
    BY <2>1 DEF Tier, CacheModes
  <2> QED
    BY <1>3, <1>8, <2>1, <2>2 DEF TierAddCommand, PoolTypes
<1>9. CASE TierSetCommand(p, fault)
  <2>1. o.hot \in Pools
    BY <1>2, <1>9, OpFields DEF TierSetCommand, At, Owned
  <2>2. tiers[o.hot] # None =>
          [tiers[o.hot] EXCEPT ![Head(todo[p])[2]] = Head(todo[p])[3]] \in Tier
    BY <1>2, <1>3, <1>9, <2>1, TierUpdate DEF TierSetCommand, At, PoolTypes
  <2> QED
    BY <1>3, <1>9, <2>1, <2>2 DEF TierSetCommand, PoolTypes
<1>10. CASE TierRemoveCommand(p, fault)
  BY <1>3, <1>10 DEF TierRemoveCommand, PoolTypes
<1>11. CASE UNCHANGED <<pools, tiers>>
  BY <1>3, <1>11 DEF PoolTypes
<1> QED
  BY <1>4, <1>5, <1>6, <1>7, <1>8, <1>9, <1>10, <1>11
  DEF Change, AddToGroup, ProfileCommand, FsNewCommand, FsAddCommand, AdminCommand,
      SnapshotCommand, FlushCommand, RemoveProfileCommand, AuthorizeCommand, CapsCommand,
      tiering, cluster, rest

\* What a step does to the run of p leaves the runs of the others alone.
LEMMA OutcomeFrame ==
  ASSUME RunTypes, WorkTypes, NEW p \in Proxies, todo[p] # <<>>, Outcome(p),
         NEW q \in Proxies, q # p
  PROVE  UNCHANGED <<req[q], pos[q], todo[q], failed[q], answer[q]>>
BY DEF Outcome, GoOn, Skip, Raises, Answer, RunTypes, WorkTypes

\* However a step ends, what is left to do belongs to the operation.
LEMMA OutcomeWork ==
  ASSUME RunTypes, WorkTypes, NEW p \in Proxies, todo[p] # <<>>, Outcome(p), PoolTypes'
  PROVE  WorkTypes'
<1> DEFINE S == StepsOf(Op(p))
<1>1. Tail(todo[p]) \in Seq(S) /\ Seq(S) \subseteq Seq(StepType)
  BY AtOp DEF StepsOf
<1>2. CASE req'[p] = None /\ todo'[p] = <<>> /\ todo' \in [Proxies -> Seq(StepType)]
           /\ \A q \in Proxies : q # p => UNCHANGED <<req[q], pos[q], todo[q]>>
  BY <1>2 DEF WorkTypes, PoolTypes, Op
<1>3. CASE \E steps \in Seq(S) :
             todo' = [todo EXCEPT ![p] = steps] /\ UNCHANGED <<req, pos>>
  <2>1. PICK steps \in Seq(S) :
          todo' = [todo EXCEPT ![p] = steps] /\ UNCHANGED <<req, pos>>
    BY <1>3
  <2>2. todo' \in [Proxies -> Seq(StepType)]
    BY <1>1, <2>1 DEF WorkTypes
  <2>3. \A q \in Proxies : Op(q)' = Op(q)
    BY <2>1 DEF Op
  <2>4. ASSUME NEW q \in Proxies, todo'[q] # <<>>
        PROVE  req'[q] # None /\ pos'[q] > 0 /\ todo'[q] \in Seq(StepsOf(Op(q)'))
    <3>1. CASE q = p
      BY <2>1, <2>3, <3>1 DEF WorkTypes
    <3>2. CASE q # p
      BY <2>1, <2>3, <2>4, <3>2 DEF WorkTypes
    <3> QED
      BY <3>1, <3>2
  <2>5. \A q \in Proxies : req'[q] # None => pos'[q] \in 0 .. Len(Ops[req'[q]])
    BY <2>1 DEF WorkTypes
  <2> QED
    BY <2>2, <2>4, <2>5 DEF WorkTypes, PoolTypes
<1>4. CASE Raises(p)
  <2>1. /\ req'[p] = None /\ todo'[p] = <<>>
        /\ todo' = [todo EXCEPT ![p] = <<>>]
    BY <1>4 DEF Raises, Answer, RunTypes, WorkTypes
  <2>2. todo' \in [Proxies -> Seq(StepType)]
    BY <2>1 DEF WorkTypes
  <2> QED
    BY <1>2, <2>1, <2>2, OutcomeFrame
<1>5. CASE ~Raises(p)
  <2>1. <<>> \in Seq(S)
    OBVIOUS
  <2> QED
    BY <1>1, <1>3, <1>5, <2>1 DEF Outcome, GoOn, Skip
<1> QED
  BY <1>4, <1>5

TypeInv == RunTypes /\ WorkTypes

LEMMA InitTypes == Init => TypeInv
<1> SUFFICES ASSUME Init PROVE WorkTypes
  BY InitRun DEF TypeInv
<1> QED
  BY DEF Init, WorkTypes

\* What p takes up or ends outside of a handler.
LEMMA BetweenWork ==
  ASSUME TypeInv, NEW p \in Proxies,
         (\E r \in Requests : Start(p, r)) \/ NextOp(p) \/ Reply(p) \/ Crash(p)
  PROVE  WorkTypes' /\ UNCHANGED cluster
<1> USE DEF TypeInv
<1>1. PoolTypes
  BY DEF PoolTypes, WorkTypes
<1>2. CASE \E r \in Requests : Start(p, r)
  <2>1. todo[p] = <<>>
    BY <1>2 DEF Start, WorkTypes
  <2>2. PICK r \in Requests : Start(p, r)
    BY <1>2
  <2>3. UNCHANGED <<pools, tiers, todo>>
    BY <2>2 DEF Start, cluster, tiering
  <2>4. \A q \in Proxies : q # p => UNCHANGED <<req[q], pos[q]>>
    BY <2>2 DEF Start, RunTypes
  <2>5. \A q \in Proxies : q # p => Op(q)' = Op(q)
    BY <2>4 DEF Op
  <2>6. \A q \in Proxies :
          todo'[q] # <<>> => req'[q] # None /\ pos'[q] > 0 /\ todo'[q] \in Seq(StepsOf(Op(q)'))
    BY <2>1, <2>3, <2>4, <2>5 DEF WorkTypes
  <2>7. \A q \in Proxies : req'[q] # None => pos'[q] \in 0 .. Len(Ops[req'[q]])
    <3>1. pos'[p] = 0 /\ req'[p] = r
      BY <2>2 DEF Start, RunTypes
    <3>2. Len(Ops[r]) \in Nat
      BY BrokerRequestsAssumption
    <3> QED
      BY <2>4, <3>1, <3>2 DEF WorkTypes
  <2>8. todo' \in [Proxies -> Seq(StepType)]
    BY <2>3 DEF WorkTypes
  <2>9. PoolTypes'
    BY <1>1, <2>3 DEF PoolTypes
  <2>10. WorkTypes'
    BY <2>6, <2>7, <2>8, <2>9 DEF WorkTypes, PoolTypes
  <2> QED
    BY <2>2, <2>10 DEF Start
<1>3. CASE NextOp(p)
  <2>1. req[p] \in Requests /\ Ops[req[p]] \in Seq(OpType)
    BY <1>3, BrokerRequestsAssumption DEF NextOp, RunTypes
  <2>2. pos[p] + 1 \in DOMAIN Ops[req[p]] /\ pos[p] \in Nat
    BY <1>3, <2>1 DEF NextOp, RunTypes
  <2> DEFINE o == Ops[req[p]][pos[p] + 1]
  <2>3. o \in OpType
    BY <2>1, <2>2
  <2>4. CASE o.op = "unknown"
    <3>1. Answer(p, FALSE, failed[p] \union {pos[p] + 1}) /\ UNCHANGED cluster
      BY <1>3, <2>4 DEF NextOp
    <3>2. /\ todo' = [todo EXCEPT ![p] = <<>>] /\ req' = [req EXCEPT ![p] = None]
          /\ pos' = pos /\ UNCHANGED <<pools, tiers>>
      BY <3>1 DEF Answer, cluster, tiering
    <3>3. todo' \in [Proxies -> Seq(StepType)] /\ req'[p] = None /\ todo'[p] = <<>>
      BY <3>2 DEF WorkTypes, RunTypes
    <3>4. \A q \in Proxies : q # p => UNCHANGED <<req[q], pos[q], todo[q], Op(q)>>
      BY <3>2 DEF Op
    <3> QED
      BY <3>1, <3>2, <3>3, <3>4 DEF WorkTypes
  <2>5. CASE o.op # "unknown"
    <3>1. PICK steps \in Seq(StepsOf(o)) :
            todo' = [todo EXCEPT ![p] = steps]
      <4>1. todo' = [todo EXCEPT ![p] = IF req[p] \in Actions THEN ActionPlan(o) ELSE Plan(o)]
        BY <1>3, <2>5 DEF NextOp
      <4> HIDE DEF o
      <4> QED
        BY <2>3, <4>1, PlanSteps
    <3>2. pos' = [pos EXCEPT ![p] = @ + 1] /\ req' = req /\ UNCHANGED cluster
      BY <1>3, <2>5 DEF NextOp
    <3>3. Op(p)' = o /\ req'[p] # None /\ pos'[p] = pos[p] + 1
      BY <1>3, <3>2 DEF Op, RunTypes, NextOp
    <3>4. \A q \in Proxies : q # p => UNCHANGED <<req[q], pos[q], todo[q], Op(q)>>
      BY <3>1, <3>2 DEF Op
    <3>5. todo' \in [Proxies -> Seq(StepType)] /\ todo'[p] \in Seq(StepsOf(Op(p)'))
      <4> HIDE DEF o
      <4>1. steps \in Seq(StepType)
        BY <3>1 DEF StepsOf
      <4> QED
        BY <3>1, <3>3, <4>1 DEF WorkTypes
    <3>6. UNCHANGED <<pools, tiers>>
      BY <3>2 DEF cluster, tiering
    <3>7. pos'[p] > 0 /\ pos'[p] \in 0 .. Len(Ops[req'[p]])
      BY <2>1, <2>2, <3>2, <3>3
    <3> QED
      BY <3>2, <3>3, <3>4, <3>5, <3>6, <3>7 DEF WorkTypes
  <2> QED
    BY <2>4, <2>5
<1>4. CASE Reply(p) \/ Crash(p)
  <2>1. /\ req' = [req EXCEPT ![p] = None] /\ pos' = pos /\ UNCHANGED cluster
        /\ todo' = [todo EXCEPT ![p] = <<>>] \/ (todo' = todo /\ todo[p] = <<>>)
    BY <1>4 DEF Reply, Crash, Answer
  <2>2. todo' = [todo EXCEPT ![p] = <<>>]
    BY <2>1 DEF WorkTypes
  <2>3. todo' \in [Proxies -> Seq(StepType)] /\ req'[p] = None /\ todo'[p] = <<>>
    BY <2>1, <2>2 DEF WorkTypes, RunTypes
  <2>4. \A q \in Proxies : q # p => UNCHANGED <<req[q], pos[q], todo[q], Op(q)>>
    BY <2>1, <2>2 DEF Op
  <2>5. UNCHANGED <<pools, tiers>>
    BY <2>1 DEF cluster, tiering
  <2> QED
    BY <2>1, <2>3, <2>4, <2>5 DEF WorkTypes
<1> QED
  BY <1>2, <1>3, <1>4

\* The types that the other proofs count on.
LEMMA NextTypes == TypeInv /\ [Next]_vars => TypeInv'
<1> SUFFICES ASSUME TypeInv, [Next]_vars PROVE WorkTypes'
  BY NextRun DEF TypeInv
<1> USE DEF TypeInv
<1>1. PoolTypes
  BY DEF PoolTypes, WorkTypes
<1>2. ASSUME NEW p \in Proxies, Proxy(p) PROVE WorkTypes'
  <2>1. CASE CheckParams(p) \/ Validate(p) \/ LoadCrushmap(p)
    <3>1. todo[p] # <<>> /\ Outcome(p) /\ UNCHANGED cluster
      BY <2>1, CheckOutcome
    <3>2. PoolTypes'
      BY <1>1, <3>1 DEF PoolTypes, cluster, tiering
    <3> QED
      BY <3>1, <3>2, OutcomeWork
  <2>2. ASSUME NEW fault \in BOOLEAN, Look(p, fault) PROVE WorkTypes'
    <3>1. todo[p] # <<>> /\ Outcome(p) /\ UNCHANGED cluster
      BY <2>2, LookOutcome
    <3>2. PoolTypes'
      BY <1>1, <3>1 DEF PoolTypes, cluster, tiering
    <3> QED
      BY <3>1, <3>2, OutcomeWork
  <2>3. ASSUME NEW fault \in BOOLEAN, Change(p, fault) PROVE WorkTypes'
    BY <2>3, ChangeOutcome, ChangePools, OutcomeWork
  <2>4. CASE (\E r \in Requests : Start(p, r)) \/ NextOp(p) \/ Reply(p) \/ Crash(p)
    BY <2>4, BetweenWork
  <2> QED
    BY <1>2, <2>1, <2>2, <2>3, <2>4 DEF Proxy
<1>3. CASE \E x \in Pools : ClientWrites(x)
  BY <1>3 DEF ClientWrites, WorkTypes, Op
<1>4. CASE UNCHANGED vars
  BY <1>4 DEF vars, cluster, tiering, WorkTypes, Op
<1> QED
  BY <1>2, <1>3, <1>4 DEF Next

-----------------------------------------------------------------------------
\* What an answer promises of an operation, each by the step that brings it
\* about.
Goals(o) ==
  {st \in StepType :
     \/ /\ o.op = "create-pool"
        /\ \/ st = <<"create">>
           \/ st = <<"group">> /\ o.group
           \/ st[1] = "set" /\ st[2] \in MutableSettings /\ o.want[st[2]] # None
     \/ /\ o.op = "create-cache-tier"
        /\ \/ st = <<"tier-add">>
           \/ st[1] = "tier-set" /\ st[3] = Final(o, st[2])}

\* What st is to bring about for o is so.
Reached(o, st) ==
  /\ st[1] = "group" => o.pool \in grouped
  /\ st[1] \in {"create", "set"} => pools[o.pool] # None
  /\ st[1] = "set" => pools[o.pool][st[2]] = o.want[st[2]]
  /\ st[1] \in {"tier-add", "tier-set"} => tiers[o.hot] # None
  /\ st[1] = "tier-add" => tiers[o.hot].cold = o.cold
  /\ st[1] = "tier-set" => tiers[o.hot][st[2]] = st[3]

\* The only other operations about the same pools.
LEMMA Rivals ==
  ASSUME TypeInv, NEW q \in Proxies, todo[q] # <<>>,
         NEW r \in Requests, NEW i \in Settled[r],
         Ops[r][i].op \in {"create-pool", "create-cache-tier"},
         NEW x \in Touches(Op(q)), x \in Touches(Ops[r][i])
  PROVE  \/ Op(q) = Ops[r][i]
         \/ /\ Ops[r][i].op = "create-cache-tier"
            /\ Op(q).op \notin {"create-cache-tier", "remove-cache-tier", "rename-pool"}
<1>1. req[q] \in Requests /\ pos[q] \in DOMAIN Ops[req[q]]
  BY AtOp DEF TypeInv
<1>2. Settles(r, i) /\ Steady(r, i) /\ i \in DOMAIN Ops[r]
  BY DEF Settled
<1>3. Op(q) = Ops[req[q]][pos[q]]
  BY DEF Op
<1>4. Touches(Ops[req[q]][pos[q]]) \intersect Touches(Ops[r][i]) # {}
  BY <1>3
<1>5. req[q] = r /\ (pos[q] = i \/ (pos[q] < i /\ Ops[r][i].op # "create-pool"))
  BY <1>1, <1>2, <1>4 DEF Settles
<1> QED
  BY <1>1, <1>2, <1>3, <1>4, <1>5 DEF Steady

\* Nobody undoes what an operation reached.
LEMMA ChangeKeeps ==
  ASSUME TypeInv, NEW q \in Proxies, NEW fault \in BOOLEAN, Change(q, fault),
         NEW r \in Requests, NEW i \in Settled[r], NEW st \in Goals(Ops[r][i]),
         Reached(Ops[r][i], st)
  PROVE  Reached(Ops[r][i], st)'
<1> DEFINE o == Ops[r][i]
           oq == Op(q)
<1>1. todo[q] # <<>>
  BY ChangeOutcome DEF TypeInv
<1>2. /\ oq \in OpType /\ Owned(Head(todo[q]), oq) /\ Head(todo[q]) \in StepsOf(oq)
      /\ Head(todo[q]) \in StepType
  BY <1>1, AtOp DEF TypeInv, StepsOf
<1>3. i \in DOMAIN Ops[r] /\ Ops[r] \in Seq(OpType)
  BY BrokerRequestsAssumption DEF Settled
<1>4. o \in OpType
  BY <1>3
<1>5. o.op \in {"create-pool", "create-cache-tier"}
  BY DEF Goals
<1>6. \A x : x \in Touches(oq) /\ x \in Touches(o) =>
        \/ oq = o
        \/ /\ o.op = "create-cache-tier"
           /\ oq.op \notin {"create-cache-tier", "remove-cache-tier", "rename-pool"}
  BY <1>1, <1>5, Rivals
<1>7. /\ o.op = "create-pool" => Touches(o) = {o.pool} /\ o.pool \in Pools
      /\ o.op = "create-cache-tier" =>
           Touches(o) = {o.cold, o.hot} /\ o.hot \in Pools /\ o.cold \in Pools
  BY <1>4, OpFields DEF Touches
<1>8. /\ o.op = "create-pool" => st[1] \in {"group", "create", "set"}
      /\ o.op = "create-cache-tier" => st[1] \in {"tier-add", "tier-set"}
  BY DEF Goals
<1>9. PoolTypes
  BY DEF TypeInv, WorkTypes, PoolTypes
<1>10. st \in StepType /\ Reached(o, st)
  BY DEF Goals
<1>11. \A s \in StepType : s[1] = "tier-set" => s[2] \in {"mode", "overlay", "bloom"}
  BY DEF StepType
<1>12. o.op = "create-cache-tier" /\ st[1] = "tier-set" => st[3] = Final(o, st[2])
  BY DEF Goals
<1> HIDE DEF o, oq
<1>13. SUFFICES Reached(o, st)'
  BY DEF o
<1>14. CASE UNCHANGED <<pools, tiers, grouped>>
  BY <1>10, <1>14 DEF Reached
<1>15. CASE AddToGroup(q, fault)
  BY <1>10, <1>15 DEF AddToGroup, Reached, tiering
<1>16. CASE CreateCommand(q, fault)
  <2>1. UNCHANGED <<tiers, grouped>>
    BY <1>16 DEF CreateCommand, tiering, rest
  <2>2. o.op = "create-pool" /\ pools[o.pool] # None => pools'[o.pool] = pools[o.pool]
    BY <1>7, <1>9, <1>16 DEF CreateCommand, PoolTypes, oq
  <2> QED
    BY <1>5, <1>8, <1>10, <2>1, <2>2 DEF Reached
<1>17. CASE SetCommand(q, fault)
  <2>1. UNCHANGED <<tiers, grouped>>
    BY <1>17 DEF SetCommand, tiering, rest
  <2>2. oq.op \in {"create-pool", "set-pool-value"} /\ oq.pool \in Pools
        /\ Head(todo[q])[2] \in Settings
    <3>1. Head(todo[q])[1] = "set"
      BY <1>17 DEF SetCommand, At
    <3> QED
      BY <1>2, <3>1, OpFields DEF Owned, StepType
  <2>3. oq.pool \in Touches(oq)
    BY <2>2 DEF Touches
  <2>4. CASE o.op = "create-pool" /\ oq.pool # o.pool
    <3>1. pools'[o.pool] = pools[o.pool]
      BY <1>7, <1>9, <1>17, <2>2, <2>4 DEF SetCommand, PoolTypes, oq
    <3> QED
      BY <1>8, <1>10, <2>1, <2>4, <3>1 DEF Reached
  <2>5. CASE o.op = "create-pool" /\ oq.pool = o.pool
    <3>1. oq = o
      BY <1>6, <1>7, <2>3, <2>5
    <3>2. \/ pools' = pools
          \/ /\ pools[o.pool] # None
             /\ pools' = [pools EXCEPT ![o.pool][Head(todo[q])[2]] = o.want[Head(todo[q])[2]]]
      BY <1>17, <2>5, <3>1 DEF SetCommand, ValueOf, oq
    <3>3. o.want \in [Settings -> Values \union {None}]
      BY <1>4, <2>5, OpFields
    <3>4. CASE /\ pools[o.pool] # None
               /\ pools' = [pools EXCEPT ![o.pool][Head(todo[q])[2]] = o.want[Head(todo[q])[2]]]
      <4>1. pools[o.pool] \in Properties
        BY <1>7, <1>9, <2>5, <3>4 DEF PoolTypes
      <4>2. pools'[o.pool] = [pools[o.pool] EXCEPT ![Head(todo[q])[2]] = o.want[Head(todo[q])[2]]]
        BY <1>7, <1>9, <2>5, <3>4 DEF PoolTypes
      <4>3. pools'[o.pool] \in Properties
        BY <2>2, <3>3, <4>1, <4>2 DEF Properties
      <4>4. pools'[o.pool] # None
        BY <4>3, BrokerRequestsAssumption
      <4>5. \A s \in Settings : pools[o.pool][s] = o.want[s] => pools'[o.pool][s] = o.want[s]
        BY <2>2, <4>1, <4>2 DEF Properties
      <4>6. st[1] = "set" => st[2] \in Settings
        BY <1>10 DEF StepType
      <4> QED
        BY <1>8, <1>10, <2>1, <2>5, <4>4, <4>5, <4>6 DEF Reached
    <3> QED
      BY <1>8, <1>10, <2>1, <2>5, <3>2, <3>4 DEF Reached
  <2>6. CASE o.op = "create-cache-tier"
    BY <1>8, <1>10, <2>1, <2>6 DEF Reached
  <2> QED
    BY <1>5, <2>4, <2>5, <2>6
<1>18. CASE DeleteCommand(q, fault)
  <2>1. oq.op = "delete-pool"
    BY <1>2, <1>18 DEF DeleteCommand, At, Owned
  <2>2. oq.pool \in Touches(oq)
    BY <2>1 DEF Touches
  <2>3. o.op = "create-pool" => oq.pool # o.pool
    BY <1>6, <1>7, <2>1, <2>2
  <2>4. o.op = "create-pool" => pools'[o.pool] = pools[o.pool]
    BY <1>7, <1>9, <1>18, <2>3 DEF DeleteCommand, PoolTypes, oq
  <2> QED
    BY <1>5, <1>8, <1>10, <1>18, <2>4 DEF DeleteCommand, Reached, rest
<1>19. CASE RenameCommand(q, fault)
  <2>1. oq.op = "rename-pool" /\ oq.pool \in Pools /\ oq.to \in Pools
    BY <1>2, <1>19, OpFields DEF RenameCommand, At, Owned
  <2>2. Touches(oq) = {oq.pool, oq.to}
    BY <2>1 DEF Touches
  <2>3. \A x \in {oq.pool, oq.to} : x \notin Touches(o)
    BY <1>5, <1>6, <2>1, <2>2
  <2> DEFINE moves == ~fault /\ pools[oq.pool] # None /\ pools[oq.to] = None
             swap == [x \in Pools |-> CASE ~moves -> x
                                        [] moves /\ x = oq.pool -> oq.to
                                        [] moves /\ x = oq.to -> oq.pool
                                        [] OTHER -> x]
  <2>4. /\ pools' = [x \in Pools |-> pools[swap[x]]]
        /\ tiers' = [x \in Pools |->
                       IF tiers[swap[x]] = None THEN None
                       ELSE [tiers[swap[x]] EXCEPT !.cold = swap[@]]]
        /\ grouped' = grouped
    BY <1>19 DEF RenameCommand, oq
  <2>5. \A x \in Pools : x \in Touches(o) => swap[x] = x
    BY <2>3
  <2> HIDE DEF swap, moves
  <2>6. CASE o.op = "create-pool"
    <3>1. pools'[o.pool] = pools[o.pool]
      BY <1>7, <2>4, <2>5, <2>6
    <3> QED
      BY <1>8, <1>10, <2>4, <2>6, <3>1 DEF Reached
  <2>7. CASE o.op = "create-cache-tier"
    <3>1. swap[o.hot] = o.hot /\ swap[o.cold] = o.cold
      BY <1>7, <2>5, <2>7
    <3>2. tiers[o.hot] # None
      BY <1>8, <1>10, <2>7 DEF Reached
    <3>3. tiers[o.hot] \in Tier
      BY <1>7, <1>9, <2>7, <3>2 DEF PoolTypes
    <3>4. tiers'[o.hot] = [tiers[o.hot] EXCEPT !.cold = swap[@]]
      BY <1>7, <2>4, <2>7, <3>1, <3>2
    <3>5. /\ tiers'[o.hot].cold = swap[tiers[o.hot].cold]
          /\ \A f \in {"mode", "overlay", "bloom"} : tiers'[o.hot][f] = tiers[o.hot][f]
      BY <3>3, <3>4 DEF Tier
    <3>6. tiers'[o.hot] # None
      <4>1. PoolTypes'
        BY ChangePools DEF TypeInv
      <4>2. swap[tiers[o.hot].cold] \in Pools
        BY <2>1, <3>3 DEF Tier, swap
      <4>3. tiers'[o.hot] \in Tier
        BY <3>3, <3>4, <4>2 DEF Tier
      <4> QED
        BY <4>3, BrokerRequestsAssumption
    <3> QED
      BY <1>8, <1>10, <1>11, <2>7, <3>1, <3>5, <3>6 DEF Reached
  <2> QED
    BY <1>5, <2>6, <2>7
<1>20. CASE TierAddCommand(q, fault)
  <2>1. UNCHANGED <<pools, grouped>>
    BY <1>20 DEF TierAddCommand, rest
  <2>2. o.op = "create-cache-tier" /\ tiers[o.hot] # None => tiers'[o.hot] = tiers[o.hot]
    BY <1>7, <1>9, <1>20 DEF TierAddCommand, PoolTypes, oq
  <2> QED
    BY <1>5, <1>8, <1>10, <2>1, <2>2 DEF Reached
<1>21. CASE TierSetCommand(q, fault)
  <2>1. UNCHANGED <<pools, grouped>>
    BY <1>21 DEF TierSetCommand, rest
  <2> DEFINE hd == Head(todo[q])
  <2>2. hd[1] = "tier-set" /\ hd[2] \in {"mode", "overlay", "bloom"}
    BY <1>2, <1>11, <1>21 DEF TierSetCommand, At
  <2>3. oq.op \in {"create-cache-tier", "remove-cache-tier"}
    BY <1>2, <2>2 DEF Owned
  <2>4. oq.hot \in Touches(oq) /\ oq.hot \in Pools
    BY <1>2, <2>3, OpFields DEF Touches
  <2>5. CASE o.op = "create-pool"
    BY <1>8, <1>10, <2>1, <2>5 DEF Reached
  <2>6. CASE o.op = "create-cache-tier" /\ oq.hot # o.hot
    <3>1. tiers'[o.hot] = tiers[o.hot]
      BY <1>7, <1>9, <1>21, <2>4, <2>6 DEF TierSetCommand, PoolTypes, oq
    <3> QED
      BY <1>8, <1>10, <2>1, <2>6, <3>1 DEF Reached
  <2>7. CASE o.op = "create-cache-tier" /\ oq.hot = o.hot
    <3>1. oq = o
      BY <1>6, <1>7, <2>3, <2>4, <2>7
    <3>2. hd[3] = Final(o, hd[2])
      BY <1>2, <2>2, <2>7, <3>1 DEF StepsOf
    <3>3. tiers[o.hot] # None
      BY <1>8, <1>10, <2>7 DEF Reached
    <3>4. tiers[o.hot] \in Tier
      BY <1>7, <1>9, <2>7, <3>3 DEF PoolTypes
    <3>5. \/ tiers' = tiers
          \/ tiers' = [tiers EXCEPT ![o.hot] = [@ EXCEPT ![hd[2]] = hd[3]]]
      BY <1>21, <2>7 DEF TierSetCommand, oq
    <3>6. CASE tiers' = [tiers EXCEPT ![o.hot] = [@ EXCEPT ![hd[2]] = hd[3]]]
      <4>1. tiers'[o.hot] = [tiers[o.hot] EXCEPT ![hd[2]] = hd[3]]
        BY <1>7, <1>9, <2>7, <3>6 DEF PoolTypes
      <4>2. tiers'[o.hot] \in Tier
        BY <1>2, <2>2, <3>4, <4>1, TierUpdate
      <4>3. tiers'[o.hot] # None
        BY <4>2, BrokerRequestsAssumption
      <4>4. /\ tiers'[o.hot].cold = tiers[o.hot].cold
            /\ \A f \in {"mode", "overlay", "bloom"} :
                 tiers'[o.hot][f] = IF f = hd[2] THEN hd[3] ELSE tiers[o.hot][f]
        BY <2>2, <3>4, <4>1 DEF Tier
      <4> QED
        BY <1>8, <1>10, <1>11, <1>12, <2>7, <3>2, <4>3, <4>4 DEF Reached
    <3> QED
      BY <1>8, <1>10, <2>1, <2>7, <3>5, <3>6 DEF Reached
  <2> QED
    BY <1>5, <2>5, <2>6, <2>7
<1>22. CASE TierRemoveCommand(q, fault)
  <2>1. UNCHANGED <<pools, grouped>>
    BY <1>22 DEF TierRemoveCommand, rest
  <2>2. oq.op = "remove-cache-tier"
    BY <1>2, <1>22 DEF TierRemoveCommand, At, Owned
  <2>3. oq.hot \in Touches(oq)
    BY <2>2 DEF Touches
  <2>4. o.op = "create-cache-tier" => oq.hot # o.hot
    BY <1>6, <1>7, <2>2, <2>3
  <2>5. o.op = "create-cache-tier" => tiers'[o.hot] = tiers[o.hot]
    BY <1>7, <1>9, <1>22, <2>4 DEF TierRemoveCommand, PoolTypes, oq
  <2> QED
    BY <1>5, <1>8, <1>10, <2>1, <2>5 DEF Reached
<1> QED
  BY <1>14, <1>15, <1>16, <1>17, <1>18, <1>19, <1>20, <1>21, <1>22
  DEF Change, ProfileCommand, FsNewCommand, FsAddCommand, AdminCommand, SnapshotCommand,
      FlushCommand, RemoveProfileCommand, AuthorizeCommand, CapsCommand, tiering, cluster, rest

LEMMA HeadAt ==
  ASSUME TypeInv, NEW p \in Proxies, todo[p] # <<>>
  PROVE  /\ Op(p) \in OpType
         /\ Head(todo[p]) \in StepsOf(Op(p)) /\ Head(todo[p]) \in StepType
         /\ Owned(Head(todo[p]), Op(p))
BY AtOp DEF TypeInv, StepsOf

\* The command a step stands for.
LEMMA Commands ==
  ASSUME NEW p, NEW fault, Change(p, fault)
  PROVE  LET step == Head(todo[p])[1]
         IN /\ step = "group" => AddToGroup(p, fault)
            /\ step = "create" => CreateCommand(p, fault)
            /\ step = "set" => SetCommand(p, fault)
            /\ step = "tier-add" => TierAddCommand(p, fault)
            /\ step = "tier-set" => TierSetCommand(p, fault)
BY DEF Change, At, AddToGroup, CreateCommand, SetCommand, DeleteCommand,
       RenameCommand, ProfileCommand, FsNewCommand, FsAddCommand, AdminCommand,
       SnapshotCommand, TierAddCommand, TierSetCommand, FlushCommand, TierRemoveCommand,
       RemoveProfileCommand, AuthorizeCommand, CapsCommand

\* A handler that goes on after a step has reached what the step is for.
LEMMA ChangeReaches ==
  ASSUME TypeInv, NEW p \in Proxies, NEW fault \in BOOLEAN, Change(p, fault),
         GoOn(p), NEW o, o = Op(p), NEW st \in Goals(o), st = Head(todo[p])
  PROVE  Reached(o, st)'
<1>1. todo[p] # <<>>
  BY ChangeOutcome DEF TypeInv
<1>2. o \in OpType /\ Owned(st, o) /\ st \in StepType
  BY <1>1, HeadAt
<1>3. ~Raises(p)
  BY <1>1, AtOp, BrokerRequestsAssumption DEF GoOn, Raises, Answer, TypeInv, RunTypes
<1>4. PoolTypes /\ PoolTypes'
  BY ChangePools DEF TypeInv, WorkTypes, PoolTypes
<1>5. /\ o.op \in {"create-pool", "create-cache-tier"}
      /\ st[1] \in {"create", "group", "set", "tier-add", "tier-set"}
  BY DEF Goals
<1>6. /\ o.op = "create-pool" => o.pool \in Pools /\ o.want \in [Settings -> Values \union {None}]
      /\ o.op = "create-cache-tier" => o.hot \in Pools /\ o.cold \in Pools
  BY <1>2, OpFields
<1>7. CASE st[1] = "group"
  <2>1. AddToGroup(p, fault)
    BY <1>7, Commands
  <2>2. o.pool \in grouped'
    BY <1>3, <2>1 DEF AddToGroup
  <2> QED
    BY <1>7, <2>2 DEF Reached
<1>8. CASE st[1] = "create"
  <2>1. CreateCommand(p, fault)
    BY <1>8, Commands
  <2>2. o.op = "create-pool"
    BY <1>2, <1>8 DEF Owned
  <2>3. [s \in Settings |-> None] # None
    <3>1. [s \in Settings |-> None] \in Properties
      BY DEF Properties
    <3> QED
      BY <3>1, BrokerRequestsAssumption
  <2>4. pools'[o.pool] # None
    BY <1>3, <1>4, <1>6, <2>1, <2>2, <2>3 DEF CreateCommand, PoolTypes
  <2> QED
    BY <1>8, <2>4 DEF Reached
<1>9. CASE st[1] = "set"
  <2>1. SetCommand(p, fault)
    BY <1>9, Commands
  <2>2. o.op = "create-pool" /\ st[2] \in MutableSettings
    BY <1>9 DEF Goals
  <2>3. st[2] \in Settings /\ st[2] \notin {"app", "autoscale"}
    BY <2>2 DEF Settings, MutableSettings
  <2>4. /\ pools[o.pool] # None
        /\ pools' = [pools EXCEPT ![o.pool][st[2]] = o.want[st[2]]]
    BY <1>3, <2>1, <2>2, <2>3 DEF SetCommand, Tolerated, ValueOf
  <2>5. pools[o.pool] \in Properties
    BY <1>4, <1>6, <2>2, <2>4 DEF PoolTypes
  <2>6. pools'[o.pool] = [pools[o.pool] EXCEPT ![st[2]] = o.want[st[2]]]
    BY <1>4, <1>6, <2>2, <2>4 DEF PoolTypes
  <2>7. pools'[o.pool] \in Properties
    BY <1>6, <2>2, <2>3, <2>5, <2>6 DEF Properties
  <2>8. pools'[o.pool] # None /\ pools'[o.pool][st[2]] = o.want[st[2]]
    BY <2>3, <2>5, <2>6, <2>7, BrokerRequestsAssumption DEF Properties
  <2> QED
    BY <1>9, <2>8 DEF Reached
<1>10. CASE st[1] = "tier-add"
  <2>1. TierAddCommand(p, fault)
    BY <1>10, Commands
  <2>2. o.op = "create-cache-tier"
    BY <1>2, <1>10 DEF Owned
  <2> DEFINE new == [cold |-> o.cold, mode |-> "none", overlay |-> FALSE, bloom |-> FALSE]
  <2>3. new \in Tier
    BY <1>6, <2>2 DEF Tier, CacheModes
  <2>4. new # None /\ new.cold = o.cold
    BY <2>3, BrokerRequestsAssumption
  <2>5. /\ CanAdd(o)
        /\ tiers' = IF tiers[o.hot] = None THEN [tiers EXCEPT ![o.hot] = new] ELSE tiers
    BY <1>3, <2>1 DEF TierAddCommand
  <2> HIDE DEF new
  <2>6. tiers'[o.hot] # None /\ tiers'[o.hot].cold = o.cold
    BY <1>4, <1>6, <2>2, <2>4, <2>5 DEF CanAdd, InUse, PoolTypes
  <2> QED
    BY <1>10, <2>6 DEF Reached
<1>11. CASE st[1] = "tier-set"
  <2>1. TierSetCommand(p, fault)
    BY <1>11, Commands
  <2>2. o.op = "create-cache-tier" /\ st[2] \in {"mode", "overlay", "bloom"}
    BY <1>2, <1>5, <1>11 DEF Goals, StepType
  <2>3. /\ tiers[o.hot] # None
        /\ tiers' = [tiers EXCEPT ![o.hot] = [@ EXCEPT ![st[2]] = st[3]]]
    BY <1>3, <2>1 DEF TierSetCommand
  <2>4. tiers[o.hot] \in Tier
    BY <1>4, <1>6, <2>2, <2>3 DEF PoolTypes
  <2>5. tiers'[o.hot] = [tiers[o.hot] EXCEPT ![st[2]] = st[3]]
    BY <1>4, <1>6, <2>2, <2>3 DEF PoolTypes
  <2>6. tiers'[o.hot] \in Tier
    BY <1>2, <1>11, <2>4, <2>5, TierUpdate
  <2>7. tiers'[o.hot] # None /\ tiers'[o.hot][st[2]] = st[3]
    BY <2>2, <2>4, <2>5, <2>6, BrokerRequestsAssumption DEF Tier
  <2> QED
    BY <1>11, <2>7 DEF Reached
<1> QED
  BY <1>5, <1>7, <1>8, <1>9, <1>10, <1>11

\* What is among the steps of a part is among those of the whole.
LEMMA HasJoined ==
  ASSUME NEW S, NEW A \in Seq(S), NEW B \in Seq(S), NEW x, Has(A, x) \/ Has(B, x)
  PROVE  Has(A \o B, x)
<1>1. CASE Has(A, x)
  <2>1. PICK k \in 1 .. Len(A) : A[k] = x
    BY <1>1 DEF Has
  <2>2. k \in 1 .. Len(A \o B) /\ (A \o B)[k] = x
    BY <2>1
  <2> QED
    BY <2>2 DEF Has
<1>2. CASE Has(B, x)
  <2>1. PICK k \in 1 .. Len(B) : B[k] = x
    BY <1>2 DEF Has
  <2>2. Len(A) + k \in 1 .. Len(A \o B) /\ (A \o B)[Len(A) + k] = x
    BY <2>1
  <2> QED
    BY <2>2 DEF Has
<1> QED
  BY <1>1, <1>2

LEMMA HasTail ==
  ASSUME NEW S, NEW A \in Seq(S), A # <<>>, NEW x, Has(A, x), Head(A) # x
  PROVE  Has(Tail(A), x)
<1>1. PICK k \in 1 .. Len(A) : A[k] = x
  BY DEF Has
<1>2. k > 1
  BY <1>1
<1>3. k - 1 \in 1 .. Len(Tail(A)) /\ Tail(A)[k - 1] = x
  BY <1>1, <1>2
<1> QED
  BY <1>3 DEF Has

\* Updating a pool sets whatever may change.
LEMMA UpdateHas ==
  ASSUME NEW o \in OpType, o.op = "create-pool", NEW s \in MutableSettings, o.want[s] # None
  PROVE  Has(UpdatePool(o), <<"set", s>>)
<1> DEFINE S == Ungrouped(o)
           x == <<"set", s>>
<1>1. <<<<"validate">>>> \in Seq(S)
  <2>1. <<"validate">> \in S
    BY PlainSteps DEF Ungrouped
  <2> QED
    BY <2>1
<1>2. Want(o, "quota") \in Seq(S) /\ Want(o, "compression") \in Seq(S)
  BY WantStep DEF Settings, MutableSettings
<1>3. Has(Want(o, s), x)
  BY DEF Has, Want, When
<1>4. s = "quota" \/ s = "compression"
  BY DEF MutableSettings
<1> HIDE DEF S, x
<1>5. CASE s = "compression"
  <2>1. <<<<"validate">>>> \o Want(o, "quota") \in Seq(S)
    BY <1>1, <1>2
  <2> QED
    BY <1>2, <1>3, <1>5, <2>1, HasJoined DEF UpdatePool, x
<1>6. CASE s = "quota"
  <2>1. Has(<<<<"validate">>>> \o Want(o, "quota"), x)
    BY <1>1, <1>2, <1>3, <1>6, HasJoined
  <2>2. <<<<"validate">>>> \o Want(o, "quota") \in Seq(S)
    BY <1>1, <1>2
  <2> QED
    BY <1>2, <2>1, <2>2, HasJoined DEF UpdatePool, x
<1> QED
  BY <1>4, <1>5, <1>6

LEMMA CreateHas ==
  ASSUME NEW o \in OpType, o.op = "create-pool"
  PROVE  Has(CreatePool(o), <<"create">>)
<1> DEFINE S == StepsOf(o)
           pre == <<<<"validate">>>> \o When(o.kind = "erasure", <<"read-profile">>)
<1>1. <<"validate">> \in S /\ <<"read-profile">> \in S /\ <<"create">> \in S
  BY PlainSteps, OwnedSteps DEF Owned
<1>2. pre \in Seq(S) /\ <<<<"create">>>> \in Seq(S)
  <2> HIDE DEF S
  <2>1. When(o.kind = "erasure", <<"read-profile">>) \in Seq(S)
    BY <1>1 DEF When
  <2> QED
    BY <1>1, <2>1
<1>3. Has(pre \o <<<<"create">>>>, <<"create">>)
  <2>1. Has(<<<<"create">>>>, <<"create">>)
    BY DEF Has
  <2> HIDE DEF S, pre
  <2> QED
    BY <1>2, <2>1, HasJoined
<1>4. PostCreate(o) \in Seq(S) /\ UpdatePool(o) \in Seq(S)
  <2>1. PostCreate(o) \in Seq(Ungrouped(o)) /\ UpdatePool(o) \in Seq(Ungrouped(o))
    BY PoolSteps
  <2>2. Ungrouped(o) \subseteq S
    BY DEF Ungrouped
  <2> HIDE DEF S
  <2> QED
    BY <2>1, <2>2
<1>5. pre \o <<<<"create">>>> \in Seq(S)
  <2> HIDE DEF S, pre
  <2> QED
    BY <1>2
<1>6. /\ Has((pre \o <<<<"create">>>>) \o PostCreate(o), <<"create">>)
      /\ (pre \o <<<<"create">>>>) \o PostCreate(o) \in Seq(S)
  <2> HIDE DEF S, pre
  <2>1. (pre \o <<<<"create">>>>) \o PostCreate(o) \in Seq(S)
    BY <1>4, <1>5
  <2>2. Has((pre \o <<<<"create">>>>) \o PostCreate(o), <<"create">>)
    BY <1>3, <1>4, <1>5, HasJoined
  <2> QED
    BY <2>1, <2>2
<1>7. Has(((pre \o <<<<"create">>>>) \o PostCreate(o)) \o UpdatePool(o), <<"create">>)
  <2> HIDE DEF S, pre
  <2> QED
    BY <1>4, <1>6, HasJoined
<1> QED
  BY <1>7 DEF CreatePool

LEMMA TierHas ==
  ASSUME NEW o \in OpType, o.op = "create-cache-tier", NEW st \in Goals(o)
  PROVE  Has(AddCacheTier(o), st)
<1>1. \/ st = <<"tier-add">>
      \/ st = <<"tier-set", "mode", o.mode>>
      \/ st = <<"tier-set", "overlay", TRUE>>
      \/ st = <<"tier-set", "bloom", TRUE>>
  <2>1. st = <<"tier-add">> \/ (st[1] = "tier-set" /\ st[3] = Final(o, st[2]))
    BY DEF Goals
  <2>2. st[1] = "tier-set" => /\ st[2] \in {"mode", "overlay", "bloom"}
                             /\ st = <<"tier-set", st[2], st[3]>>
    BY DEF Goals, StepType
  <2> QED
    BY <2>1, <2>2 DEF Final
<1>2. /\ Len(AddCacheTier(o)) = 5
      /\ AddCacheTier(o)[2] = <<"tier-add">>
      /\ AddCacheTier(o)[3] = <<"tier-set", "mode", o.mode>>
      /\ AddCacheTier(o)[4] = <<"tier-set", "overlay", TRUE>>
      /\ AddCacheTier(o)[5] = <<"tier-set", "bloom", TRUE>>
  BY DEF AddCacheTier
<1>3. \E k \in {2, 3, 4, 5} : AddCacheTier(o)[k] = st
  BY <1>1, <1>2
<1>4. {2, 3, 4, 5} \subseteq 1 .. Len(AddCacheTier(o))
  BY <1>2
<1> QED
  BY <1>3, <1>4 DEF Has

\* A handler has a step for all that its operation promises.
LEMMA PlanHas ==
  ASSUME NEW o \in OpType, NEW st \in Goals(o)
  PROVE  Has(Plan(o), st)
<1> DEFINE S == StepsOf(o)
<1>1. CASE o.op = "create-cache-tier"
  <2>1. TierPools("tier-pool", o) \in Seq(S) /\ AddCacheTier(o) \in Seq(S)
    BY <1>1, TierSteps
  <2>2. Has(AddCacheTier(o), st)
    BY <1>1, TierHas
  <2>3. Has(TierPools("tier-pool", o) \o AddCacheTier(o), st)
    BY <2>1, <2>2, HasJoined
  <2> QED
    BY <1>1, <2>3 DEF Plan
<1>2. CASE o.op = "create-pool"
  <2> DEFINE grouping == When(o.kind = "replicated" /\ o.pg, <<"cap">>)
                           \o When(o.group, <<"group">>)
             checks == (grouping \o When(o.kind = "erasure", <<"profile">>))
                         \o <<<<"params">>, <<"exists">>, <<"exists">>>>
  <2>1. /\ <<"cap">> \in S /\ <<"group">> \in S /\ <<"profile">> \in S
        /\ <<"params">> \in S /\ <<"exists">> \in S
    BY <1>2, PlainSteps, OwnedSteps DEF Owned
  <2>2. UpdatePool(o) \in Seq(S) /\ CreatePool(o) \in Seq(S)
    <3>1. UpdatePool(o) \in Seq(Ungrouped(o)) /\ CreatePool(o) \in Seq(Ungrouped(o))
      BY <1>2, PoolSteps
    <3>2. Ungrouped(o) \subseteq S
      BY DEF Ungrouped
    <3> HIDE DEF S
    <3> QED
      BY <3>1, <3>2
  <2> HIDE DEF S
  <2>3. /\ When(o.kind = "replicated" /\ o.pg, <<"cap">>) \in Seq(S)
        /\ When(o.group, <<"group">>) \in Seq(S)
        /\ When(o.kind = "erasure", <<"profile">>) \in Seq(S)
        /\ <<<<"params">>, <<"exists">>, <<"exists">>>> \in Seq(S)
    BY <2>1 DEF When
  <2>4. grouping \in Seq(S)
    BY <2>3
  <2>5. checks \in Seq(S)
    <3> HIDE DEF grouping
    <3> QED
      BY <2>3, <2>4
  <2>6. CreatePoolPlan(o) = (checks \o CreatePool(o)) \o UpdatePool(o)
    BY DEF CreatePoolPlan
  <2>7. (checks \o CreatePool(o)) \in Seq(S)
    <3> HIDE DEF checks
    <3> QED
      BY <2>2, <2>5
  <2>8. CASE st = <<"create">>
    <3>1. Has(CreatePool(o), st)
      BY <1>2, <2>8, CreateHas
    <3> HIDE DEF checks
    <3>2. Has(checks \o CreatePool(o), st)
      BY <2>2, <2>5, <3>1, HasJoined
    <3>3. Has((checks \o CreatePool(o)) \o UpdatePool(o), st)
      BY <2>2, <2>7, <3>2, HasJoined
    <3> QED
      BY <1>2, <2>6, <3>3 DEF Plan
  <2>9. CASE st[1] = "set"
    <3>1. st[2] \in MutableSettings /\ o.want[st[2]] # None /\ st = <<"set", st[2]>>
      BY <1>2, <2>9 DEF Goals, StepType
    <3>2. Has(UpdatePool(o), st)
      BY <1>2, <3>1, UpdateHas
    <3> HIDE DEF checks
    <3>3. Has((checks \o CreatePool(o)) \o UpdatePool(o), st)
      BY <2>2, <2>7, <3>2, HasJoined
    <3> QED
      BY <1>2, <2>6, <3>3 DEF Plan
  <2>10. CASE st = <<"group">> /\ o.group
    <3>1. Has(When(o.group, <<"group">>), st)
      BY <2>10 DEF When, Has
    <3>2. Has(grouping, st)
      BY <2>3, <3>1, HasJoined
    <3>3. Has(grouping \o When(o.kind = "erasure", <<"profile">>), st)
          /\ grouping \o When(o.kind = "erasure", <<"profile">>) \in Seq(S)
      <4> HIDE DEF grouping
      <4>1. Has(grouping \o When(o.kind = "erasure", <<"profile">>), st)
        BY <2>3, <2>4, <3>2, HasJoined
      <4>2. grouping \o When(o.kind = "erasure", <<"profile">>) \in Seq(S)
        BY <2>3, <2>4
      <4> QED
        BY <4>1, <4>2
    <3>4. Has(checks, st)
      <4> HIDE DEF grouping
      <4> QED
        BY <2>3, <3>3, HasJoined
    <3> HIDE DEF checks
    <3>5. Has(checks \o CreatePool(o), st)
      BY <2>2, <2>5, <3>4, HasJoined
    <3>6. Has((checks \o CreatePool(o)) \o UpdatePool(o), st)
      BY <2>2, <2>7, <3>5, HasJoined
    <3> QED
      BY <1>2, <2>6, <3>6 DEF Plan
  <2> QED
    BY <1>2, <2>8, <2>9, <2>10 DEF Goals
<1> QED
  BY <1>1, <1>2 DEF Goals

\* So has an action, of which less can be asked.
LEMMA ActionHas ==
  ASSUME NEW o \in OpType, NEW st \in Goals(o),
         o.op = "create-pool" => ~o.group /\ \A s \in MutableSettings : o.want[s] = None
  PROVE  Has(ActionPlan(o), st)
<1> DEFINE S == StepsOf(o)
<1>1. CASE o.op = "create-cache-tier"
  <2>1. TierPools("preflight", o) \in Seq(S) /\ AddCacheTier(o) \in Seq(S)
    BY <1>1, TierSteps
  <2>2. Has(AddCacheTier(o), st)
    BY <1>1, TierHas
  <2>3. Has(TierPools("preflight", o) \o AddCacheTier(o), st)
    BY <2>1, <2>2, HasJoined
  <2> QED
    BY <1>1, <2>3 DEF ActionPlan
<1>2. CASE o.op = "create-pool"
  <2>1. st = <<"create">>
    BY <1>2 DEF Goals
  <2>2. <<"exists">> \in Ungrouped(o)
    BY <1>2, OwnedSteps DEF Owned, Ungrouped
  <2>3. <<<<"exists">>>> \in Seq(Ungrouped(o)) /\ CreatePool(o) \in Seq(Ungrouped(o))
    BY <1>2, <2>2, PoolSteps
  <2>4. Has(CreatePool(o), st)
    BY <1>2, <2>1, CreateHas
  <2>5. Has(<<<<"exists">>>> \o CreatePool(o), st)
    BY <2>3, <2>4, HasJoined
  <2> QED
    BY <1>2, <2>5 DEF ActionPlan
<1> QED
  BY <1>1, <1>2 DEF Goals

\* Nothing but the cap on pg_num comes before the step that adds a pool to its
\* group, so that no handler leaves it out.
Early(s) ==
  \A k \in 1 .. Len(s) : s[k] = <<"group">> => k = 1 \/ (k = 2 /\ s[1] = <<"cap">>)

\* Only the steps of a new pool hold a step for its group, at their start.
LEMMA EarlyPlain ==
  ASSUME NEW o, NEW s \in Seq(Ungrouped(o))
  PROVE  Early(s)
<1>1. \A k \in 1 .. Len(s) : s[k] \in Ungrouped(o)
  OBVIOUS
<1> QED
  BY <1>1 DEF Early, Ungrouped

LEMMA EarlyOther ==
  ASSUME NEW o, o.op # "create-pool", NEW s \in Seq(StepsOf(o))
  PROVE  Early(s)
<1>1. <<"group">> \notin StepsOf(o)
  BY DEF StepsOf, Owned
<1> QED
  BY <1>1 DEF Early

LEMMA EarlyJoined ==
  ASSUME NEW o, NEW A \in Seq(StepsOf(o)), Early(A), NEW B \in Seq(Ungrouped(o))
  PROVE  Early(A \o B) /\ A \o B \in Seq(StepsOf(o))
<1>1. \A k \in 1 .. Len(B) : B[k] # <<"group">>
  <2>1. \A k \in 1 .. Len(B) : B[k] \in Ungrouped(o)
    OBVIOUS
  <2> QED
    BY <2>1 DEF Ungrouped
<1>2. B \in Seq(StepsOf(o))
  <2>1. Ungrouped(o) \subseteq StepsOf(o)
    BY DEF Ungrouped
  <2> QED
    BY <2>1
<1>3. ASSUME NEW k \in 1 .. Len(A \o B), (A \o B)[k] = <<"group">>
      PROVE  k = 1 \/ (k = 2 /\ (A \o B)[1] = <<"cap">>)
  <2>1. CASE k <= Len(A)
    <3>1. A[k] = <<"group">> /\ (A \o B)[1] = A[1]
      BY <1>2, <1>3, <2>1
    <3> QED
      BY <2>1, <3>1 DEF Early
  <2>2. CASE k > Len(A)
    <3>1. k - Len(A) \in 1 .. Len(B) /\ B[k - Len(A)] = <<"group">>
      BY <1>2, <1>3, <2>2
    <3> QED
      BY <1>1, <3>1
  <2> QED
    BY <2>1, <2>2
<1> QED
  BY <1>2, <1>3 DEF Early

LEMMA PlanEarly ==
  ASSUME NEW o \in OpType
  PROVE  Early(Plan(o)) /\ Early(ActionPlan(o))
<1>1. CASE o.op # "create-pool"
  BY <1>1, PlanSteps, EarlyOther
<1>2. CASE o.op = "create-pool"
  <2> DEFINE grouping == When(o.kind = "replicated" /\ o.pg, <<"cap">>)
                           \o When(o.group, <<"group">>)
             profile == When(o.kind = "erasure", <<"profile">>)
             checks == <<<<"params">>, <<"exists">>, <<"exists">>>>
  <2>1. /\ <<"cap">> \in StepsOf(o) /\ <<"group">> \in StepsOf(o)
        /\ <<"profile">> \in Ungrouped(o)
        /\ <<"params">> \in Ungrouped(o) /\ <<"exists">> \in Ungrouped(o)
    BY <1>2, PlainSteps, OwnedSteps DEF Owned, Ungrouped
  <2>2. grouping \in Seq(StepsOf(o)) /\ Early(grouping)
    BY <2>1 DEF When, Early
  <2>3. profile \in Seq(Ungrouped(o)) /\ checks \in Seq(Ungrouped(o))
    BY <2>1 DEF When
  <2>4. CreatePool(o) \in Seq(Ungrouped(o)) /\ UpdatePool(o) \in Seq(Ungrouped(o))
    BY <1>2, PoolSteps
  <2>5. CreatePoolPlan(o) = (((grouping \o profile) \o checks) \o CreatePool(o)) \o UpdatePool(o)
    BY DEF CreatePoolPlan
  <2>6. Early((((grouping \o profile) \o checks) \o CreatePool(o)) \o UpdatePool(o))
    <3> HIDE DEF grouping, profile, checks
    <3>1. Early(grouping \o profile) /\ grouping \o profile \in Seq(StepsOf(o))
      BY <2>2, <2>3, EarlyJoined
    <3>2. /\ Early((grouping \o profile) \o checks)
          /\ (grouping \o profile) \o checks \in Seq(StepsOf(o))
      BY <2>3, <3>1, EarlyJoined
    <3>3. /\ Early(((grouping \o profile) \o checks) \o CreatePool(o))
          /\ ((grouping \o profile) \o checks) \o CreatePool(o) \in Seq(StepsOf(o))
      BY <2>4, <3>2, EarlyJoined
    <3> QED
      BY <2>4, <3>3, EarlyJoined
  <2>7. Early(<<<<"exists">>>> \o CreatePool(o))
    <3>1. <<<<"exists">>>> \in Seq(Ungrouped(o))
      BY <2>1
    <3>2. <<<<"exists">>>> \o CreatePool(o) \in Seq(Ungrouped(o))
      BY <2>4, <3>1
    <3> QED
      BY <3>2, EarlyPlain
  <2> HIDE DEF grouping, profile, checks
  <2> QED
    BY <1>2, <2>5, <2>6, <2>7 DEF Plan, ActionPlan
<1> QED
  BY <1>1, <1>2

-----------------------------------------------------------------------------
\* All that a run promises for the operations it is past holds, and for the one
\* it is at, holds or is still to do.
Promised(p) ==
  req[p] # None =>
    \A i \in Settled[req[p]] \ failed[p] : \A st \in Goals(Ops[req[p]][i]) :
      /\ i < pos[p] => Reached(Ops[req[p]][i], st)
      /\ i = pos[p] => Reached(Ops[req[p]][i], st) \/ Has(todo[p], st)

\* The inductive invariant: what runs and answers promise, and that a pool
\* enters its group before anything may be left out.
GoalInv == \A p \in Proxies : Promised(p)

GroupsEarly == \A p \in Proxies : Early(todo[p])

Answered(p) ==
  answer[p] # None /\ answer[p].ok =>
    /\ answer[p].req \in Requests
    /\ \A i \in Acknowledged(p) : \A st \in Goals(Ops[answer[p].req][i]) :
         Reached(Ops[answer[p].req][i], st)

AnswerInv == \A p \in Proxies : Answered(p)

PromiseInv == TypeInv /\ GoalInv /\ GroupsEarly /\ AnswerInv

\* Nothing that was reached is undone.
Keeps ==
  \A r \in Requests : \A i \in Settled[r] : \A st \in Goals(Ops[r][i]) :
    Reached(Ops[r][i], st) => Reached(Ops[r][i], st)'

\* A run that does not move keeps its promises.
LEMMA OthersPromise ==
  ASSUME PromiseInv, Keeps, NEW p \in Proxies, NEW q \in Proxies,
         UNCHANGED <<req[q], pos[q], todo[q], failed[q]>>
  PROVE  Promised(q)' /\ Early(todo[q])'
<1>1. Early(todo[q])'
  BY DEF PromiseInv, GroupsEarly
<1>2. ASSUME req[q] # None, NEW i \in Settled[req[q]] \ failed[q],
             NEW st \in Goals(Ops[req[q]][i])
      PROVE  /\ i < pos[q] => Reached(Ops[req[q]][i], st)'
             /\ i = pos[q] => Reached(Ops[req[q]][i], st)' \/ Has(todo[q], st)
  <2>1. req[q] \in Requests
    BY <1>2 DEF PromiseInv, TypeInv, RunTypes
  <2>2. /\ i < pos[q] => Reached(Ops[req[q]][i], st)
        /\ i = pos[q] => Reached(Ops[req[q]][i], st) \/ Has(todo[q], st)
    BY <1>2 DEF PromiseInv, GoalInv, Promised
  <2>3. Reached(Ops[req[q]][i], st) => Reached(Ops[req[q]][i], st)'
    BY <1>2, <2>1 DEF Keeps
  <2> QED
    BY <2>2, <2>3
<1>3. Promised(q)'
  BY <1>2 DEF Promised
<1> QED
  BY <1>1, <1>3

\* No step of anybody undoes what was reached for an operation that only
\* earlier ones of its request interfere with.
LEMMA NextKeeps == TypeInv /\ [Next]_vars => Keeps
<1> SUFFICES ASSUME TypeInv, [Next]_vars PROVE Keeps
  OBVIOUS
<1>1. CASE UNCHANGED <<pools, tiers, grouped>>
  BY <1>1 DEF Keeps, Reached
<1>2. ASSUME NEW p \in Proxies, NEW fault \in BOOLEAN, Change(p, fault)
      PROVE  Keeps
  BY <1>2, ChangeKeeps DEF Keeps
<1>3. ASSUME NEW p \in Proxies, Proxy(p) PROVE Keeps
  <2>1. CASE CheckParams(p) \/ Validate(p) \/ LoadCrushmap(p)
    BY <1>1, <2>1, CheckOutcome DEF cluster, tiering, rest
  <2>2. ASSUME NEW fault \in BOOLEAN, Look(p, fault) PROVE Keeps
    BY <1>1, <2>2, LookOutcome DEF cluster, tiering, rest, TypeInv
  <2>3. CASE (\E r \in Requests : Start(p, r)) \/ NextOp(p) \/ Reply(p) \/ Crash(p)
    BY <1>1, <2>3, BetweenWork DEF cluster, tiering, rest
  <2> QED
    BY <1>2, <1>3, <2>1, <2>2, <2>3 DEF Proxy
<1>4. CASE \E x \in Pools : ClientWrites(x)
  BY <1>1, <1>4 DEF ClientWrites, rest
<1>5. CASE UNCHANGED vars
  BY <1>1, <1>5 DEF vars, cluster, tiering, rest
<1> QED
  BY <1>3, <1>4, <1>5 DEF Next

\* An answer that stays is still true.
LEMMA AnswerKept ==
  ASSUME PromiseInv, Keeps, NEW q \in Proxies, answer'[q] = answer[q]
  PROVE  Answered(q)'
<1>1. Answered(q)
  BY DEF PromiseInv, AnswerInv
<1>2. ASSUME answer[q] # None /\ answer[q].ok, NEW i \in Acknowledged(q),
             NEW st \in Goals(Ops[answer[q].req][i])
      PROVE  Reached(Ops[answer[q].req][i], st)'
  <2>1. answer[q].req \in Requests /\ i \in Settled[answer[q].req]
    BY <1>1, <1>2 DEF Answered, Acknowledged
  <2>2. Reached(Ops[answer[q].req][i], st)
    BY <1>1, <1>2 DEF Answered
  <2> QED
    BY <1>2, <2>1, <2>2 DEF Keeps
<1>3. Acknowledged(q)' = Acknowledged(q)
  BY DEF Acknowledged
<1> QED
  BY <1>1, <1>2, <1>3 DEF Answered

\* However a step of a handler ends, what it leaves out is not promised: a step
\* is behind when its end is reached, steps are left out when the pool is there
\* and in its group, and an operation with an error promises nothing.
LEMMA OutcomePromise ==
  ASSUME PromiseInv, Keeps, NEW p \in Proxies, todo[p] # <<>>, Outcome(p),
         NEW o, o = Op(p),
         \A st \in Goals(o) : GoOn(p) /\ st = Head(todo[p]) => Reached(o, st)'
  PROVE  GoalInv' /\ GroupsEarly' /\ AnswerInv'
<1> USE DEF PromiseInv, TypeInv
<1>1. \A q \in Proxies : q # p => UNCHANGED <<req[q], pos[q], todo[q], failed[q], answer[q]>>
  BY OutcomeFrame
<1>2. \A q \in Proxies : q # p => Promised(q)' /\ Early(todo[q])' /\ Answered(q)'
  BY <1>1, OthersPromise, AnswerKept
<1>3. /\ req[p] \in Requests /\ o \in OpType /\ o = Ops[req[p]][pos[p]]
      /\ Head(todo[p]) \in StepsOf(o) /\ todo[p] \in Seq(StepsOf(o))
      /\ Tail(todo[p]) \in Seq(StepsOf(o)) /\ pos[p] \in DOMAIN Ops[req[p]]
  BY AtOp DEF WorkTypes, Op
<1>4. Promised(p) /\ Early(todo[p])
  BY DEF GoalInv, GroupsEarly
<1>5. CASE Raises(p)
  <2>1. /\ req' = [req EXCEPT ![p] = None] /\ todo' = [todo EXCEPT ![p] = <<>>]
        /\ answer' = [answer EXCEPT ![p] = [req |-> req[p], ok |-> FALSE,
                                            failed |-> failed[p] \union {pos[p]}]]
    BY <1>5 DEF Raises, Answer
  <2>2. req'[p] = None /\ todo'[p] = <<>> /\ ~answer'[p].ok
    BY <2>1 DEF RunTypes, WorkTypes
  <2>3. Promised(p)' /\ Early(todo[p])' /\ Answered(p)'
    BY <2>2 DEF Promised, Early, Answered
  <2> QED
    BY <1>2, <2>3 DEF GoalInv, GroupsEarly, AnswerInv
<1>6. SUFFICES ASSUME ~Raises(p) PROVE Promised(p)' /\ Early(todo[p])' /\ Answered(p)'
  BY <1>2, <1>5 DEF GoalInv, GroupsEarly, AnswerInv
<1>7. answer'[p] = answer[p] /\ UNCHANGED <<req, pos>>
  BY <1>6 DEF Outcome, GoOn, Skip
<1>8. Answered(p)'
  BY <1>7, AnswerKept
\* What is left to show: the operation p is at keeps its promises, if it has not
\* failed.
<1>9. ASSUME pos[p] \in Settled[req[p]] \ failed'[p] =>
               \A st \in Goals(o) : Reached(o, st)' \/ Has(todo'[p], st),
             failed[p] \subseteq failed'[p]
      PROVE  Promised(p)'
  <2>1. ASSUME NEW i \in Settled[req[p]] \ failed'[p], NEW st \in Goals(Ops[req[p]][i])
        PROVE  /\ i < pos[p] => Reached(Ops[req[p]][i], st)'
               /\ i = pos[p] => Reached(Ops[req[p]][i], st)' \/ Has(todo'[p], st)
    <3>1. i < pos[p] => Reached(Ops[req[p]][i], st)
      BY <1>3, <1>4, <1>9, <2>1, BrokerRequestsAssumption DEF Promised
    <3>2. i \in Settled[req[p]]
      OBVIOUS
    <3>3. Reached(Ops[req[p]][i], st) => Reached(Ops[req[p]][i], st)'
      BY <1>3, <1>7, <3>2 DEF Keeps
    <3>4. i = pos[p] => Reached(Ops[req[p]][i], st)' \/ Has(todo'[p], st)
      <4> SUFFICES ASSUME i = pos[p] PROVE Reached(o, st)' \/ Has(todo'[p], st)
        BY <1>3, <1>7
      <4>1. st \in Goals(o) /\ pos[p] \in Settled[req[p]] \ failed'[p]
        BY <1>3
      <4> QED
        BY <1>9, <4>1
    <3> QED
      BY <3>1, <3>3, <3>4
  <2> QED
    BY <1>7, <2>1 DEF Promised
<1>10. CASE GoOn(p)
  <2>1. todo'[p] = Tail(todo[p]) /\ failed' = failed
    BY <1>10 DEF GoOn, WorkTypes
  <2>2. ASSUME pos[p] \in Settled[req[p]] \ failed[p], NEW st \in Goals(o)
        PROVE  Reached(o, st)' \/ Has(Tail(todo[p]), st)
    <3>1. Reached(o, st) \/ Has(todo[p], st)
      BY <1>3, <1>4, <2>2, BrokerRequestsAssumption DEF Promised
    <3>2. CASE Reached(o, st)
      BY <1>3, <2>2, <3>2 DEF Keeps
    <3>3. CASE Has(todo[p], st) /\ st # Head(todo[p])
      BY <1>3, <3>3, HasTail
    <3>4. CASE st = Head(todo[p])
      BY <1>10, <3>4
    <3> QED
      BY <3>1, <3>2, <3>3, <3>4
  <2>3. Promised(p)'
    BY <1>9, <2>1, <2>2
  <2>4. Early(Tail(todo[p]))
    <3>1. \A k \in 1 .. Len(Tail(todo[p])) :
            k + 1 \in 1 .. Len(todo[p]) /\ Tail(todo[p])[k] = todo[p][k + 1]
      BY <1>3
    <3> QED
      BY <1>4, <3>1 DEF Early
  <2> QED
    BY <1>8, <2>1, <2>3, <2>4
<1>11. CASE /\ \E steps \in Seq(StepsOf(o)) :
                 /\ Skip(p, steps)
                 /\ o.op = "create-pool" =>
                      steps = IF req[p] \in Actions THEN <<>> ELSE UpdatePool(o)
            /\ o.op # "create-cache-tier"
            /\ o.op = "create-pool" =>
                 Head(todo[p]) = <<"exists">> /\ pools[o.pool] # None
  <2>1. PICK steps \in Seq(StepsOf(o)) :
          /\ Skip(p, steps)
          /\ o.op = "create-pool" =>
               steps = IF req[p] \in Actions THEN <<>> ELSE UpdatePool(o)
    BY <1>11
  <2>2. todo'[p] = steps /\ failed' = failed
    BY <2>1 DEF Skip, WorkTypes
  <2>3. Early(steps)
    <3>1. CASE o.op = "create-pool"
      <4>1. UpdatePool(o) \in Seq(Ungrouped(o)) /\ <<>> \in Seq(Ungrouped(o))
        BY <1>3, <3>1, PoolSteps
      <4>2. steps \in Seq(Ungrouped(o))
        BY <2>1, <3>1, <4>1
      <4> QED
        BY <4>2, EarlyPlain
    <3>2. CASE o.op # "create-pool"
      BY <3>2, EarlyOther
    <3> QED
      BY <3>1, <3>2
  <2>4. ASSUME pos[p] \in Settled[req[p]] \ failed[p], NEW st \in Goals(o)
        PROVE  Reached(o, st)' \/ Has(steps, st)
    <3>1. o.op = "create-pool"
      BY <1>11 DEF Goals
    <3>2. Reached(o, st) \/ Has(todo[p], st)
      BY <1>3, <1>4, <2>4, BrokerRequestsAssumption DEF Promised
    <3>3. Reached(o, st) => Reached(o, st)'
      BY <1>3, <2>4 DEF Keeps
    <3>4. CASE st = <<"create">>
      BY <1>11, <3>1, <3>3, <3>4 DEF Reached
    <3>5. CASE st = <<"group">>
      <4>1. ~Has(todo[p], <<"group">>)
        BY <1>3, <1>4, <1>11, <3>1 DEF Early, Has
      <4> QED
        BY <3>2, <3>3, <3>5, <4>1
    <3>6. CASE st[1] = "set" /\ st[2] \in MutableSettings /\ o.want[st[2]] # None
      <4>1. st = <<"set", st[2]>>
        BY <3>6 DEF Goals, StepType
      <4>2. req[p] \notin Actions
        <5>1. req[p] \in Actions => pos[p] = 1
          BY <1>3, BrokerRequestsAssumption
        <5> QED
          BY <1>3, <3>1, <3>6, <5>1, ActionsAssumption
      <4>3. Has(UpdatePool(o), st)
        BY <1>3, <3>1, <3>6, <4>1, UpdateHas
      <4> QED
        BY <2>1, <3>1, <4>2, <4>3
    <3> QED
      BY <3>1, <3>4, <3>5, <3>6 DEF Goals
  <2>5. Promised(p)'
    BY <1>9, <2>2, <2>4
  <2> QED
    BY <1>8, <2>2, <2>3, <2>5
<1>12. CASE /\ \E steps \in {<<>>, Tail(todo[p])} : todo' = [todo EXCEPT ![p] = steps]
            /\ failed' = [failed EXCEPT ![p] = @ \union {pos[p]}]
  <2>1. failed'[p] = failed[p] \union {pos[p]} /\ todo'[p] \in {<<>>, Tail(todo[p])}
    BY <1>12 DEF RunTypes, WorkTypes
  <2>2. Promised(p)'
    BY <1>9, <2>1
  <2>3. Early(todo'[p])
    <3>1. \A k \in 1 .. Len(Tail(todo[p])) :
            k + 1 \in 1 .. Len(todo[p]) /\ Tail(todo[p])[k] = todo[p][k + 1]
      BY <1>3
    <3>2. Early(Tail(todo[p])) /\ Early(<<>>)
      BY <1>4, <3>1 DEF Early
    <3> QED
      BY <2>1, <3>2
  <2> QED
    BY <1>8, <2>2, <2>3
<1> QED
  BY <1>6, <1>10, <1>11, <1>12 DEF Outcome

LEMMA InitPromise == Init => PromiseInv
<1> SUFFICES ASSUME Init PROVE PromiseInv
  OBVIOUS
<1>1. TypeInv
  BY InitTypes
<1>2. GoalInv /\ AnswerInv
  BY DEF Init, GoalInv, Promised, AnswerInv, Answered
<1>3. GroupsEarly
  BY DEF Init, GroupsEarly, Early
<1> QED
  BY <1>1, <1>2, <1>3 DEF PromiseInv

\* A run that is taken up promises nothing yet, and the next operation has all
\* its steps to do.
LEMMA StartPromise ==
  ASSUME PromiseInv, Keeps, NEW p \in Proxies, NEW r \in Requests, Start(p, r)
  PROVE  GoalInv' /\ GroupsEarly' /\ AnswerInv'
<1> USE DEF PromiseInv, TypeInv
<1>1. \A q \in Proxies : q # p => UNCHANGED <<req[q], pos[q], todo[q], failed[q], answer[q]>>
  BY DEF Start, RunTypes
<1>2. \A q \in Proxies : q # p => Promised(q)' /\ Early(todo[q])' /\ Answered(q)'
  BY <1>1, OthersPromise, AnswerKept
<1>3. /\ req'[p] = r /\ pos'[p] = 0 /\ answer'[p] = None /\ todo' = todo
  BY DEF Start, RunTypes
<1>4. \A i \in Settled[r] : i \in Nat /\ i >= 1
  <2>1. Ops[r] \in Seq(OpType)
    BY BrokerRequestsAssumption
  <2> QED
    BY <2>1 DEF Settled
<1>5. Promised(p)'
  BY <1>3, <1>4 DEF Promised
<1>6. Early(todo[p])' /\ Answered(p)'
  BY <1>3 DEF GroupsEarly, Answered
<1> QED
  BY <1>2, <1>5, <1>6 DEF GoalInv, GroupsEarly, AnswerInv

LEMMA NextOpPromise ==
  ASSUME PromiseInv, Keeps, NEW p \in Proxies, NextOp(p)
  PROVE  GoalInv' /\ GroupsEarly' /\ AnswerInv'
<1> USE DEF PromiseInv, TypeInv
<1> DEFINE o == Ops[req[p]][pos[p] + 1]
<1>1. /\ req[p] \in Requests /\ Ops[req[p]] \in Seq(OpType) /\ pos[p] \in Nat
      /\ pos[p] + 1 \in DOMAIN Ops[req[p]] /\ o \in OpType
  <2>1. req[p] \in Requests /\ pos[p] \in Nat
    BY DEF NextOp, RunTypes
  <2>2. Ops[req[p]] \in Seq(OpType)
    BY <2>1, BrokerRequestsAssumption
  <2>3. pos[p] + 1 \in DOMAIN Ops[req[p]]
    BY <2>1, <2>2 DEF NextOp
  <2> QED
    BY <2>1, <2>2, <2>3
<1>2. \A q \in Proxies : q # p => UNCHANGED <<req[q], pos[q], todo[q], failed[q], answer[q]>>
  BY DEF NextOp, Answer, RunTypes, WorkTypes
<1>3. \A q \in Proxies : q # p => Promised(q)' /\ Early(todo[q])' /\ Answered(q)'
  BY <1>2, OthersPromise, AnswerKept
<1>4. CASE o.op = "unknown"
  <2>1. /\ req' = [req EXCEPT ![p] = None] /\ todo' = [todo EXCEPT ![p] = <<>>]
        /\ answer' = [answer EXCEPT ![p] = [req |-> req[p], ok |-> FALSE,
                                            failed |-> failed[p] \union {pos[p] + 1}]]
    BY <1>4 DEF NextOp, Answer
  <2>2. req'[p] = None /\ todo'[p] = <<>> /\ ~answer'[p].ok
    BY <2>1 DEF RunTypes, WorkTypes
  <2>3. Promised(p)' /\ Early(todo[p])' /\ Answered(p)'
    BY <2>2 DEF Promised, Early, Answered
  <2> QED
    BY <1>3, <2>3 DEF GoalInv, GroupsEarly, AnswerInv
<1>5. CASE o.op # "unknown"
  <2> DEFINE plan == IF req[p] \in Actions THEN ActionPlan(o) ELSE Plan(o)
  <2>1. /\ todo[p] = <<>> /\ UNCHANGED <<req, failed, answer>>
        /\ todo' = [todo EXCEPT ![p] = plan] /\ pos' = [pos EXCEPT ![p] = @ + 1]
    BY <1>5 DEF NextOp
  <2>2. todo'[p] = plan /\ pos'[p] = pos[p] + 1
    BY <2>1 DEF WorkTypes, RunTypes
  <2>3. Early(plan)
    BY <1>1, PlanEarly
  <2>4. ASSUME NEW st \in Goals(o) PROVE Has(plan, st)
    <3>1. CASE req[p] \in Actions
      <4>1. pos[p] + 1 = 1
        BY <1>1, <3>1, BrokerRequestsAssumption
      <4>2. o.op = "create-pool" => ~o.group /\ \A s \in MutableSettings : o.want[s] = None
        BY <3>1, <4>1, ActionsAssumption
      <4>3. Has(ActionPlan(o), st)
        BY <1>1, <4>2, ActionHas
      <4> QED
        BY <3>1, <4>3
    <3>2. CASE req[p] \notin Actions
      BY <1>1, <3>2, PlanHas
    <3> QED
      BY <3>1, <3>2
  <2>5. ASSUME NEW i \in Settled[req[p]] \ failed[p], NEW st \in Goals(Ops[req[p]][i])
        PROVE  /\ i < pos[p] + 1 => Reached(Ops[req[p]][i], st)'
               /\ i = pos[p] + 1 => Has(plan, st)
    <3>1. i \in Nat /\ i \in Settled[req[p]]
      BY <1>1 DEF Settled
    <3>2. ASSUME i < pos[p] + 1 PROVE Reached(Ops[req[p]][i], st)
      <4>1. i < pos[p] \/ i = pos[p]
        BY <1>1, <3>1, <3>2
      <4>2. ~Has(todo[p], st)
        BY <2>1 DEF Has
      <4> QED
        BY <1>1, <4>1, <4>2, BrokerRequestsAssumption DEF GoalInv, Promised
    <3>3. Reached(Ops[req[p]][i], st) => Reached(Ops[req[p]][i], st)'
      BY <1>1, <2>1, <3>1 DEF Keeps
    <3> HIDE DEF plan
    <3> QED
      BY <2>4, <3>2, <3>3
  <2> HIDE DEF plan
  <2>6. Promised(p)'
    BY <2>1, <2>2, <2>5 DEF Promised
  <2>7. Early(todo[p])' /\ Answered(p)'
    BY <2>1, <2>2, <2>3, AnswerKept
  <2> QED
    BY <1>3, <2>6, <2>7 DEF GoalInv, GroupsEarly, AnswerInv
<1> QED
  BY <1>4, <1>5

\* A run that answers is past all its operations.
LEMMA ReplyPromise ==
  ASSUME PromiseInv, Keeps, NEW p \in Proxies, Reply(p)
  PROVE  GoalInv' /\ GroupsEarly' /\ AnswerInv'
<1> USE DEF PromiseInv, TypeInv
<1>1. \A q \in Proxies : q # p => UNCHANGED <<req[q], pos[q], todo[q], failed[q], answer[q]>>
  BY DEF Reply, Answer, RunTypes, WorkTypes
<1>2. \A q \in Proxies : q # p => Promised(q)' /\ Early(todo[q])' /\ Answered(q)'
  BY <1>1, OthersPromise, AnswerKept
<1>3. req'[p] = None /\ todo'[p] = <<>>
  BY DEF Reply, Answer, RunTypes, WorkTypes
<1>4. Promised(p)' /\ Early(todo[p])'
  BY <1>3 DEF Promised, Early
<1>5. Answered(p)'
  <2>1. CASE answer' = answer
    BY <2>1, AnswerKept
  <2>2. CASE answer' = [answer EXCEPT ![p] = [req |-> req[p], ok |-> Verdict(ret[p]),
                                              failed |-> failed[p]]]
    <3>1. answer'[p] = [req |-> req[p], ok |-> Verdict(ret[p]), failed |-> failed[p]]
      BY <2>2 DEF RunTypes
    <3>2. req[p] \in Requests /\ todo[p] = <<>> /\ pos[p] = Len(Ops[req[p]])
      BY DEF Reply, RunTypes
    <3>3. Ops[req[p]] \in Seq(OpType)
      BY <3>2, BrokerRequestsAssumption
    <3>4. ASSUME NEW i \in Settled[req[p]] \ failed[p], NEW st \in Goals(Ops[req[p]][i])
          PROVE  Reached(Ops[req[p]][i], st)
      <4>1. i < pos[p] \/ i = pos[p]
        BY <3>2, <3>3 DEF Settled
      <4>2. ~Has(todo[p], st)
        BY <3>2 DEF Has
      <4> QED
        BY <3>2, <4>1, <4>2, BrokerRequestsAssumption DEF GoalInv, Promised
    <3>5. ASSUME NEW r, r = req[p], NEW i \in Settled[r] \ failed[p], NEW st \in Goals(Ops[r][i])
          PROVE  Reached(Ops[r][i], st)'
      BY <3>2, <3>4, <3>5 DEF Keeps
    <3>6. Acknowledged(p)' = Settled[req[p]] \ failed[p]
      BY <3>1 DEF Acknowledged
    <3>7. ASSUME NEW r, r = answer'[p].req, NEW i \in Acknowledged(p)',
                 NEW st \in Goals(Ops[r][i])
          PROVE  Reached(Ops[r][i], st)'
      <4>1. r = req[p]
        BY <3>1, <3>7
      <4>2. i \in Settled[r] \ failed[p]
        BY <3>6, <4>1
      <4> QED
        BY <3>5, <4>1, <4>2
    <3>8. answer'[p].req \in Requests
      BY <3>1, <3>2
    <3> QED
      BY <3>7, <3>8 DEF Answered
  <2> QED
    BY <2>1, <2>2 DEF Reply, Answer
<1> QED
  BY <1>2, <1>4, <1>5 DEF GoalInv, GroupsEarly, AnswerInv

LEMMA CrashPromise ==
  ASSUME PromiseInv, Keeps, NEW p \in Proxies, Crash(p)
  PROVE  GoalInv' /\ GroupsEarly' /\ AnswerInv'
<1> USE DEF PromiseInv, TypeInv
<1>1. \A q \in Proxies : q # p => UNCHANGED <<req[q], pos[q], todo[q], failed[q]>>
  BY DEF Crash, RunTypes, WorkTypes
<1>2. \A q \in Proxies : q # p => Promised(q)' /\ Early(todo[q])'
  BY <1>1, OthersPromise
<1>3. req'[p] = None /\ todo'[p] = <<>> /\ answer' = answer
  BY DEF Crash, RunTypes, WorkTypes
<1>4. Promised(p)' /\ Early(todo[p])'
  BY <1>3 DEF Promised, Early
<1>5. \A q \in Proxies : Answered(q)'
  BY <1>3, AnswerKept
<1> QED
  BY <1>2, <1>4, <1>5 DEF GoalInv, GroupsEarly, AnswerInv

LEMMA IdlePromise ==
  ASSUME PromiseInv, Keeps, UNCHANGED <<req, pos, todo, failed, answer>>
  PROVE  GoalInv' /\ GroupsEarly' /\ AnswerInv'
<1>1. \A q \in Proxies : Promised(q)' /\ Early(todo[q])' /\ Answered(q)'
  BY OthersPromise, AnswerKept
<1> QED
  BY <1>1 DEF GoalInv, GroupsEarly, AnswerInv

LEMMA NextPromise == PromiseInv /\ [Next]_vars => PromiseInv'
<1> SUFFICES ASSUME PromiseInv, [Next]_vars
             PROVE  GoalInv' /\ GroupsEarly' /\ AnswerInv'
  BY NextTypes DEF PromiseInv
<1>1. TypeInv /\ Keeps
  BY NextKeeps DEF PromiseInv
<1>2. ASSUME NEW p \in Proxies, Proxy(p)
      PROVE  GoalInv' /\ GroupsEarly' /\ AnswerInv'
  <2>1. CASE CheckParams(p) \/ Validate(p) \/ LoadCrushmap(p)
    <3>1. todo[p] # <<>> /\ Outcome(p)
      BY <2>1, CheckOutcome
    <3>2. Head(todo[p]) \notin Goals(Op(p))
      BY <2>1 DEF CheckParams, Validate, LoadCrushmap, At, Goals
    <3> QED
      BY <1>1, <3>1, <3>2, OutcomePromise
  <2>2. ASSUME NEW fault \in BOOLEAN, Look(p, fault)
        PROVE  GoalInv' /\ GroupsEarly' /\ AnswerInv'
    <3>1. todo[p] # <<>> /\ Outcome(p)
      BY <1>1, <2>2, LookOutcome DEF TypeInv
    <3>2. Head(todo[p]) \notin Goals(Op(p))
      BY <2>2 DEF Look, Cap, CheckProfile, ReadProfile, CheckExists, CheckNoProfile,
           CheckFsPool, CheckNoFs, CheckTierPool, Preflight, LookAtMode, CheckNoClient,
           At, Goals
    <3> QED
      BY <1>1, <3>1, <3>2, OutcomePromise
  <2>3. ASSUME NEW fault \in BOOLEAN, Change(p, fault)
        PROVE  GoalInv' /\ GroupsEarly' /\ AnswerInv'
    <3>1. todo[p] # <<>> /\ Outcome(p)
      BY <1>1, <2>3, ChangeOutcome DEF TypeInv
    <3>2. \A o : o = Op(p) =>
            \A st \in Goals(o) : GoOn(p) /\ st = Head(todo[p]) => Reached(o, st)'
      BY <1>1, <2>3, ChangeReaches
    <3> QED
      BY <1>1, <3>1, <3>2, OutcomePromise
  <2>4. CASE \E r \in Requests : Start(p, r)
    BY <1>1, <2>4, StartPromise
  <2>5. CASE NextOp(p) \/ Reply(p) \/ Crash(p)
    BY <1>1, <2>5, NextOpPromise, ReplyPromise, CrashPromise
  <2> QED
    BY <1>2, <2>1, <2>2, <2>3, <2>4, <2>5 DEF Proxy
<1>3. CASE \E x \in Pools : ClientWrites(x)
  BY <1>1, <1>3, IdlePromise DEF ClientWrites
<1>4. CASE UNCHANGED vars
  BY <1>1, <1>4, IdlePromise DEF vars
<1> QED
  BY <1>2, <1>3, <1>4 DEF Next

\* The promises of an operation together are what its answer means.
LEMMA PromisesKept == PromiseInv => AnswerMeansUpdated
<1> SUFFICES ASSUME PromiseInv, NEW p \in Proxies, answer[p] # None, answer[p].ok,
                    NEW i \in Acknowledged(p), NEW o, o = Ops[answer[p].req][i]
             PROVE  CASE o.op = "create-pool" ->
                           Holds(o, MutableSettings) /\ (o.group => o.pool \in grouped)
                      [] o.op = "create-cache-tier" -> Cached(o)
                      [] OTHER -> TRUE
  BY DEF AnswerMeansUpdated
<1>1. \A st \in Goals(o) : Reached(o, st)
  BY DEF PromiseInv, AnswerInv, Answered
<1>2. o \in OpType
  <2>1. answer[p].req \in Requests
    BY DEF PromiseInv, AnswerInv, Answered
  <2> QED
    BY <2>1, BrokerRequestsAssumption DEF Acknowledged, Settled
<1>3. CASE o.op = "create-pool"
  <2>1. pools[o.pool] # None
    <3>1. <<"create">> \in Goals(o)
      BY <1>3 DEF Goals, StepType
    <3> QED
      BY <1>1, <3>1 DEF Reached
  <2>2. ASSUME NEW s \in MutableSettings, o.want[s] # None
        PROVE  pools[o.pool][s] = o.want[s]
    <3>1. <<"set", s>> \in Goals(o)
      BY <1>3, <2>2 DEF Goals, StepType, Settings
    <3> QED
      BY <1>1, <3>1 DEF Reached
  <2>3. o.group => o.pool \in grouped
    <3>1. o.group => <<"group">> \in Goals(o)
      BY <1>3 DEF Goals, StepType
    <3> QED
      BY <1>1, <3>1 DEF Reached
  <2> QED
    BY <1>3, <2>1, <2>2, <2>3 DEF Holds
<1>4. CASE o.op = "create-cache-tier"
  <2>1. /\ <<"tier-add">> \in Goals(o)
        /\ <<"tier-set", "mode", o.mode>> \in Goals(o)
        /\ <<"tier-set", "overlay", TRUE>> \in Goals(o)
        /\ <<"tier-set", "bloom", TRUE>> \in Goals(o)
    BY <1>2, <1>4, OpFields DEF Goals, StepType, Final, CacheModes
  <2>2. /\ tiers[o.hot] # None /\ tiers[o.hot].cold = o.cold
        /\ tiers[o.hot].mode = o.mode /\ tiers[o.hot].overlay = TRUE
        /\ tiers[o.hot].bloom = TRUE
    BY <1>1, <2>1 DEF Reached
  <2>3. tiers[o.hot] \in Tier
    BY <1>2, <1>4, <2>2, OpFields DEF PromiseInv, TypeInv, WorkTypes
  <2>4. tiers[o.hot] = [cold |-> o.cold, mode |-> o.mode, overlay |-> TRUE, bloom |-> TRUE]
    BY <2>2, <2>3 DEF Tier
  <2> QED
    BY <1>4, <2>2, <2>4 DEF Cached
<1> QED
  BY <1>3, <1>4

\* An answer without an error means that a pool of the request exists with the
\* quota and compression asked for and is in its group (UpdatePool sets them
\* and add_pool_to_group adds it whether the pool is new or not), and that a
\* cache tier is complete, whatever fails or crashes on the way, however many
\* proxies process requests and however often.
THEOREM AnswersAreKept == Spec => []AnswerMeansUpdated
<1>1. Init => PromiseInv
  BY InitPromise
<1>2. PromiseInv /\ [Next]_vars => PromiseInv'
  BY NextPromise
<1> QED
  BY <1>1, <1>2, PromisesKept, PTL DEF Spec

\* The steps of an operation but for those that add a pool to a file system.
Plainly(o) == {st \in StepsOf(o) : st[1] # "fs-add"}

\* A pool is added to a file system only after it is made.
Made(s, o) ==
  \A k \in 1 .. Len(s) : s[k][1] = "fs-add" =>
    \/ filesystems[o.fs] \in SUBSET Pools
    \/ \E l \in 1 .. k - 1 : s[l] = <<"fs-new">>

LEMMA JoinedLen ==
  ASSUME NEW S, NEW A \in Seq(S), NEW B \in Seq(S)
  PROVE  Len(A \o B) = Len(A) + Len(B)
OBVIOUS

LEMMA MadeOther ==
  ASSUME NEW o, o.op # "create-cephfs", NEW s \in Seq(StepsOf(o))
  PROVE  Made(s, o)
<1>1. \A k \in 1 .. Len(s) : s[k] \in StepsOf(o)
  OBVIOUS
<1> QED
  BY <1>1 DEF Made, StepsOf, Owned

\* handle_create_cephfs adds pools after "fs new".
LEMMA PlanMade ==
  ASSUME NEW o \in OpType
  PROVE  Made(Plan(o), o) /\ Made(ActionPlan(o), o)
<1>1. CASE o.op # "create-cephfs"
  BY <1>1, PlanSteps, MadeOther
<1>2. CASE o.op = "create-cephfs"
  <2> DEFINE S == Plainly(o)
             first == <<<<"params">>>> \o Each("needs", o.first \o o.extra)
             new == <<<<"no-fs">>, <<"fs-new">>>>
             adds == Each("fs-add", o.extra)
  <2>1. first \in Seq(S)
    <3>1. o.first \o o.extra \in Seq(Pools)
      BY <1>2, OpFields
    <3>2. \A x \in Pools : <<"needs", x>> \in S
      BY <1>2 DEF Plainly, StepsOf, StepType, Owned
    <3>3. <<"params">> \in S
      BY PlainSteps DEF Plainly
    <3> HIDE DEF S
    <3>4. Each("needs", o.first \o o.extra) \in Seq(S)
      BY <3>1, <3>2, EachStep
    <3> QED
      BY <3>3, <3>4
  <2>2. new \in Seq(S) /\ Len(new) = 2 /\ new[2] = <<"fs-new">>
    <3>1. <<"no-fs">> \in S /\ <<"fs-new">> \in S
      BY <1>2, OwnedSteps DEF Plainly, Owned
    <3> QED
      BY <3>1
  <2>3. adds \in Seq(StepsOf(o))
    <3>1. \A x \in Pools : <<"fs-add", x>> \in StepsOf(o)
      BY <1>2 DEF StepsOf, StepType, Owned
    <3>2. o.extra \in Seq(Pools)
      BY <1>2, OpFields
    <3> QED
      BY <3>1, <3>2, EachStep
  <2>4. CreateCephfsPlan(o) = (first \o new) \o adds
    BY DEF CreateCephfsPlan
  <2>5. Made((first \o new) \o adds, o)
    <3> HIDE DEF first, new, adds
    <3> DEFINE both == first \o new
    <3>1. both \in Seq(S) /\ Len(both) = Len(first) + 2 /\ both[Len(both)] = <<"fs-new">>
      <4> HIDE DEF S
      <4>1. both \in Seq(S)
        BY <2>1, <2>2
      <4>2. Len(both) = Len(first) + Len(new)
        BY <2>1, <2>2, JoinedLen
      <4>3. both[Len(first) + 2] = new[2]
        BY <2>1, <2>2
      <4> QED
        BY <2>2, <4>1, <4>2, <4>3
    <3>2. \A k \in 1 .. Len(both) : both[k][1] # "fs-add"
      <4>1. \A k \in 1 .. Len(both) : both[k] \in S
        BY <3>1
      <4> QED
        BY <4>1 DEF Plainly
    <3>3. Len(first) \in Nat
      BY <2>1
    <3> HIDE DEF both, S
    <3>4. ASSUME NEW k \in 1 .. Len(both \o adds), (both \o adds)[k][1] = "fs-add"
          PROVE  \E l \in 1 .. k - 1 : (both \o adds)[l] = <<"fs-new">>
      <4>1. k > Len(both)
        BY <2>3, <3>1, <3>2, <3>4
      <4>2. Len(both) \in 1 .. k - 1 /\ (both \o adds)[Len(both)] = <<"fs-new">>
        BY <2>3, <3>1, <3>3, <4>1
      <4> QED
        BY <4>2
    <3> QED
      BY <3>4 DEF Made, both
  <2> HIDE DEF first, new, adds
  <2> QED
    BY <1>2, <2>4, <2>5 DEF Plan, ActionPlan
<1> QED
  BY <1>1, <1>2

-----------------------------------------------------------------------------
(* The types of the rest of the state.                                      *)
RestTypes ==
  /\ profiles \subseteq Profiles
  /\ filesystems \in [FileSystems -> (SUBSET Pools) \union {None}]
  /\ dirty \subseteq Pools
  /\ snaps \subseteq Pools
  /\ clients \in [Clients -> Values \union {None}]
  /\ grouped \subseteq Pools

Counts ==
  /\ runs \in 0 .. MaxRuns
  /\ readFaults \in 0 .. MaxReadFaults
  /\ faults \in 0 .. MaxFaults
  /\ crashes \in 0 .. MaxCrashes

\* What failed was begun, and an answer is to a request.
Reports ==
  /\ \A p \in Proxies : failed[p] \subseteq 1 .. pos[p]
  /\ \A p \in Proxies : answer[p] # None => answer[p].req \in Requests

\* No run adds a pool to a file system that may not be there.
AllMade == \A p \in Proxies : todo[p] # <<>> => Made(todo[p], Op(p))

FullInv == TypeInv /\ RestTypes /\ Counts /\ Reports /\ AllMade

\* What a command leaves of the rest; a file system that was made stays.
LEMMA ChangeRest ==
  ASSUME FullInv, NEW p \in Proxies, NEW fault \in BOOLEAN, Change(p, fault)
  PROVE  /\ RestTypes'
         /\ \A f \in FileSystems :
              filesystems[f] \in SUBSET Pools => filesystems'[f] \in SUBSET Pools
         /\ Head(todo[p]) = <<"fs-new">> =>
              filesystems'[Op(p).fs] \in SUBSET Pools \/ todo'[p] = <<>>
<1> DEFINE o == Op(p)
<1>1. todo[p] # <<>>
  BY ChangeOutcome DEF FullInv, TypeInv
<1>2. /\ o \in OpType /\ Owned(Head(todo[p]), o) /\ Head(todo[p]) \in StepType
      /\ todo[p] \in Seq(StepType)
  BY <1>1, HeadAt DEF FullInv, TypeInv, WorkTypes
<1>3. RestTypes
  BY DEF FullInv
<1>4. /\ o.op \in {"create-pool", "delete-pool", "rename-pool", "snapshot-pool",
                   "remove-pool-snapshot"} => o.pool \in Pools
      /\ o.op = "rename-pool" => o.to \in Pools
      /\ o.op \in {"create-erasure-profile", "delete-erasure-profile"} => o.profile \in Profiles
      /\ o.op = "create-cephfs" => o.fs \in FileSystems /\ o.first \in Seq(Pools)
      /\ o.op = "create-cephfs-client" => o.client \in Clients /\ o.grant \in Values
      /\ o.op = "set-key-permissions" => o.client \in Clients /\ o.grant \in Values
  BY <1>2, OpFields
<1>5. CASE AddToGroup(p, fault)
  <2>1. o.op = "create-pool"
    BY <1>2, <1>5 DEF AddToGroup, At, Owned
  <2> QED
    BY <1>3, <1>4, <1>5, <2>1 DEF AddToGroup, At, RestTypes, tiering
<1>6. CASE \/ CreateCommand(p, fault) \/ SetCommand(p, fault) \/ TierAddCommand(p, fault)
           \/ TierSetCommand(p, fault) \/ TierRemoveCommand(p, fault)
  BY <1>3, <1>6 DEF CreateCommand, SetCommand, TierAddCommand, TierSetCommand,
                    TierRemoveCommand, At, RestTypes, tiering, rest
<1>7. CASE DeleteCommand(p, fault)
  BY <1>3, <1>7 DEF DeleteCommand, At, RestTypes, rest
<1>8. CASE RenameCommand(p, fault)
  <2>1. o.pool \in Pools /\ o.to \in Pools
    BY <1>2, <1>4, <1>8 DEF RenameCommand, At, Owned
  <2> DEFINE moves == ~fault /\ pools[o.pool] # None /\ pools[o.to] = None
             swap == [x \in Pools |-> CASE ~moves -> x
                                        [] moves /\ x = o.pool -> o.to
                                        [] moves /\ x = o.to -> o.pool
                                        [] OTHER -> x]
  <2>2. swap \in [Pools -> Pools]
    BY <2>1
  <2>3. /\ dirty' = {swap[x] : x \in dirty}
        /\ snaps' = {swap[x] : x \in snaps}
        /\ filesystems' = [f \in FileSystems |->
                             IF filesystems[f] = None THEN None
                             ELSE {swap[x] : x \in filesystems[f]}]
    BY <1>8, Zenon DEF RenameCommand
  <2>8. At(p, "rename") /\ UNCHANGED <<profiles, clients, grouped>>
    BY <1>8, Zenon DEF RenameCommand
  <2>9. Head(todo[p]) # <<"fs-new">>
    BY <2>8 DEF At
  <2> HIDE DEF swap
  <2>4. \A X \in SUBSET Pools : {swap[x] : x \in X} \in SUBSET Pools
    BY <2>2
  <2>5. \A f \in FileSystems :
          filesystems[f] \in SUBSET Pools => filesystems'[f] \in SUBSET Pools
    BY <2>3, <2>4
  <2>6. filesystems' \in [FileSystems -> (SUBSET Pools) \union {None}]
    BY <1>3, <2>3, <2>4 DEF RestTypes
  <2>7. dirty' \subseteq Pools /\ snaps' \subseteq Pools
    BY <1>3, <2>3, <2>4 DEF RestTypes
  <2> QED
    BY <1>3, <2>5, <2>6, <2>7, <2>8, <2>9 DEF RestTypes
<1>9. CASE SnapshotCommand(p, fault)
  <2>1. o.pool \in Pools
    BY <1>2, <1>4, <1>9 DEF SnapshotCommand, At, Owned
  <2> QED
    BY <1>3, <1>9, <2>1 DEF SnapshotCommand, At, RestTypes, rest
<1>10. CASE FlushCommand(p, fault)
  BY <1>3, <1>10 DEF FlushCommand, At, RestTypes, rest
<1>11. CASE ProfileCommand(p, fault) \/ RemoveProfileCommand(p, fault)
  <2>1. o.profile \in Profiles
    BY <1>2, <1>4, <1>11 DEF ProfileCommand, RemoveProfileCommand, At, Owned
  <2> QED
    BY <1>3, <1>11, <2>1 DEF ProfileCommand, RemoveProfileCommand, At, RestTypes, tiering
<1>12. CASE FsNewCommand(p, fault)
  <2>1. o.fs \in FileSystems /\ o.first \in Seq(Pools)
    BY <1>2, <1>4, <1>12 DEF FsNewCommand, At, Owned
  <2>2. {o.first[i] : i \in DOMAIN o.first} \in SUBSET Pools
    BY <2>1
  <2> QED
    BY <1>3, <1>12, <2>1, <2>2 DEF FsNewCommand, RestTypes, tiering, Skip, Returns, FullInv,
                                   TypeInv, WorkTypes
<1>13. CASE FsAddCommand(p, fault)
  <2>1. o.fs \in FileSystems /\ Head(todo[p])[2] \in Pools
    BY <1>2, <1>4, <1>13 DEF FsAddCommand, At, Owned, StepType
  <2>2. filesystems[o.fs] \in SUBSET Pools
    <3>1. Made(todo[p], o)
      BY <1>1 DEF FullInv, AllMade
    <3>2. 1 \in 1 .. Len(todo[p]) /\ todo[p][1][1] = "fs-add"
      BY <1>1, <1>2, <1>13 DEF FsAddCommand, At
    <3> QED
      BY <3>1, <3>2 DEF Made
  <2>3. filesystems[o.fs] \union {Head(todo[p])[2]} \in SUBSET Pools
    BY <2>1, <2>2
  <2> QED
    BY <1>3, <1>13, <2>1, <2>2, <2>3 DEF FsAddCommand, At, RestTypes, tiering
<1>14. CASE AuthorizeCommand(p, fault) \/ CapsCommand(p, fault)
  <2>1. o.client \in Clients /\ o.grant \in Values
    BY <1>2, <1>4, <1>14 DEF AuthorizeCommand, CapsCommand, At, Owned
  <2> QED
    BY <1>3, <1>14, <2>1 DEF AuthorizeCommand, CapsCommand, At, RestTypes, tiering
<1>15. CASE AdminCommand(p, fault)
  BY <1>3, <1>15 DEF AdminCommand, At, RestTypes, cluster, tiering, rest
<1> QED
  BY <1>5, <1>6, <1>7, <1>8, <1>9, <1>10, <1>11, <1>12, <1>13, <1>14, <1>15 DEF Change

\* Faults are counted up to their bounds.
LEMMA FaultCounts ==
  ASSUME Counts, NEW fault \in BOOLEAN, Fault(fault) \/ ReadFault(fault)
  PROVE  Counts'
BY BrokerRequestsAssumption DEF Counts, Fault, ReadFault

LEMMA LookCounts ==
  ASSUME Counts, NEW p \in Proxies, NEW fault \in BOOLEAN, Look(p, fault) \/ Change(p, fault)
  PROVE  Counts'
<1>1. Fault(fault) \/ ReadFault(fault)
  BY DEF Look, Cap, CheckProfile, ReadProfile, CheckExists, CheckNoProfile, CheckFsPool,
         CheckNoFs, CheckTierPool, Preflight, LookAtMode, CheckNoClient,
         Change, AddToGroup, CreateCommand, SetCommand, DeleteCommand, RenameCommand,
         ProfileCommand, FsNewCommand, FsAddCommand, AdminCommand, SnapshotCommand,
         TierAddCommand, TierSetCommand, FlushCommand, TierRemoveCommand,
         RemoveProfileCommand, AuthorizeCommand, CapsCommand
<1> QED
  BY <1>1, FaultCounts

\* What a handler reports was begun.
LEMMA OutcomeReports ==
  ASSUME FullInv, NEW p \in Proxies, todo[p] # <<>>, Outcome(p)
  PROVE  Reports'
<1> USE DEF FullInv, TypeInv
<1>1. req[p] \in Requests /\ pos[p] \in 1 .. pos[p]
  BY AtOp DEF WorkTypes, RunTypes
<1>2. CASE Raises(p)
  BY <1>1, <1>2 DEF Raises, Answer, Reports, RunTypes
<1>3. CASE /\ failed' = [failed EXCEPT ![p] = @ \union {pos[p]}]
           /\ UNCHANGED <<req, pos, answer>>
  BY <1>1, <1>3 DEF Reports, RunTypes
<1>4. CASE UNCHANGED <<req, pos, failed, answer>>
  BY <1>4 DEF Reports
<1> QED
  BY <1>2, <1>3, <1>4 DEF Outcome, GoOn, Skip

\* No file system is removed.
FsKept ==
  \A f \in FileSystems : filesystems[f] \in SUBSET Pools => filesystems'[f] \in SUBSET Pools

\* The steps of an operation are still in order when the file systems stay.
LEMMA MadeKept ==
  ASSUME FullInv, FsKept, NEW q \in Proxies, UNCHANGED <<req[q], pos[q], todo[q]>>
  PROVE  (todo[q] # <<>> => Made(todo[q], Op(q)))'
<1>1. SUFFICES ASSUME todo[q] # <<>> PROVE Made(todo[q], Op(q))'
  OBVIOUS
<1>2. Op(q)' = Op(q)
  BY DEF Op
<1>3. Made(todo[q], Op(q)) /\ Op(q) \in OpType
  BY <1>1, AtOp DEF FullInv, AllMade, TypeInv
<1>4. CASE Op(q).op = "create-cephfs"
  <2>1. Op(q).fs \in FileSystems
    BY <1>3, <1>4, OpFields
  <2> QED
    BY <1>2, <1>3, <2>1 DEF Made, FsKept
<1>5. CASE Op(q).op # "create-cephfs"
  <2>1. todo[q] \in Seq(StepsOf(Op(q)))
    BY <1>1 DEF FullInv, TypeInv, WorkTypes
  <2>2. \A k \in 1 .. Len(todo[q]) : todo[q][k] \in StepsOf(Op(q))
    BY <2>1
  <2>3. \A k \in 1 .. Len(todo[q]) : todo[q][k][1] # "fs-add"
    BY <1>5, <2>2 DEF StepsOf, Owned
  <2> QED
    BY <2>3 DEF Made
<1> QED
  BY <1>4, <1>5

\* A handler that goes on keeps its steps in order.
LEMMA OutcomeMade ==
  ASSUME FullInv, FsKept, NEW p \in Proxies, todo[p] # <<>>, Outcome(p),
         Head(todo[p]) = <<"fs-new">> =>
           filesystems'[Op(p).fs] \in SUBSET Pools \/ todo'[p] = <<>>
  PROVE  AllMade'
<1> USE DEF FullInv, TypeInv
<1>1. \A q \in Proxies : q # p => UNCHANGED <<req[q], pos[q], todo[q]>>
  BY OutcomeFrame
<1>2. \A q \in Proxies : q # p => (todo[q] # <<>> => Made(todo[q], Op(q)))'
  BY <1>1, MadeKept
<1> DEFINE o == Op(p)
<1>3. /\ o \in OpType /\ todo[p] \in Seq(StepsOf(o)) /\ Made(todo[p], o)
      /\ todo \in [Proxies -> Seq(StepType)]
  BY AtOp DEF AllMade, WorkTypes
<1>4. SUFFICES ASSUME todo'[p] # <<>> PROVE Made(todo[p], Op(p))'
  BY <1>2 DEF AllMade
<1>5. CASE Raises(p)
  BY <1>3, <1>4, <1>5 DEF Raises, Answer
<1>6. SUFFICES ASSUME ~Raises(p) PROVE Made(todo[p], Op(p))'
  BY <1>5
<1>7. o' = o
  BY <1>6 DEF Outcome, GoOn, Skip, Op
<1>8. CASE todo'[p] = Tail(todo[p])
  <2>1. SUFFICES ASSUME NEW k \in 1 .. Len(Tail(todo[p])), Tail(todo[p])[k][1] = "fs-add"
                 PROVE  \/ filesystems'[o.fs] \in SUBSET Pools
                        \/ \E l \in 1 .. k - 1 : Tail(todo[p])[l] = <<"fs-new">>
    BY <1>7, <1>8 DEF Made
  <2>2. k + 1 \in 1 .. Len(todo[p]) /\ todo[p][k + 1] = Tail(todo[p])[k] /\ k \in Nat
    BY <1>3
  <2>3. \/ filesystems[o.fs] \in SUBSET Pools
        \/ \E l \in 1 .. k : todo[p][l] = <<"fs-new">>
    <3>1. \/ filesystems[o.fs] \in SUBSET Pools
          \/ \E l \in 1 .. (k + 1) - 1 : todo[p][l] = <<"fs-new">>
      BY <1>3, <2>1, <2>2 DEF Made
    <3>2. (k + 1) - 1 = k
      BY <2>2
    <3> QED
      BY <3>1, <3>2
  <2>4. o.fs \in FileSystems
    <3>1. todo[p][k + 1] \in StepsOf(o)
      BY <1>3, <2>2
    <3>2. o.op = "create-cephfs"
      BY <2>1, <2>2, <3>1 DEF StepsOf, Owned
    <3> QED
      BY <1>3, <3>2, OpFields
  <2>5. CASE filesystems[o.fs] \in SUBSET Pools
    BY <2>4, <2>5 DEF FsKept
  <2>6. ASSUME NEW l \in 1 .. k, todo[p][l] = <<"fs-new">>
        PROVE  \/ filesystems'[o.fs] \in SUBSET Pools
               \/ \E m \in 1 .. k - 1 : Tail(todo[p])[m] = <<"fs-new">>
    <3>1. CASE l = 1
      BY <1>3, <1>4, <2>6, <3>1
    <3>2. CASE l > 1
      <4>1. l - 1 \in 1 .. k - 1 /\ Tail(todo[p])[l - 1] = todo[p][l]
        BY <1>3, <2>2, <3>2
      <4> QED
        BY <2>6, <4>1
    <3> QED
      BY <3>1, <3>2
  <2> QED
    BY <2>3, <2>5, <2>6
<1>9. ASSUME NEW steps \in Seq(StepsOf(o)), todo'[p] = steps,
             o.op = "create-cephfs" => steps = <<>>
      PROVE  Made(todo[p], Op(p))'
  <2>1. o.op # "create-cephfs"
    BY <1>4, <1>9
  <2>2. \A k \in 1 .. Len(steps) : steps[k] \in StepsOf(o)
    BY <1>9
  <2>3. \A k \in 1 .. Len(steps) : steps[k][1] # "fs-add"
    BY <2>1, <2>2 DEF StepsOf, Owned
  <2> QED
    BY <1>9, <2>3 DEF Made
<1>10. \/ todo'[p] = Tail(todo[p])
       \/ \E steps \in Seq(StepsOf(o)) :
            todo'[p] = steps /\ (o.op = "create-cephfs" => steps = <<>>)
  BY <1>3, <1>4, <1>6 DEF Outcome, GoOn, Skip
<1> QED
  BY <1>8, <1>9, <1>10

-----------------------------------------------------------------------------
LEMMA InitFull == Init => FullInv
<1> SUFFICES ASSUME Init PROVE FullInv
  OBVIOUS
<1>1. TypeInv
  BY InitTypes
<1>2. RestTypes /\ Counts /\ Reports /\ AllMade
  BY BrokerRequestsAssumption DEF Init, RestTypes, Counts, Reports, AllMade
<1> QED
  BY <1>1, <1>2 DEF FullInv

\* What p takes up or ends outside of a handler.
LEMMA BetweenFull ==
  ASSUME FullInv, NEW p \in Proxies,
         (\E r \in Requests : Start(p, r)) \/ NextOp(p) \/ Reply(p) \/ Crash(p)
  PROVE  RestTypes' /\ Counts' /\ Reports' /\ AllMade'
<1> USE DEF FullInv, TypeInv
<1>1. UNCHANGED cluster
  BY BetweenWork
<1>2. RestTypes' /\ FsKept
  BY <1>1 DEF RestTypes, cluster, tiering, rest, FsKept
<1>3. Counts'
  <2>1. CASE (\E r \in Requests : Start(p, r)) \/ Crash(p)
    BY <2>1, BrokerRequestsAssumption DEF Start, Crash, Counts
  <2>2. CASE NextOp(p) \/ Reply(p)
    BY <2>2 DEF NextOp, Reply, counters, Counts
  <2> QED
    BY <2>1, <2>2
<1>4. Reports'
  <2>1. CASE \E r \in Requests : Start(p, r)
    BY <2>1 DEF Start, Reports, RunTypes
  <2>2. CASE NextOp(p)
    <3>1. req[p] \in Requests /\ \A q \in Proxies : pos[q] \in Nat
      BY <2>2 DEF NextOp, RunTypes
    <3>2. CASE Answer(p, FALSE, failed[p] \union {pos[p] + 1})
      BY <3>1, <3>2 DEF Answer, Reports, RunTypes
    <3>3. CASE pos' = [pos EXCEPT ![p] = @ + 1] /\ UNCHANGED <<failed, answer>>
      <4>1. \A q \in Proxies : 1 .. pos[q] \subseteq 1 .. pos'[q]
        BY <3>1, <3>3 DEF RunTypes
      <4> QED
        BY <3>3, <4>1 DEF Reports
    <3> QED
      BY <2>2, <3>2, <3>3 DEF NextOp
  <2>3. CASE Reply(p) \/ Crash(p)
    BY <2>3 DEF Reply, Answer, Crash, Reports, RunTypes
  <2> QED
    BY <2>1, <2>2, <2>3
<1>5. \A q \in Proxies : q # p => UNCHANGED <<req[q], pos[q], todo[q]>>
  BY DEF Start, NextOp, Reply, Crash, Answer, RunTypes, WorkTypes
<1>6. \A q \in Proxies : q # p => (todo[q] # <<>> => Made(todo[q], Op(q)))'
  BY <1>2, <1>5, MadeKept
<1>7. (todo[p] # <<>> => Made(todo[p], Op(p)))'
  <2>1. CASE (\E r \in Requests : Start(p, r)) \/ Reply(p) \/ Crash(p)
    BY <2>1 DEF Start, Reply, Crash, Answer, WorkTypes
  <2>2. CASE NextOp(p)
    <3> DEFINE o == Ops[req[p]][pos[p] + 1]
    <3>1. o \in OpType
      BY <2>2, BrokerRequestsAssumption DEF NextOp, RunTypes
    <3>2. CASE o.op = "unknown"
      BY <2>2, <3>2 DEF NextOp, Answer, WorkTypes
    <3>3. CASE o.op # "unknown"
      <4>1. /\ UNCHANGED req
            /\ todo' = [todo EXCEPT ![p] = IF req[p] \in Actions THEN ActionPlan(o) ELSE Plan(o)]
            /\ pos' = [pos EXCEPT ![p] = @ + 1]
        BY <2>2, <3>3 DEF NextOp
      <4>2. Op(p)' = o /\ todo'[p] \in {Plan(o), ActionPlan(o)}
        BY <4>1 DEF Op, WorkTypes, RunTypes
      <4>3. UNCHANGED filesystems
        BY <1>1 DEF cluster, rest
      <4>4. Made(Plan(o), o) /\ Made(ActionPlan(o), o)
        BY <3>1, PlanMade
      <4> HIDE DEF o
      <4>5. ASSUME NEW s, NEW x, Made(s, x), todo'[p] = s, Op(p)' = x
            PROVE  Made(todo[p], Op(p))'
        BY <4>3, <4>5 DEF Made
      <4> QED
        BY <4>2, <4>4, <4>5
    <3> QED
      BY <3>2, <3>3
  <2> QED
    BY <2>1, <2>2
<1> QED
  BY <1>2, <1>3, <1>4, <1>6, <1>7 DEF AllMade

LEMMA NextFull == FullInv /\ [Next]_vars => FullInv'
<1> SUFFICES ASSUME FullInv, [Next]_vars
             PROVE  RestTypes' /\ Counts' /\ Reports' /\ AllMade'
  BY NextTypes DEF FullInv
<1> USE DEF FullInv
<1>1. ASSUME UNCHANGED <<profiles, filesystems, snaps, clients, grouped>>, dirty' \subseteq Pools
      PROVE  RestTypes' /\ FsKept
  BY <1>1 DEF RestTypes, FsKept
<1>2. UNCHANGED cluster => RestTypes' /\ FsKept
  BY <1>1 DEF cluster, tiering, rest, RestTypes
<1>3. ASSUME NEW p \in Proxies, Proxy(p)
      PROVE  RestTypes' /\ Counts' /\ Reports' /\ AllMade'
  <2>1. CASE CheckParams(p) \/ Validate(p) \/ LoadCrushmap(p)
    <3>1. todo[p] # <<>> /\ Outcome(p) /\ UNCHANGED cluster
      BY <2>1, CheckOutcome
    <3>2. Head(todo[p]) # <<"fs-new">>
      BY <2>1 DEF CheckParams, Validate, LoadCrushmap, At
    <3>3. Counts'
      BY <2>1 DEF CheckParams, Validate, LoadCrushmap, counters, Counts
    <3> QED
      BY <1>2, <3>1, <3>2, <3>3, OutcomeReports, OutcomeMade
  <2>2. ASSUME NEW fault \in BOOLEAN, Look(p, fault)
        PROVE  RestTypes' /\ Counts' /\ Reports' /\ AllMade'
    <3>1. todo[p] # <<>> /\ Outcome(p) /\ UNCHANGED cluster
      BY <2>2, LookOutcome DEF TypeInv
    <3>2. Head(todo[p]) # <<"fs-new">>
      BY <2>2 DEF Look, Cap, CheckProfile, ReadProfile, CheckExists, CheckNoProfile,
           CheckFsPool, CheckNoFs, CheckTierPool, Preflight, LookAtMode, CheckNoClient, At
    <3>3. Counts'
      BY <2>2, LookCounts
    <3> QED
      BY <1>2, <3>1, <3>2, <3>3, OutcomeReports, OutcomeMade
  <2>3. ASSUME NEW fault \in BOOLEAN, Change(p, fault)
        PROVE  RestTypes' /\ Counts' /\ Reports' /\ AllMade'
    <3>1. todo[p] # <<>> /\ Outcome(p)
      BY <2>3, ChangeOutcome DEF TypeInv
    <3>2. /\ RestTypes' /\ FsKept
          /\ Head(todo[p]) = <<"fs-new">> =>
               filesystems'[Op(p).fs] \in SUBSET Pools \/ todo'[p] = <<>>
      BY <2>3, ChangeRest DEF FsKept
    <3>3. Counts'
      BY <2>3, LookCounts
    <3> QED
      BY <3>1, <3>2, <3>3, OutcomeReports, OutcomeMade
  <2>4. CASE (\E r \in Requests : Start(p, r)) \/ NextOp(p) \/ Reply(p) \/ Crash(p)
    BY <2>4, BetweenFull
  <2> QED
    BY <1>3, <2>1, <2>2, <2>3, <2>4 DEF Proxy
<1>4. CASE \E x \in Pools : ClientWrites(x)
  <2>1. RestTypes' /\ FsKept
    BY <1>1, <1>4 DEF ClientWrites, rest, RestTypes
  <2>2. Counts' /\ Reports'
    BY <1>4 DEF ClientWrites, counters, Counts, Reports
  <2>3. AllMade'
    BY <1>4, <2>1, MadeKept DEF ClientWrites, AllMade
  <2> QED
    BY <2>1, <2>2, <2>3
<1>5. CASE UNCHANGED vars
  <2>1. RestTypes' /\ FsKept
    BY <1>2, <1>5 DEF vars
  <2>2. Counts' /\ Reports'
    BY <1>5 DEF vars, counters, Counts, Reports
  <2>3. AllMade'
    BY <1>5, <2>1, MadeKept DEF vars, AllMade
  <2> QED
    BY <2>1, <2>2, <2>3
<1> QED
  BY <1>3, <1>4, <1>5 DEF Next

\* Pools, tiers, file systems, clients and runs keep their types whatever the
\* handlers of process_requests_v1 do and whatever fails.
THEOREM TypeCorrect == Spec => []TypeOK
<1>1. FullInv => TypeOK
  BY DEF FullInv, TypeInv, RunTypes, WorkTypes, RestTypes, Counts, Reports, TypeOK
<1> QED
  BY InitFull, NextFull, <1>1, PTL DEF Spec

-----------------------------------------------------------------------------
(* What is flushed before a tier is removed.                               *)

\* One proxy only.
Serial == \A p, q \in Proxies : p = q

\* The step that lets clients of the cold pool pass the tier by.
Unhook == <<"tier-set", "overlay", FALSE>>

\* What clients write gets into the tier x.
Writable(x) == tiers[x] # None /\ tiers[x].mode = "writeback"

\* Only a tier that clients use holds data its cold pool lacks.
Hooked == \A x \in dirty : x \in Pools /\ tiers[x] # None /\ tiers[x].overlay

\* Before a tier is let go of, no write gets into it and it is flushed, or both
\* are still to be done, in that order.
Drained(p) ==
  \A k \in 1 .. Len(todo[p]) : todo[p][k] = Unhook =>
    \/ k = 1 /\ Op(p).hot \notin dirty /\ ~Writable(Op(p).hot)
    \/ k = 2 /\ todo[p][1] = <<"flush">> /\ ~Writable(Op(p).hot)
    \/ k = 3 /\ todo[p][1] = <<"tier-set", "mode", "forward">> /\ todo[p][2] = <<"flush">>

DrainInv == Hooked /\ \A p \in Proxies : Drained(p)

\* Only the removal of a tier lets go of it.
LEMMA RemovalUnhooks ==
  ASSUME NEW o, NEW s \in Seq(StepsOf(o)), NEW k \in 1 .. Len(s), s[k] = Unhook
  PROVE  o.op = "remove-cache-tier"
<1>1. Unhook \in StepsOf(o)
  OBVIOUS
<1>2. o.op # "create-cache-tier"
  BY <1>1 DEF StepsOf, Unhook, Final
<1>3. Owned(Unhook, o)
  BY <1>1 DEF StepsOf
<1> QED
  BY <1>2, <1>3 DEF Owned, Unhook

\* A handler comes to let go of a tier where it has looked how the tier caches.
LEMMA ModeDrains ==
  ASSUME NEW p \in Proxies, todo[p] # <<>>, RunTypes, WorkTypes, NEW fault \in BOOLEAN,
         LookAtMode(p, fault)
  PROVE  Drained(p)'
<1>1. CASE fault
  <2>1. todo'[p] = <<>>
    BY <1>1 DEF LookAtMode, Raises, Answer, WorkTypes
  <2> QED
    BY <2>1 DEF Drained
<1>2. CASE ~fault
  <2>1. todo'[p] = RemoveCacheTier(CacheMode(Op(p).hot))
    BY <1>2 DEF LookAtMode, Skip, WorkTypes
  <2> DEFINE s == RemoveCacheTier(CacheMode(Op(p).hot))
  <2>2. ASSUME NEW k \in 1 .. Len(s), s[k] = Unhook
        PROVE  k = 3 /\ s[1] = <<"tier-set", "mode", "forward">> /\ s[2] = <<"flush">>
    <3>1. CASE s = <<<<"tier-set", "mode", "none">>, <<"tier-remove">>>>
      BY <2>2, <3>1 DEF Unhook
    <3>2. CASE s = <<<<"tier-set", "mode", "forward">>, <<"flush">>,
                     <<"tier-set", "overlay", FALSE>>, <<"tier-remove">>>>
      BY <2>2, <3>2 DEF Unhook
    <3>3. CASE s = <<>>
      BY <2>2, <3>3
    <3> QED
      BY <3>1, <3>2, <3>3 DEF RemoveCacheTier
  <2> HIDE DEF s
  <2> QED
    BY <2>1, <2>2 DEF Drained, s
<1> QED
  BY <1>1, <1>2

\* No other step brings the letting go nearer than it was.
LEMMA TailDrains ==
  ASSUME NEW p \in Proxies, todo[p] # <<>>, TypeInv, WorkTypes', Drained(p), Outcome(p),
         Head(todo[p])[1] \notin {"tier-set", "flush", "tier-mode"}
  PROVE  Drained(p)'
<1> USE DEF TypeInv
<1>1. CASE Op(p).op # "remove-cache-tier" /\ Op(p)' = Op(p)
  <2> SUFFICES ASSUME NEW k \in 1 .. Len(todo'[p]), todo'[p][k] = Unhook PROVE FALSE
    BY DEF Drained
  <2>1. todo'[p] \in Seq(StepsOf(Op(p)))
    BY <1>1 DEF WorkTypes
  <2> QED
    BY <1>1, <2>1, RemovalUnhooks
<1>2. CASE todo'[p] = <<>>
  BY <1>2 DEF Drained
<1>3. CASE todo' = [todo EXCEPT ![p] = Tail(@)]
  <2>1. todo[p] \in Seq(StepType) /\ todo'[p] = Tail(todo[p])
    BY <1>3 DEF WorkTypes
  <2>2. ASSUME NEW k \in 1 .. Len(todo'[p]), todo'[p][k] = Unhook PROVE FALSE
    <3>1. k + 1 \in 1 .. Len(todo[p]) /\ todo[p][k + 1] = Unhook /\ k + 1 # 1
      BY <2>1, <2>2
    <3>2. todo[p][1] = <<"flush">> \/ todo[p][1] = <<"tier-set", "mode", "forward">>
      BY <3>1 DEF Drained
    <3> QED
      BY <2>1, <3>2
  <2> QED
    BY <2>2 DEF Drained
<1>4. CASE Op(p).op = "remove-cache-tier"
  BY <1>2, <1>3, <1>4 DEF Outcome, GoOn, Raises, Answer, WorkTypes
<1>5. CASE Op(p).op # "remove-cache-tier"
  <2>1. todo'[p] = <<>> \/ Op(p)' = Op(p)
    BY DEF Outcome, GoOn, Skip, Raises, Answer, WorkTypes, Op
  <2> QED
    BY <1>1, <1>2, <1>5, <2>1
<1> QED
  BY <1>4, <1>5

\* Where every pool's data and tier go when a pool is renamed.
Swap(o, moves) ==
  [x \in Pools |-> CASE ~moves -> x
                     [] moves /\ x = o.pool -> o.to
                     [] moves /\ x = o.to -> o.pool
                     [] OTHER -> x]

\* No command takes a tier, or clients from it, that holds such data.
LEMMA CommandHooks ==
  ASSUME NEW p \in Proxies, TypeInv, DrainInv, NEW fault \in BOOLEAN, Change(p, fault)
  PROVE  Hooked'
<1> USE DEF TypeInv
<1> DEFINE o == Op(p)
<1>1. todo[p] # <<>> /\ o \in OpType /\ Owned(Head(todo[p]), o) /\ Head(todo[p]) \in StepsOf(o)
  BY ChangeOutcome, AtOp
<1>2. PoolTypes /\ Drained(p) /\ Hooked /\ todo[p] \in Seq(StepType)
  BY DEF PoolTypes, WorkTypes, DrainInv
<1>3. CASE RenameCommand(p, fault)
  <2>1. o.pool \in Pools /\ o.to \in Pools
    BY <1>1, <1>3, OpFields DEF RenameCommand, At, Owned
  <2> DEFINE moves == ~fault /\ pools[o.pool] # None /\ pools[o.to] = None
  <2> DEFINE swap == Swap(o, moves)
  <2>2. swap \in [Pools -> Pools] /\ \A x \in Pools : swap[swap[x]] = x
    BY <2>1 DEF Swap
  <2>3. /\ tiers' = [x \in Pools |->
                       IF tiers[swap[x]] = None THEN None
                       ELSE [tiers[swap[x]] EXCEPT !.cold = swap[@]]]
        /\ dirty' = {swap[x] : x \in dirty}
    BY <1>3 DEF RenameCommand, Swap
  <2> HIDE DEF swap
  <2> SUFFICES ASSUME NEW x \in dirty
               PROVE  /\ swap[x] \in Pools
                      /\ tiers'[swap[x]] # None /\ tiers'[swap[x]].overlay
    BY <2>3 DEF Hooked
  <2>4. x \in Pools /\ tiers[x] # None /\ tiers[x].overlay
    BY <1>2 DEF Hooked
  <2> QED
    BY <2>2, <2>3, <2>4, <1>2, BrokerRequestsAssumption DEF PoolTypes, Tier
<1>4. CASE FlushCommand(p, fault)
  BY <1>2, <1>4 DEF FlushCommand, Hooked
<1>5. CASE TierAddCommand(p, fault)
  BY <1>2, <1>5 DEF TierAddCommand, Hooked, PoolTypes
<1>6. CASE TierRemoveCommand(p, fault)
  BY <1>2, <1>6 DEF TierRemoveCommand, Hooked, PoolTypes
<1>7. CASE TierSetCommand(p, fault)
  <2> DEFINE st == Head(todo[p])
  <2>1. o.hot \in Pools /\ st \in StepType /\ st[1] = "tier-set" /\ st = todo[p][1]
    BY <1>1, <1>2, <1>7, OpFields DEF TierSetCommand, At, Owned, StepsOf
  <2>2. \/ tiers' = tiers
        \/ /\ tiers[o.hot] # None
           /\ tiers' = [tiers EXCEPT ![o.hot] = [@ EXCEPT ![st[2]] = st[3]]]
    BY <1>7 DEF TierSetCommand
  <2>9. dirty' = dirty
    BY <1>7 DEF TierSetCommand
  <2>3. st = Unhook => o.hot \notin dirty
    <3>1. 1 \in 1 .. Len(todo[p]) /\ Unhook[1] = "tier-set"
      BY <1>1, <1>2 DEF Unhook
    <3> QED
      BY <1>2, <2>1, <3>1 DEF Drained
  <2>4. st # Unhook => st[2] # "overlay" \/ st[3] = TRUE
    <3>1. ASSUME st[2] = "overlay" PROVE st[3] \in BOOLEAN /\ st = <<"tier-set", "overlay", st[3]>>
      <4>1. st \in {"tier-set"} \X {"overlay", "bloom"} \X BOOLEAN
        BY <2>1, <3>1 DEF StepType
      <4> HIDE DEF st
      <4> QED
        BY <3>1, <4>1
    <3> HIDE DEF st
    <3> QED
      BY <3>1 DEF Unhook
  <2>5. tiers[o.hot] # None => tiers[o.hot] \in Tier
    BY <1>2, <2>1 DEF PoolTypes
  <2> SUFFICES ASSUME NEW x \in dirty
               PROVE  x \in Pools /\ tiers'[x] # None /\ tiers'[x].overlay
    BY <2>9 DEF Hooked
  <2>6. x \in Pools /\ tiers[x] # None /\ tiers[x].overlay
    BY <1>2 DEF Hooked
  <2>7. CASE tiers' = tiers \/ x # o.hot
    BY <1>2, <2>2, <2>6, <2>7 DEF PoolTypes
  <2>8. CASE tiers' # tiers /\ x = o.hot
    <3> DEFINE t == tiers[x]
    <3>1. t \in Tier /\ tiers'[x] = [t EXCEPT ![st[2]] = st[3]]
      BY <1>2, <2>1, <2>2, <2>5, <2>6, <2>8 DEF PoolTypes
    <3>2. tiers'[x] \in Tier
      BY <2>1, <3>1, TierUpdate
    <3>3. st[2] # "overlay" \/ st[3] = TRUE
      BY <2>3, <2>4, <2>8
    <3> HIDE DEF t, st
    <3>4. tiers'[x].overlay
      BY <2>6, <3>1, <3>3 DEF Tier, t
    <3> QED
      BY <2>6, <3>2, <3>4, BrokerRequestsAssumption
  <2> QED
    BY <2>7, <2>8
<1>8. CASE UNCHANGED <<tiers, dirty>>
  BY <1>2, <1>8 DEF Hooked
<1> QED
  BY <1>3, <1>4, <1>5, <1>6, <1>7, <1>8
  DEF Change, AddToGroup, CreateCommand, SetCommand, DeleteCommand, ProfileCommand, FsNewCommand,
      FsAddCommand, AdminCommand, SnapshotCommand, RemoveProfileCommand, AuthorizeCommand,
      CapsCommand, tiering, cluster, rest

\* The two commands that come before the letting go.
LEMMA CommandDrains ==
  ASSUME NEW p \in Proxies, TypeInv, WorkTypes', DrainInv, NEW fault \in BOOLEAN, Change(p, fault)
  PROVE  Drained(p)'
<1> USE DEF TypeInv
<1> DEFINE s == todo[p]
<1>1. s # <<>> /\ Outcome(p) /\ Drained(p)
  BY ChangeOutcome DEF DrainInv
<1>2. Op(p) \in OpType /\ Owned(Head(s), Op(p)) /\ s \in Seq(StepType) /\ Head(s) = s[1]
  BY <1>1, AtOp DEF WorkTypes
<1>3. PoolTypes
  BY DEF PoolTypes, WorkTypes
<1>4. ASSUME todo'[p] = Tail(s), NEW k \in 1 .. Len(todo'[p]), todo'[p][k] = Unhook
      PROVE  /\ k + 1 \in 1 .. Len(s) /\ s[k + 1] = Unhook
             /\ k = 1 => s[1] = <<"flush">> /\ ~Writable(Op(p).hot)
             /\ k = 2 => s[1] = <<"tier-set", "mode", "forward">> /\ s[2] = <<"flush">>
             /\ k \in {1, 2}
             /\ Op(p).op = "remove-cache-tier"
  <2>1. k + 1 \in 1 .. Len(s) /\ s[k + 1] = Unhook /\ k \in Nat
    BY <1>2, <1>4
  <2>2. Op(p).op = "remove-cache-tier"
    BY <1>1, <2>1, RemovalUnhooks DEF WorkTypes
  <2> QED
    BY <1>1, <2>1, <2>2 DEF Drained
<1>5. CASE FlushCommand(p, fault)
  <2>1. CASE fault
    BY <1>5, <2>1 DEF FlushCommand, Raises, Answer, WorkTypes, Drained
  <2>2. CASE ~fault
    <3>1. /\ todo'[p] = Tail(s) /\ Op(p)' = Op(p) /\ tiers' = tiers
          /\ Op(p).hot \notin dirty' /\ Head(s)[1] = "flush"
      BY <1>5, <2>2 DEF FlushCommand, GoOn, WorkTypes, Op, At
    <3>2. ASSUME NEW k \in 1 .. Len(todo'[p]), todo'[p][k] = Unhook
          PROVE  k = 1 /\ ~Writable(Op(p).hot)
      BY <1>2, <1>4, <3>1, <3>2
    <3>3. Writable(Op(p).hot)' = Writable(Op(p).hot)
      BY <3>1 DEF Writable
    <3> QED
      BY <3>1, <3>2, <3>3 DEF Drained
  <2> QED
    BY <2>1, <2>2
<1>6. CASE TierSetCommand(p, fault)
  <2>1. CASE ~fault /\ tiers[Op(p).hot] # None
    <3>1. /\ todo'[p] = Tail(s) /\ Op(p)' = Op(p) /\ Head(s)[1] = "tier-set"
          /\ tiers' = [tiers EXCEPT ![Op(p).hot] = [@ EXCEPT ![Head(s)[2]] = Head(s)[3]]]
      BY <1>6, <2>1 DEF TierSetCommand, GoOn, WorkTypes, Op, At
    <3>2. ASSUME NEW k \in 1 .. Len(todo'[p]), todo'[p][k] = Unhook
          PROVE  /\ k = 2 /\ todo'[p][1] = <<"flush">>
                 /\ ~Writable(Op(p).hot)'
      <4>1. /\ k = 2 /\ s[1] = <<"tier-set", "mode", "forward">> /\ s[2] = <<"flush">>
            /\ Op(p).op = "remove-cache-tier"
        BY <1>2, <1>4, <3>1, <3>2
      <4>2. Op(p).hot \in Pools
        BY <1>2, <4>1, OpFields
      <4>3. todo'[p][1] = <<"flush">>
        BY <1>2, <3>1, <3>2, <4>1
      <4>4. tiers'[Op(p).hot].mode = "forward"
        BY <1>2, <1>3, <2>1, <3>1, <4>1, <4>2 DEF PoolTypes, Tier
      <4> QED
        BY <3>1, <4>1, <4>3, <4>4 DEF Writable
    <3> QED
      BY <3>2 DEF Drained
  <2>2. CASE ~(~fault /\ tiers[Op(p).hot] # None)
    BY <1>6, <2>2 DEF TierSetCommand, Raises, Answer, WorkTypes, Drained
  <2> QED
    BY <2>1, <2>2
<1>7. CASE Head(s)[1] \notin {"tier-set", "flush", "tier-mode"}
  BY <1>1, <1>7, TailDrains
<1> QED
  BY <1>5, <1>6, <1>7
  DEF Change, At, AddToGroup, CreateCommand, SetCommand, DeleteCommand, RenameCommand,
      ProfileCommand, FsNewCommand, FsAddCommand, AdminCommand, SnapshotCommand,
      TierAddCommand, TierRemoveCommand, RemoveProfileCommand, AuthorizeCommand, CapsCommand

\* Nor does any step undo what was done before the letting go.
LEMMA NextDrains == Serial /\ TypeInv /\ DrainInv /\ [Next]_vars => DrainInv'
<1> SUFFICES ASSUME Serial, TypeInv, DrainInv, [Next]_vars PROVE DrainInv'
  OBVIOUS
<1> USE DEF TypeInv
<1>1. WorkTypes'
  BY NextTypes
<1>2. ASSUME NEW p \in Proxies, Proxy(p) PROVE DrainInv'
  <2> SUFFICES Hooked' /\ Drained(p)'
    BY DEF Serial, DrainInv
  <2>1. UNCHANGED cluster => Hooked'
    BY DEF DrainInv, Hooked, cluster, tiering
  <2>2. CASE CheckParams(p) \/ Validate(p) \/ LoadCrushmap(p)
    <3>1. Head(todo[p])[1] \notin {"tier-set", "flush", "tier-mode"}
      BY <2>2 DEF CheckParams, Validate, LoadCrushmap, At
    <3> QED
      BY <1>1, <2>1, <2>2, <3>1, CheckOutcome, TailDrains DEF DrainInv
  <2>3. ASSUME NEW fault \in BOOLEAN, Look(p, fault) PROVE Hooked' /\ Drained(p)'
    <3>1. todo[p] # <<>> /\ Outcome(p) /\ UNCHANGED cluster
      BY <2>3, LookOutcome
    <3>2. CASE LookAtMode(p, fault)
      BY <2>1, <3>1, <3>2, ModeDrains
    <3>3. CASE ~LookAtMode(p, fault)
      <4>1. Head(todo[p])[1] \notin {"tier-set", "flush", "tier-mode"}
        BY <2>3, <3>3 DEF Look, Cap, CheckProfile, ReadProfile, CheckExists, CheckNoProfile,
           CheckFsPool, CheckNoFs, CheckTierPool, Preflight, CheckNoClient, At
      <4> QED
        BY <1>1, <2>1, <3>1, <4>1, TailDrains DEF DrainInv
    <3> QED
      BY <3>2, <3>3
  <2>4. ASSUME NEW fault \in BOOLEAN, Change(p, fault) PROVE Hooked' /\ Drained(p)'
    BY <1>1, <2>4, CommandHooks, CommandDrains
  <2>5. CASE NextOp(p)
    <3>1. UNCHANGED cluster
      BY <2>5, BetweenWork
    <3>2. ASSUME NEW k \in 1 .. Len(todo'[p]), todo'[p][k] = Unhook PROVE FALSE
      <4> DEFINE o == Ops[req[p]][pos[p] + 1]
      <4>1. todo'[p] # <<>> /\ todo'[p] \in Seq(StepsOf(Op(p)'))
        BY <1>1, <3>2 DEF WorkTypes
      <4>2. o.op # "unknown" /\ Op(p)' = o
        BY <2>5, <4>1 DEF NextOp, Answer, WorkTypes, Op, RunTypes
      <4>3. o.op = "remove-cache-tier"
        BY <3>2, <4>1, <4>2, RemovalUnhooks
      <4>4. /\ todo'[p] \in {Plan(o), ActionPlan(o)}
        BY <2>5, <4>2 DEF NextOp, WorkTypes
      <4>5. \E step \in {"tier-pool", "preflight"} :
              todo'[p] = TierPools(step, o) \o <<<<"tier-mode">>>>
        BY <4>3, <4>4 DEF Plan, ActionPlan
      <4>6. PICK step \in {"tier-pool", "preflight"} :
              todo'[p] = TierPools(step, o) \o <<<<"tier-mode">>>>
        BY <4>5
      <4> DEFINE S == {st \in StepsOf(o) : st[1] # "tier-set"}
      <4>7. TierPools(step, o) \in Seq(S)
        <5>1. o \in OpType /\ <<o.cold, o.hot>> \in Seq(Pools)
          <6>1. req[p] \in Requests /\ pos[p] + 1 \in DOMAIN Ops[req[p]]
            BY <2>5, BrokerRequestsAssumption DEF NextOp, RunTypes
          <6>2. o \in OpType
            BY <6>1, BrokerRequestsAssumption
          <6> QED
            BY <4>3, <6>2, OpFields
        <5>2. \A x \in Pools : <<step, x>> \in S
          BY DEF StepsOf, StepType, Owned
        <5> HIDE DEF o, S
        <5> QED
          BY <5>1, <5>2, EachStep DEF TierPools
      <4>8. todo'[p][k] \in S \union {<<"tier-mode">>}
        <5> HIDE DEF o, S
        <5> QED
          BY <3>2, <4>6, <4>7
      <4> QED
        BY <3>2, <4>8 DEF Unhook
    <3> QED
      BY <2>1, <3>1, <3>2 DEF Drained
  <2>6. CASE (\E r \in Requests : Start(p, r)) \/ Reply(p) \/ Crash(p)
    <3>1. UNCHANGED cluster
      BY <2>6, BetweenWork
    <3>2. todo'[p] = <<>>
      BY <2>6 DEF Start, Reply, Crash, Answer, WorkTypes
    <3> QED
      BY <2>1, <3>1, <3>2 DEF Drained
  <2> QED
    BY <1>2, <2>2, <2>3, <2>4, <2>5, <2>6 DEF Proxy
<1>3. ASSUME NEW x \in Pools, ClientWrites(x) PROVE DrainInv'
  <2>1. Hooked'
    BY <1>3 DEF ClientWrites, DrainInv, Hooked
  <2>2. ASSUME NEW p \in Proxies PROVE Drained(p)'
    <3>1. UNCHANGED <<todo, tiers>> /\ Op(p)' = Op(p) /\ dirty' = dirty \union {x}
      BY <1>3 DEF ClientWrites, Op
    <3>2. Writable(x) /\ Writable(Op(p).hot)' = Writable(Op(p).hot)
      BY <1>3, <3>1 DEF ClientWrites, Writable
    <3> QED
      BY <3>1, <3>2 DEF DrainInv, Drained
  <2> QED
    BY <2>1, <2>2 DEF DrainInv
<1>4. CASE UNCHANGED vars
  BY <1>4 DEF vars, cluster, tiering, DrainInv, Hooked, Drained, Writable, Op
<1> QED
  BY <1>2, <1>3, <1>4 DEF Next

\* Carried out by one proxy, whatever fails and however often it goes down, no
\* request takes away a cache tier with data that its cold pool lacks: between
\* the flush and the removal no client writes into the tier, for its mode no
\* longer lets them.
THEOREM FlushedBeforeRemoved == Serial /\ Spec => []NothingDirtyIsRemoved
<1>1. Init => DrainInv
  BY DEF Init, DrainInv, Hooked, Drained
<1>2. DrainInv => NothingDirtyIsRemoved
  BY DEF DrainInv, Hooked, NothingDirtyIsRemoved
<1>3. Serial => Serial'
  BY DEF Serial
<1> QED
  BY InitTypes, NextTypes, NextDrains, <1>1, <1>2, <1>3, PTL DEF Spec

-----------------------------------------------------------------------------
(* What is settled when a pool is created.                                 *)

\* A step that sets what is settled when a pool is created.
Anew(st) == st[1] = "set" /\ st[2] \in CreationSettings

\* If the pool of o is there, it has of what o asks for what it has at all.
Fresh(o) ==
  pools[o.pool] # None =>
    \A s \in CreationSettings : pools[o.pool][s] \in {None, o.want[s]}

\* A step that ends the handler of o for its parameters.
Stops(o, st) ==
  \/ st = <<"params">> /\ o.params = "missing"
  \/ st = <<"validate">> /\ o.params = "invalid"

\* Before such a step, a pool that is there was made by this run, or the run is
\* still to look for it: once if no other look can fail, or twice.
Guarded(p) ==
  \A k \in 1 .. Len(todo[p]) : Anew(todo[p][k]) =>
    \/ Op(p).op = "create-pool" /\ Fresh(Op(p))
    \/ \E i \in 1 .. (k - 1) :
         \/ Stops(Op(p), todo[p][i])
         \/ /\ todo[p][i] = <<"exists">>
            /\ \/ readFaults = MaxReadFaults
               \/ \E j \in 1 .. (i - 1) : todo[p][j] = <<"exists">>

\* A pool that nobody else asks for otherwise is never anything else.
LoneFresh ==
  \A r \in Requests : \A i \in DOMAIN Ops[r] :
    Ops[r][i].op = "create-pool" /\ Unrivalled(Ops[r][i]) => Fresh(Ops[r][i])

SettleInv == LoneFresh /\ \A p \in Proxies : Guarded(p)

\* Only two operations have such steps.
LEMMA AnewOwned ==
  ASSUME NEW o, NEW s \in Seq(StepsOf(o)), NEW k \in 1 .. Len(s), Anew(s[k])
  PROVE  o.op \in {"create-pool", "set-pool-value"}
<1>1. s[k] \in StepsOf(o)
  OBVIOUS
<1> QED
  BY <1>1 DEF StepsOf, Owned, Anew

\* Three steps after a part are where they were.
LEMMA ThreeAt ==
  ASSUME NEW U, NEW s \in Seq(U), NEW x \in U, NEW y \in U, NEW z \in U,
         NEW t \in Seq(U), NEW v \in Seq(U),
         NEW w, w = ((s \o <<x, y, z>>) \o t) \o v
  PROVE  /\ Len(s) \in Nat /\ Len(w) \in Nat
         /\ \A n \in 1 .. Len(s) : w[n] = s[n]
         /\ w[Len(s) + 1] = x /\ w[Len(s) + 2] = y /\ w[Len(s) + 3] = z
<1> DEFINE c == <<x, y, z>>
           a == s \o c
           b == a \o t
<1>1. c \in Seq(U)
  OBVIOUS
<1>2. Len(c) = 3 /\ c[1] = x /\ c[2] = y /\ c[3] = z
  OBVIOUS
<1> HIDE DEF c
<1>3. /\ a \in Seq(U) /\ Len(a) = Len(s) + Len(c)
      /\ \A n \in 1 .. Len(s) : a[n] = s[n]
      /\ \A n \in 1 .. Len(c) : a[Len(s) + n] = c[n]
  BY <1>1
<1>4. Len(s) \in Nat /\ Len(t) \in Nat
  OBVIOUS
<1>5. w = b \o v
  BY DEF c
<1> HIDE DEF a
<1>6. a \in Seq(U)
  BY <1>3
<1>7. /\ b \in Seq(U) /\ Len(b) = Len(a) + Len(t)
      /\ \A n \in 1 .. Len(a) : b[n] = a[n]
  BY <1>6
<1> HIDE DEF b
<1>8. b \in Seq(U)
  BY <1>7
<1>9. /\ b \o v \in Seq(U)
      /\ \A n \in 1 .. Len(b) : (b \o v)[n] = b[n]
  BY <1>8
<1>10. \A n \in 1 .. (Len(s) + 3) : w[n] = a[n]
  <2> SUFFICES ASSUME NEW n \in 1 .. (Len(s) + 3) PROVE w[n] = a[n]
    OBVIOUS
  <2>1. n \in 1 .. Len(a) /\ n \in 1 .. Len(b)
    BY <1>2, <1>3, <1>4, <1>7
  <2>2. b[n] = a[n]
    BY <1>7, <2>1
  <2>3. (b \o v)[n] = b[n]
    BY <1>9, <2>1
  <2> QED
    BY <1>5, <2>2, <2>3
<1>11. a[Len(s) + 1] = x /\ a[Len(s) + 2] = y /\ a[Len(s) + 3] = z
  BY <1>2, <1>3
<1>12. Len(w) \in Nat
  BY <1>5, <1>9
<1> QED
  BY <1>2, <1>3, <1>4, <1>10, <1>11, <1>12

\* The handler of a request looks for the pool twice before it creates it, an
\* action once.
LEMMA PlanLooks ==
  ASSUME NEW o \in OpType, o.op = "create-pool"
  PROVE  /\ \A k \in 1 .. Len(Plan(o)) : Anew(Plan(o)[k]) =>
              \E i \in 1 .. (k - 1) :
                /\ Plan(o)[i] = <<"exists">>
                /\ \E j \in 1 .. (i - 1) : Plan(o)[j] = <<"exists">>
         /\ \A k \in 1 .. Len(ActionPlan(o)) : Anew(ActionPlan(o)[k]) =>
              1 \in 1 .. (k - 1) /\ ActionPlan(o)[1] = <<"exists">>
<1> DEFINE S == StepsOf(o)
           T == {st \in S : st[1] # "set"}
           A == (When(o.kind = "replicated" /\ o.pg, <<"cap">>) \o When(o.group, <<"group">>))
                  \o When(o.kind = "erasure", <<"profile">>)
           B == <<<<"params">>, <<"exists">>, <<"exists">>>>
           s == ((A \o B) \o CreatePool(o)) \o UpdatePool(o)
<1>1. /\ <<"cap">> \in T /\ <<"group">> \in T /\ <<"profile">> \in T
      /\ <<"params">> \in S /\ <<"exists">> \in T
  BY PlainSteps, OwnedSteps DEF Owned
<1>2. CreatePool(o) \in Seq(S) /\ UpdatePool(o) \in Seq(S)
  <2>1. CreatePool(o) \in Seq(Ungrouped(o)) /\ UpdatePool(o) \in Seq(Ungrouped(o))
    BY PoolSteps
  <2>2. Ungrouped(o) \subseteq S
    BY DEF Ungrouped
  <2> HIDE DEF S
  <2> QED
    BY <2>1, <2>2
<1>3. A \in Seq(T)
  <2>1. /\ When(o.kind = "replicated" /\ o.pg, <<"cap">>) \in Seq(T)
        /\ When(o.group, <<"group">>) \in Seq(T)
        /\ When(o.kind = "erasure", <<"profile">>) \in Seq(T)
    <3> HIDE DEF T
    <3> QED
      BY <1>1 DEF When
  <2> HIDE DEF T
  <2> QED
    BY <2>1
<1>6. /\ Len(B) = 3 /\ B[1] = <<"params">> /\ B[2] = <<"exists">> /\ B[3] = <<"exists">>
      /\ B \in Seq(S)
  <2>1. <<"params">> \in S /\ <<"exists">> \in S
    BY <1>1
  <2> HIDE DEF S
  <2> QED
    BY <2>1
<1>7. \A n \in 1 .. Len(A) : ~Anew(A[n])
  <2>1. \A n \in 1 .. Len(A) : A[n] \in T
    BY <1>3
  <2> QED
    BY <2>1 DEF Anew
<1>8. ~Anew(<<"params">>) /\ ~Anew(<<"exists">>)
  BY DEF Anew
<1>9. ASSUME NEW k \in 1 .. Len(s), Anew(s[k])
      PROVE  \E i \in 1 .. (k - 1) :
               s[i] = <<"exists">> /\ \E j \in 1 .. (i - 1) : s[j] = <<"exists">>
  <2>1. A \in Seq(S)
    <3>1. T \subseteq S
      OBVIOUS
    <3> HIDE DEF S, T, A
    <3> QED
      BY <1>3, <3>1
  <2> HIDE DEF S, T, A, B
  <2>2. /\ \A n \in 1 .. Len(A) : s[n] = A[n]
        /\ s[Len(A) + 1] = B[1] /\ s[Len(A) + 2] = B[2] /\ s[Len(A) + 3] = B[3]
        /\ Len(A) \in Nat /\ Len(s) \in Nat
    <3>1. <<"params">> \in S /\ <<"exists">> \in S
      BY <1>1 DEF T
    <3> QED
      BY <1>2, <2>1, <3>1, ThreeAt DEF B
  <2> HIDE DEF s
  <2>3. k \notin 1 .. Len(A)
    BY <1>7, <1>9, <2>2
  <2>4. k # Len(A) + 1 /\ k # Len(A) + 2 /\ k # Len(A) + 3
    BY <1>6, <1>8, <1>9, <2>2
  <2>5. /\ Len(A) + 3 \in 1 .. (k - 1) /\ s[Len(A) + 3] = <<"exists">>
        /\ Len(A) + 2 \in 1 .. (Len(A) + 3 - 1) /\ s[Len(A) + 2] = <<"exists">>
    BY <1>6, <2>2, <2>3, <2>4
  <2> QED
    BY <2>5
<1>10. Plan(o) = s
  BY DEF Plan, CreatePoolPlan
<1>11. ASSUME NEW k \in 1 .. Len(ActionPlan(o)), Anew(ActionPlan(o)[k])
       PROVE  1 \in 1 .. (k - 1) /\ ActionPlan(o)[1] = <<"exists">>
  <2>1. ActionPlan(o) = <<<<"exists">>>> \o CreatePool(o)
    BY DEF ActionPlan
  <2>2. ActionPlan(o)[1] = <<"exists">>
    <3> HIDE DEF S
    <3> QED
      BY <1>2, <2>1
  <2> QED
    BY <1>8, <1>11, <2>2
<1> HIDE DEF s
<1> QED
  BY <1>9, <1>10, <1>11

\* What a run that takes up an operation finds before it.
LEMMA NextOpGuards ==
  ASSUME LooksSuffice, NoneReset, FullInv, LoneFresh, NEW p \in Proxies, NextOp(p),
         NEW r, r = req[p], NEW n, n = pos[p] + 1, NEW o, o = Ops[r][n]
  PROVE  Guarded(p)'
<1> USE DEF FullInv, TypeInv
<1>1. r \in Requests /\ n \in DOMAIN Ops[r] /\ Ops[r] \in Seq(OpType)
  BY BrokerRequestsAssumption DEF NextOp, RunTypes
<1>2. o \in OpType
  BY <1>1
<1>3. CASE todo'[p] = <<>>
  BY <1>3 DEF Guarded
<1>4. CASE todo'[p] # <<>>
  <2>1. /\ Op(p)' = o /\ UNCHANGED <<pools, readFaults>>
        /\ todo'[p] = IF r \in Actions THEN ActionPlan(o) ELSE Plan(o)
    <3>1. o.op # "unknown"
      BY <1>4 DEF NextOp, Answer, WorkTypes
    <3> QED
      BY <1>1, <3>1 DEF NextOp, Op, WorkTypes, RunTypes, cluster, counters
  <2> SUFFICES ASSUME NEW k \in 1 .. Len(todo'[p]), Anew(todo'[p][k])
               PROVE  \/ o.op = "create-pool" /\ Fresh(o)'
                      \/ \E i \in 1 .. (k - 1) :
                           \/ Stops(o, todo'[p][i])
                           \/ /\ todo'[p][i] = <<"exists">>
                              /\ \/ readFaults' = MaxReadFaults
                                 \/ \E j \in 1 .. (i - 1) : todo'[p][j] = <<"exists">>
    BY <2>1 DEF Guarded
  <2>2. Plan(o) \in Seq(StepsOf(o)) /\ ActionPlan(o) \in Seq(StepsOf(o))
    BY <1>2, PlanSteps
  <2>3. o.op \in {"create-pool", "set-pool-value"}
    BY <2>1, <2>2, AnewOwned
  <2>4. CASE o.op = "create-pool" /\ r \notin Actions
    BY <1>2, <2>1, <2>4, PlanLooks
  <2>5. CASE o.op = "create-pool" /\ r \in Actions
    <3>1. n = 1 /\ Ops[r][1] = o
      BY <1>1, <2>5, BrokerRequestsAssumption
    <3>2. CASE MaxReadFaults = 0
      <4>1. readFaults' = MaxReadFaults
        BY <2>1, <3>2 DEF Counts
      <4>2. 1 \in 1 .. (k - 1) /\ todo'[p][1] = <<"exists">>
        BY <1>2, <2>1, <2>5, PlanLooks
      <4> QED
        BY <4>1, <4>2
    <3>3. CASE Unrivalled(o)
      <4>1. Fresh(o)
        BY <1>1, <2>5, <3>1, <3>3 DEF LoneFresh
      <4>2. Fresh(o)'
        BY <2>1, <4>1 DEF Fresh
      <4> QED
        BY <2>5, <4>2
    <3> QED
      BY <2>5, <3>1, <3>2, <3>3 DEF LooksSuffice
  <2>6. CASE o.op = "set-pool-value"
    <3>1. o.key \in Settings /\ o.params \in Params
      BY <1>2, <2>6 DEF OpType
    <3>2. CASE o.key \notin CreationSettings
      <4>1. SetPoolValuePlan(o) = <<<<"params">>, <<"validate">>, <<"set", o.key>>>>
        BY DEF SetPoolValuePlan
      <4>2. todo'[p] \in {<<<<"params">>, <<"validate">>, <<"set", o.key>>>>, <<<<"set", o.key>>>>}
        BY <2>1, <2>6, <4>1 DEF Plan, ActionPlan
      <4> QED
        BY <3>2, <4>2 DEF Anew
    <3>3. CASE o.key \in CreationSettings
      <4>1. o.params # "ok" /\ r \notin Actions
        BY <1>1, <2>6, <3>3 DEF NoneReset
      <4>2. todo'[p] = <<<<"params">>, <<"validate">>, <<"set", o.key>>>>
        BY <2>1, <2>6, <4>1 DEF Plan, SetPoolValuePlan
      <4>3. k = 3
        BY <4>2 DEF Anew
      <4>4. Stops(o, todo'[p][1]) \/ Stops(o, todo'[p][2])
        BY <3>1, <4>1, <4>2 DEF Stops, Params
      <4> QED
        BY <4>3, <4>4
    <3> QED
      BY <3>2, <3>3
  <2> QED
    BY <2>3, <2>4, <2>5, <2>6
<1> QED
  BY <1>3, <1>4

\* A handler that goes on keeps what is before a creation setting, or has found
\* what it was there for.
LEMMA TailGuards ==
  ASSUME TypeInv, NEW p \in Proxies, todo[p] # <<>>, todo'[p] = Tail(todo[p]),
         NEW o, o = Op(p), Op(p)' = o, Guarded(p), ~Stops(o, Head(todo[p])),
         o.op = "create-pool" /\ Fresh(o) => Fresh(o)',
         readFaults = MaxReadFaults => readFaults' = MaxReadFaults,
         Head(todo[p]) = <<"exists">> =>
           \/ readFaults # MaxReadFaults /\ readFaults' = MaxReadFaults
           \/ o.op = "create-pool" /\ Fresh(o)'
  PROVE  Guarded(p)'
<1> DEFINE s == todo[p]
<1>1. s \in Seq(StepType) /\ Head(s) = s[1]
  BY DEF TypeInv, WorkTypes
<1> HIDE DEF s
<1> SUFFICES ASSUME NEW k \in 1 .. Len(Tail(s)), Anew(Tail(s)[k])
             PROVE  \/ o.op = "create-pool" /\ Fresh(o)'
                    \/ \E i \in 1 .. (k - 1) :
                         \/ Stops(o, Tail(s)[i])
                         \/ /\ Tail(s)[i] = <<"exists">>
                            /\ \/ readFaults' = MaxReadFaults
                               \/ \E j \in 1 .. (i - 1) : Tail(s)[j] = <<"exists">>
  BY DEF Guarded, s
<1>2. k + 1 \in 1 .. Len(s) /\ Anew(s[k + 1]) /\ k \in Nat
  BY <1>1 DEF s
<1>3. \A n \in 1 .. (k + 1) : n # 1 => n - 1 \in 1 .. Len(Tail(s)) /\ Tail(s)[n - 1] = s[n]
  BY <1>1, <1>2 DEF s
<1>4. \/ o.op = "create-pool" /\ Fresh(o)
      \/ \E i \in 1 .. k :
           \/ Stops(o, s[i])
           \/ /\ s[i] = <<"exists">>
              /\ \/ readFaults = MaxReadFaults
                 \/ \E j \in 1 .. (i - 1) : s[j] = <<"exists">>
  <2>1. (k + 1) - 1 = k
    BY <1>2
  <2>2. \A n \in 1 .. Len(s) : Anew(s[n]) =>
          \/ o.op = "create-pool" /\ Fresh(o)
          \/ \E i \in 1 .. (n - 1) :
               \/ Stops(o, s[i])
               \/ /\ s[i] = <<"exists">>
                  /\ \/ readFaults = MaxReadFaults
                     \/ \E j \in 1 .. (i - 1) : s[j] = <<"exists">>
    BY DEF Guarded, s
  <2> QED
    BY <1>2, <2>1, <2>2
<1>5. ASSUME NEW i \in 1 .. k, Stops(o, s[i]) PROVE \E m \in 1 .. (k - 1) : Stops(o, Tail(s)[m])
  <2>1. i # 1
    BY <1>1, <1>5 DEF s
  <2>2. i - 1 \in 1 .. (k - 1) /\ Tail(s)[i - 1] = s[i]
    BY <1>2, <1>3, <2>1
  <2> QED
    BY <1>5, <2>2
<1>6. ASSUME NEW i \in 1 .. k, s[i] = <<"exists">>, i # 1, readFaults = MaxReadFaults
      PROVE  i - 1 \in 1 .. (k - 1) /\ Tail(s)[i - 1] = <<"exists">> /\ readFaults' = MaxReadFaults
  BY <1>2, <1>3, <1>6
<1>7. ASSUME NEW i \in 1 .. k, s[i] = <<"exists">>, NEW j \in 1 .. (i - 1), s[j] = <<"exists">>
      PROVE  \/ o.op = "create-pool" /\ Fresh(o)'
             \/ /\ i - 1 \in 1 .. (k - 1) /\ Tail(s)[i - 1] = <<"exists">>
                /\ \/ readFaults' = MaxReadFaults
                   \/ j - 1 \in 1 .. (i - 1 - 1) /\ Tail(s)[j - 1] = <<"exists">>
  <2>1. i - 1 \in 1 .. (k - 1) /\ Tail(s)[i - 1] = <<"exists">>
    BY <1>2, <1>3, <1>7
  <2>2. CASE j = 1
    BY <1>1, <1>7, <2>1, <2>2 DEF s
  <2>3. CASE j # 1
    BY <1>2, <1>3, <1>7, <2>1, <2>3
  <2> QED
    BY <2>2, <2>3
<1>8. ASSUME NEW i \in 1 .. k, s[i] = <<"exists">>, i = 1, readFaults = MaxReadFaults
      PROVE  o.op = "create-pool" /\ Fresh(o)'
  BY <1>1, <1>8 DEF s
<1> QED
  BY <1>4, <1>5, <1>6, <1>7, <1>8

\* No command sets a creation setting of the pool of o to anything new.
LEMMA FreshKept ==
  ASSUME TypeInv, NEW p \in Proxies, Guarded(p), NEW fault \in BOOLEAN, Change(p, fault),
         NEW o \in OpType, o.op = "create-pool", Fresh(o), o = Op(p) \/ Unrivalled(o)
  PROVE  Fresh(o)'
<1> USE DEF TypeInv
<1> DEFINE mine == Op(p)
           st == Head(todo[p])
<1>1. /\ todo[p] # <<>> /\ mine \in OpType /\ st \in StepType /\ Owned(st, mine)
      /\ req[p] \in Requests /\ pos[p] \in DOMAIN Ops[req[p]] /\ mine = Ops[req[p]][pos[p]]
  BY ChangeOutcome, AtOp, HeadAt DEF Op
<1>2. o.pool \in Pools /\ PoolTypes /\ o.want \in [Settings -> Values \union {None}]
  BY OpFields DEF PoolTypes, WorkTypes
<1>3. CASE pools' = pools
  BY <1>3 DEF Fresh
<1>4. CASE CreateCommand(p, fault)
  <2>1. mine.pool \in Pools
    BY <1>1, <1>4, OpFields DEF CreateCommand, At, Owned
  <2>2. pools' = pools \/ pools' = [pools EXCEPT ![mine.pool] = [c \in Settings |-> None]]
    BY <1>4 DEF CreateCommand
  <2> QED
    BY <1>2, <2>1, <2>2 DEF Fresh, PoolTypes, Settings
<1>5. CASE SetCommand(p, fault)
  <2> DEFINE c == st[2]
  <2>1. c \in Settings /\ mine.op \in {"create-pool", "set-pool-value"} /\ mine.pool \in Pools
        /\ st[1] = "set"
    BY <1>1, <1>5, OpFields DEF SetCommand, At, StepType, Owned
  <2>2. \/ pools' = pools
        \/ /\ pools[mine.pool] # None
           /\ pools' = [pools EXCEPT ![mine.pool][c] = ValueOf(mine, c)]
    BY <1>5 DEF SetCommand
  <2>3. CASE mine.pool # o.pool
    BY <1>2, <2>1, <2>2, <2>3 DEF Fresh, PoolTypes
  <2>4. CASE mine.pool = o.pool /\ c \notin CreationSettings
    BY <1>2, <2>1, <2>2, <2>4 DEF Fresh, PoolTypes, Properties, Settings
  <2>5. CASE mine.pool = o.pool /\ c \in CreationSettings
    <3>1. 1 \in 1 .. Len(todo[p]) /\ Anew(todo[p][1])
      <4>1. todo[p] \in Seq(StepType) /\ st = todo[p][1]
        BY <1>1 DEF WorkTypes
      <4> QED
        BY <1>1, <2>1, <2>5, <4>1 DEF Anew
    <3>2. mine.op = "create-pool"
      BY <3>1 DEF Guarded
    <3>3. ValueOf(mine, c) = o.want[c]
      BY <1>1, <2>5, <3>2 DEF ValueOf, Unrivalled
    <3> QED
      BY <1>2, <2>1, <2>2, <2>5, <3>3 DEF Fresh, PoolTypes, Properties, Settings
  <2> QED
    BY <2>3, <2>4, <2>5
<1>6. CASE DeleteCommand(p, fault)
  BY <1>2, <1>6 DEF DeleteCommand, Fresh, PoolTypes
<1>7. CASE RenameCommand(p, fault)
  <2>1. mine.op = "rename-pool"
    BY <1>1, <1>7 DEF RenameCommand, At, Owned
  <2>2. mine.to # o.pool
    BY <1>1, <2>1 DEF Unrivalled
  <2>3. pools'[o.pool] = pools[o.pool] \/ pools'[o.pool] = None
    BY <1>2, <1>7, <2>2 DEF RenameCommand
  <2> QED
    BY <2>3 DEF Fresh
<1> QED
  BY <1>3, <1>4, <1>5, <1>6, <1>7
  DEF Change, AddToGroup, ProfileCommand, FsNewCommand, FsAddCommand, AdminCommand,
      SnapshotCommand, TierAddCommand, TierSetCommand, TierRemoveCommand, FlushCommand,
      RemoveProfileCommand, AuthorizeCommand, CapsCommand, tiering, cluster, rest

\* Updating a pool sets none of them.
LEMMA UpdateSettles ==
  ASSUME NEW o \in OpType, o.op = "create-pool", NEW k \in 1 .. Len(UpdatePool(o))
  PROVE  ~Anew(UpdatePool(o)[k])
<1> DEFINE S == {st \in StepsOf(o) : ~Anew(st)}
<1>1. /\ <<"validate">> \in S
      /\ \A s \in MutableSettings : <<"set", s>> \in S
  <2>1. \A s \in MutableSettings : <<"set", s>> \in StepsOf(o)
    BY DEF StepsOf, StepType, Owned, Settings
  <2> QED
    BY <2>1, PlainSteps DEF Anew, CreationSettings, MutableSettings
<1> HIDE DEF S
<1>2. /\ <<<<"validate">>>> \in Seq(S)
      /\ Want(o, "quota") \in Seq(S) /\ Want(o, "compression") \in Seq(S)
  BY <1>1 DEF Want, When, MutableSettings
<1>3. UpdatePool(o) \in Seq(S)
  BY <1>2 DEF UpdatePool
<1> QED
  BY <1>3 DEF S

\* Where pools are not looked for.
LEMMA HandlerGuards ==
  ASSUME TypeInv, WorkTypes', NEW p \in Proxies, todo[p] # <<>>, Outcome(p), Guarded(p),
         NEW o, o = Op(p), Head(todo[p])[1] # "exists",
         todo'[p] # <<>> => ~Stops(o, Head(todo[p])),
         o.op = "create-pool" /\ Fresh(o) => Fresh(o)',
         readFaults = MaxReadFaults => readFaults' = MaxReadFaults
  PROVE  Guarded(p)'
<1> USE DEF TypeInv
<1>1. CASE todo'[p] = <<>>
  BY <1>1 DEF Guarded
<1>2. CASE todo'[p] # <<>>
  <2>1. Op(p)' = o
    BY <1>2 DEF Outcome, GoOn, Skip, Raises, Answer, WorkTypes, Op
  <2>2. CASE todo'[p] = Tail(todo[p])
    BY <1>2, <2>1, <2>2, TailGuards
  <2>3. CASE o.op \notin {"create-pool", "set-pool-value"}
    <3>1. todo'[p] \in Seq(StepsOf(o))
      BY <1>2, <2>1 DEF WorkTypes
    <3> QED
      BY <2>3, <3>1, AnewOwned DEF Guarded
  <2>4. CASE todo'[p] # Tail(todo[p]) /\ o.op \in {"create-pool", "set-pool-value"}
    BY <1>2, <2>4 DEF Outcome, GoOn, Skip, Raises, Answer, WorkTypes
  <2> QED
    BY <2>2, <2>3, <2>4
<1> QED
  BY <1>1, <1>2

\* Where a pool is looked for: a failed look is the last that fails.
LEMMA ExistsGuards ==
  ASSUME LooksSuffice, FullInv, NEW p \in Proxies, NEW fault \in BOOLEAN, CheckExists(p, fault),
         Guarded(p)
  PROVE  Guarded(p)'
<1> USE DEF FullInv, TypeInv
<1>1. todo[p] # <<>> /\ Head(todo[p])[1] = "exists" /\ UNCHANGED pools
  BY DEF CheckExists, At, cluster
<1>2. PICK o \in OpType : o = Op(p)
  BY <1>1, AtOp
<1>3. o.op = "create-pool" /\ Head(todo[p]) = <<"exists">>
  <2>1. Owned(Head(todo[p]), o) /\ Head(todo[p]) \in StepType
    BY <1>1, <1>2, HeadAt
  <2> QED
    BY <1>1, <2>1 DEF Owned, StepType
<1>4. Op(p)' = o
  BY <1>2 DEF CheckExists, IfThere, Skip, GoOn, Op
<1>5. CASE pools[o.pool] # None /\ ~fault
  <2>1. todo'[p] = <<>> \/ todo'[p] = UpdatePool(o)
    BY <1>2, <1>5 DEF CheckExists, IfThere, Skip, WorkTypes
  <2> QED
    BY <1>3, <2>1, UpdateSettles DEF Guarded
<1>6. CASE ~(pools[o.pool] # None /\ ~fault)
  <2>1. todo'[p] = Tail(todo[p])
    BY <1>2, <1>6 DEF CheckExists, IfThere, GoOn, WorkTypes
  <2>2. /\ Fresh(o) => Fresh(o)'
        /\ pools[o.pool] = None => Fresh(o)'
    BY <1>1 DEF Fresh
  <2>3. /\ readFaults = MaxReadFaults => readFaults' = MaxReadFaults
        /\ fault => readFaults # MaxReadFaults /\ readFaults' = MaxReadFaults
    <3>1. /\ fault => readFaults < MaxReadFaults
          /\ readFaults' = IF fault THEN readFaults + 1 ELSE readFaults
      BY DEF CheckExists, ReadFault
    <3>2. readFaults \in 0 .. MaxReadFaults /\ MaxReadFaults \in {0, 1}
      BY DEF Counts, LooksSuffice
    <3> QED
      BY <3>1, <3>2
  <2>4. ~Stops(o, Head(todo[p]))
    BY <1>3 DEF Stops
  <2> QED
    BY <1>1, <1>2, <1>3, <1>4, <1>6, <2>1, <2>2, <2>3, <2>4, TailGuards
<1> QED
  BY <1>5, <1>6

\* No step of a handler comes to such a step otherwise.
LEMMA StepGuards ==
  ASSUME LooksSuffice, FullInv, WorkTypes', NEW p \in Proxies, Guarded(p),
         \/ CheckParams(p) \/ Validate(p) \/ LoadCrushmap(p)
         \/ \E fault \in BOOLEAN : Look(p, fault) \/ Change(p, fault)
  PROVE  Guarded(p)'
<1> USE DEF FullInv, TypeInv
<1>1. todo[p] # <<>> /\ Outcome(p)
  BY CheckOutcome, LookOutcome, ChangeOutcome
<1>2. PICK o \in OpType : o = Op(p)
  BY <1>1, AtOp
<1>3. CASE CheckParams(p) \/ Validate(p) \/ LoadCrushmap(p)
  <2>1. UNCHANGED <<pools, readFaults>> /\ Head(todo[p])[1] # "exists"
    BY <1>3 DEF CheckParams, Validate, LoadCrushmap, At, cluster, counters
  <2>2. Fresh(o) => Fresh(o)'
    BY <2>1 DEF Fresh
  <2>3. todo'[p] # <<>> => ~Stops(o, Head(todo[p]))
    BY <1>2, <1>3 DEF CheckParams, Validate, LoadCrushmap, At, Returns, Raises, Answer, WorkTypes,
                      Stops
  <2> QED
    BY <1>1, <1>2, <2>1, <2>2, <2>3, HandlerGuards
<1>4. ASSUME NEW fault \in BOOLEAN, Look(p, fault), ~CheckExists(p, fault) PROVE Guarded(p)'
  <2>1. UNCHANGED pools
    BY <1>4, LookOutcome DEF cluster
  <2>2. Head(todo[p])[1] \notin {"exists", "params", "validate"} /\ ReadFault(fault)
    BY <1>4 DEF Look, Cap, CheckProfile, ReadProfile, CheckNoProfile, CheckFsPool, CheckNoFs,
                CheckTierPool, Preflight, LookAtMode, CheckNoClient, At
  <2>3. Fresh(o) => Fresh(o)'
    BY <2>1 DEF Fresh
  <2>4. readFaults = MaxReadFaults => readFaults' = MaxReadFaults
    BY <2>2, BrokerRequestsAssumption DEF ReadFault
  <2>5. ~Stops(o, Head(todo[p]))
    BY <2>2 DEF Stops
  <2> QED
    BY <1>1, <1>2, <2>2, <2>3, <2>4, <2>5, HandlerGuards
<1>5. ASSUME NEW fault \in BOOLEAN, Change(p, fault) PROVE Guarded(p)'
  <2>1. Head(todo[p])[1] \notin {"exists", "params", "validate"} /\ Fault(fault)
    BY <1>5 DEF Change, AddToGroup, CreateCommand, SetCommand, DeleteCommand, RenameCommand,
         ProfileCommand, FsNewCommand, FsAddCommand, AdminCommand, SnapshotCommand,
         TierAddCommand, TierSetCommand, FlushCommand, TierRemoveCommand,
         RemoveProfileCommand, AuthorizeCommand, CapsCommand, At
  <2>2. readFaults' = readFaults
    BY <2>1 DEF Fault
  <2>3. o.op = "create-pool" /\ Fresh(o) => Fresh(o)'
    BY <1>2, <1>5, FreshKept
  <2>4. ~Stops(o, Head(todo[p]))
    BY <2>1 DEF Stops
  <2> QED
    BY <1>1, <1>2, <2>1, <2>2, <2>3, <2>4, HandlerGuards
<1> QED
  BY <1>3, <1>4, <1>5, ExistsGuards

\* What one step may do to a setting that was made.
LEMMA ChangeSticks ==
  ASSUME TypeInv, NEW p \in Proxies, Guarded(p), NEW fault \in BOOLEAN, Change(p, fault),
         NEW x \in Pools, NEW c \in CreationSettings,
         pools[x] # None, pools'[x] # None, pools[x][c] # None
  PROVE  pools'[x][c] = pools[x][c]
<1> USE DEF TypeInv
<1> DEFINE st == Head(todo[p])
<1>1. PICK o \in OpType : o = Op(p)
  BY ChangeOutcome, AtOp
<1>2. todo[p] # <<>> /\ st \in StepType /\ Owned(st, o) /\ PoolTypes
  BY <1>1, ChangeOutcome, HeadAt DEF PoolTypes, WorkTypes
<1>3. CASE CreateCommand(p, fault)
  BY <1>2, <1>3 DEF CreateCommand, PoolTypes
<1>4. CASE SetCommand(p, fault)
  <2> DEFINE s == st[2]
  <2>1. s \in Settings /\ o.op \in {"create-pool", "set-pool-value"} /\ o.pool \in Pools
        /\ st[1] = "set"
    BY <1>2, <1>4, OpFields DEF SetCommand, At, StepType, Owned
  <2>2. \/ pools' = pools
        \/ /\ pools[o.pool] # None
           /\ pools' = [pools EXCEPT ![o.pool][s] = ValueOf(o, s)]
    BY <1>1, <1>4 DEF SetCommand
  <2>3. CASE x # o.pool \/ c # s
    BY <1>2, <2>1, <2>2, <2>3 DEF PoolTypes, Properties, Settings
  <2>4. CASE x = o.pool /\ c = s
    <3>1. 1 \in 1 .. Len(todo[p]) /\ Anew(todo[p][1])
      <4>1. todo[p] \in Seq(StepType) /\ st = todo[p][1]
        BY <1>2 DEF WorkTypes
      <4> QED
        BY <1>2, <2>1, <2>4, <4>1 DEF Anew
    <3>2. o.op = "create-pool" /\ Fresh(o)
      BY <1>1, <3>1 DEF Guarded
    <3>3. pools[x][c] = o.want[c] /\ ValueOf(o, s) = o.want[c]
      BY <2>4, <3>2 DEF Fresh, ValueOf
    <3> QED
      BY <1>2, <2>1, <2>2, <2>4, <3>3 DEF PoolTypes, Properties, Settings
  <2> QED
    BY <2>3, <2>4
<1>5. CASE DeleteCommand(p, fault)
  BY <1>2, <1>5 DEF DeleteCommand, PoolTypes
<1>6. CASE RenameCommand(p, fault)
  <2>1. \/ pools'[x] = pools[x]
        \/ pools[o.to] = None /\ (x = o.to \/ pools'[x] = pools[o.to])
    BY <1>1, <1>6 DEF RenameCommand
  <2> QED
    BY <2>1
<1> QED
  BY <1>3, <1>4, <1>5, <1>6
  DEF Change, AddToGroup, ProfileCommand, FsNewCommand, FsAddCommand, AdminCommand,
      SnapshotCommand, TierAddCommand, TierSetCommand, TierRemoveCommand, FlushCommand,
      RemoveProfileCommand, AuthorizeCommand, CapsCommand, tiering, cluster, rest

\* Whoever takes the step.
LEMMA NextSettles ==
  Serial /\ LooksSuffice /\ NoneReset /\ FullInv /\ SettleInv /\ [Next]_vars => SettleInv'
<1> SUFFICES ASSUME Serial, LooksSuffice, NoneReset, FullInv, SettleInv, [Next]_vars
             PROVE  SettleInv'
  OBVIOUS
<1> USE DEF FullInv, TypeInv
<1>1. WorkTypes'
  BY NextTypes
<1>2. UNCHANGED pools => LoneFresh'
  BY DEF SettleInv, LoneFresh, Fresh
<1>3. ASSUME NEW p \in Proxies, Proxy(p) PROVE SettleInv'
  <2>1. Guarded(p)
    BY DEF SettleInv
  <2> SUFFICES LoneFresh' /\ Guarded(p)'
    BY DEF Serial, SettleInv
  <2>2. CASE CheckParams(p) \/ Validate(p) \/ LoadCrushmap(p)
    <3>1. UNCHANGED pools
      BY <2>2, CheckOutcome DEF cluster
    <3> QED
      BY <1>1, <1>2, <2>1, <2>2, <3>1, StepGuards
  <2>3. ASSUME NEW fault \in BOOLEAN, Look(p, fault) PROVE LoneFresh' /\ Guarded(p)'
    <3>1. UNCHANGED pools
      BY <2>3, LookOutcome DEF cluster
    <3> QED
      BY <1>1, <1>2, <2>1, <2>3, <3>1, StepGuards
  <2>4. ASSUME NEW fault \in BOOLEAN, Change(p, fault) PROVE LoneFresh' /\ Guarded(p)'
    <3>1. Guarded(p)'
      BY <1>1, <2>1, <2>4, StepGuards
    <3>2. ASSUME NEW r \in Requests, NEW i \in DOMAIN Ops[r],
                 Ops[r][i].op = "create-pool", Unrivalled(Ops[r][i])
          PROVE  Fresh(Ops[r][i])'
      <4>1. Ops[r][i] \in OpType
        BY BrokerRequestsAssumption
      <4>2. Fresh(Ops[r][i])
        BY <3>2 DEF SettleInv, LoneFresh
      <4> QED
        BY <2>1, <2>4, <3>2, <4>1, <4>2, FreshKept
    <3> QED
      BY <3>1, <3>2 DEF LoneFresh
  <2>5. CASE NextOp(p)
    <3>1. UNCHANGED pools
      BY <2>5, BetweenWork DEF cluster
    <3>2. Guarded(p)'
      BY <2>5, NextOpGuards DEF SettleInv
    <3> QED
      BY <1>2, <3>1, <3>2
  <2>6. CASE (\E r \in Requests : Start(p, r)) \/ Reply(p) \/ Crash(p)
    <3>1. UNCHANGED pools
      BY <2>6, BetweenWork DEF cluster
    <3>2. todo'[p] = <<>>
      BY <2>6 DEF Start, Reply, Crash, Answer, WorkTypes
    <3> QED
      BY <1>2, <3>1, <3>2 DEF Guarded
  <2> QED
    BY <1>3, <2>2, <2>3, <2>4, <2>5, <2>6 DEF Proxy
<1>4. CASE (\E x \in Pools : ClientWrites(x)) \/ UNCHANGED vars
  <2>1. UNCHANGED <<pools, todo, req, pos, readFaults>>
    BY <1>4 DEF ClientWrites, vars, cluster, counters
  <2>2. \A p \in Proxies : Guarded(p)'
    <3> SUFFICES ASSUME NEW p \in Proxies, Guarded(p) PROVE Guarded(p)'
      BY DEF SettleInv
    <3>1. /\ req' = req /\ pos' = pos /\ todo' = todo
          /\ readFaults' = readFaults /\ pools' = pools
      BY <2>1
    <3> QED
      BY <3>1 DEF Guarded, Fresh, Op, Stops, Anew
  <2> QED
    BY <1>2, <2>1, <2>2 DEF SettleInv
<1> QED
  BY <1>3, <1>4 DEF Next

\* What that makes of a step.
LEMMA NextSticks ==
  FullInv /\ SettleInv /\ [Next]_vars =>
    [\A x \in Pools, s \in CreationSettings :
       /\ pools[x] # None /\ pools'[x] # None
       /\ pools[x][s] # None
       => pools'[x][s] = pools[x][s]]_pools
<1> SUFFICES ASSUME FullInv, SettleInv, [Next]_vars, pools' # pools,
                    NEW x \in Pools, NEW s \in CreationSettings,
                    pools[x] # None, pools'[x] # None, pools[x][s] # None
             PROVE  pools'[x][s] = pools[x][s]
  OBVIOUS
<1> USE DEF FullInv, TypeInv
<1>1. PICK p \in Proxies : Proxy(p)
  BY DEF Next, ClientWrites, vars, cluster
<1>2. PICK fault \in BOOLEAN : Change(p, fault)
  BY <1>1, CheckOutcome, LookOutcome, BetweenWork DEF Proxy, cluster
<1> QED
  BY <1>2, ChangeSticks DEF SettleInv

\* Carried out by one proxy, however often and whatever command fails, no request
\* sets a property anew that is settled when a pool is created: a pool that is
\* there is only updated.  One look for it may fail, for the handlers look twice;
\* the action that creates a pool looks once, and its pool must be one that no
\* other request asks for otherwise.  A request that asks for such a change itself
\* (set-pool-value) is left out.
THEOREM SettingsStick ==
  Serial /\ LooksSuffice /\ NoneReset /\ Spec => CreationSettingsStick
<1>1. Init => SettleInv
  <2> SUFFICES ASSUME Init PROVE LoneFresh /\ \A p \in Proxies : Guarded(p)
    BY DEF SettleInv
  <2>1. \A r \in Requests : \A i \in DOMAIN Ops[r] : Ops[r][i] \in OpType
    BY BrokerRequestsAssumption
  <2>2. LoneFresh
    BY <2>1, OpFields DEF Init, LoneFresh, Fresh
  <2> QED
    BY <2>2 DEF Init, Guarded
<1>2. /\ Serial => Serial'
      /\ LooksSuffice => LooksSuffice'
      /\ NoneReset => NoneReset'
  BY DEF Serial, LooksSuffice, NoneReset, Unrivalled
<1> QED
  BY InitFull, NextFull, NextSettles, NextSticks, <1>1, <1>2, PTL DEF Spec, CreationSettingsStick

-----------------------------------------------------------------------------
(* What an answer without an error means.                                  *)

\* Some step of s is z; those before it are of U, those after it of V, and all
\* of X come after it.
Split(s, z, U, V, X) ==
  \E k \in 1 .. Len(s) :
    /\ s[k] = z
    /\ \A j \in 1 .. (k - 1) : s[j] \in U
    /\ \A j \in (k + 1) .. Len(s) : s[j] \in V
    /\ \A x \in X : \E j \in (k + 1) .. Len(s) : s[j] = x

\* The steps s are of V, and all of X are among them.
Covers(s, V, X) ==
  /\ \A j \in 1 .. Len(s) : s[j] \in V
  /\ \A x \in X : Has(s, x)

\* s is still to make a thing by z, with all its parts X, and it is not there
\* or whole; or it is there, and s is yet to add what is missing.
Good(s, there, missing, z, U, V, X) ==
  \/ Split(s, z, U, V, X) /\ (~there \/ missing = {})
  \/ there /\ Covers(s, V, missing)

\* The settings of a pool that PostCreate sets.
Wanted(o) == {<<"set", c>> : c \in {c \in CreationSettings : o.want[c] # None}}
Unset(o) == {st \in Wanted(o) : pools[o.pool] # None /\ pools[o.pool][st[2]] # o.want[st[2]]}
BeforeCreate == {st \in StepType : st[1] \notin {"create", "set"}}
AfterCreate == {st \in StepType : st[1] \in {"set", "validate"}}
Creating(s, o) ==
  Good(s, pools[o.pool] # None, Unset(o), <<"create">>, BeforeCreate, AfterCreate, Wanted(o))

BeforeValidate == {st \in StepType : st[1] \notin {"create", "set", "validate"}}

\* A pool is there with all that is settled when it is created, or not at all,
\* unless p is about to see to it.
PoolState(p, o) ==
  IF o.params = "invalid"
  THEN /\ pools[o.pool] = None
       /\ todo[p] # <<>> /\ Op(p) = o =>
            Split(todo[p], <<"validate">>, BeforeValidate, StepType, {})
  ELSE IF todo[p] # <<>> /\ Op(p) = o THEN Creating(todo[p], o) ELSE Unset(o) = {}

\* So is a file system with its pools.
Members(o) == {<<"fs-add", o.extra[i]>> : i \in DOMAIN o.extra}
Lacking(o) == {st \in Members(o) : filesystems[o.fs] # None /\ st[2] \notin filesystems[o.fs]}
BeforeNew == {st \in StepType : st[1] \notin {"fs-new", "fs-add"}}
AfterNew == {st \in StepType : st[1] = "fs-add"}
Founding(s, o) ==
  Good(s, filesystems[o.fs] # None, Lacking(o), <<"fs-new">>, BeforeNew, AfterNew, Members(o))
FsState(p, o) ==
  IF todo[p] # <<>> /\ Op(p) = o THEN Founding(todo[p], o) ELSE Lacking(o) = {}

\* And a tier with its mode.
Caching == {<<"tier-set", "mode", "writeback">>}
Unmoded(h) == IF tiers[h] # None /\ tiers[h].mode # "writeback" THEN Caching ELSE {}
BeforeAdd == {st \in StepType : st[1] \notin {"tier-add", "tier-set"}}
AfterAdd == {st \in StepType : st[1] = "tier-set"}
Adding(s, h) ==
  Good(s, tiers[h] # None, Unmoded(h), <<"tier-add">>, BeforeAdd, AfterAdd, Caching)
TierLooks == {"tier-pool", "preflight", "tier-mode"}
Removing(s, h) ==
  \/ (\A k \in 1 .. Len(s) : s[k][1] \in TierLooks) /\ Unmoded(h) = {}
  \/ s = RemoveCacheTier("writeback") /\ tiers[h] # None /\ Unmoded(h) = {}
  \/ s = Tail(RemoveCacheTier("writeback")) /\ tiers[h] # None
  \/ s = <<Unhook, <<"tier-remove">>>> /\ tiers[h] # None
  \/ s = <<<<"tier-remove">>>> /\ tiers[h] # None /\ ~tiers[h].overlay
HotState(p, h) ==
  CASE todo[p] # <<>> /\ Op(p).op = "create-cache-tier" /\ Op(p).hot = h -> Adding(todo[p], h)
    [] todo[p] # <<>> /\ Op(p).op = "remove-cache-tier" /\ Op(p).hot = h -> Removing(todo[p], h)
    [] OTHER -> Unmoded(h) = {}

\* The step of a handler that brings its operation about.
Closing(o) ==
  CASE o.op = "create-erasure-profile" -> {<<"set-profile">>}
    [] o.op = "delete-pool" -> {<<"delete">>}
    [] o.op = "rename-pool" -> {<<"rename">>}
    [] o.op = "set-pool-value" -> {<<"set", o.key>>}
    [] o.op = "remove-cache-tier" -> {<<"tier-mode">>, <<"tier-remove">>}
    [] o.op = "create-cephfs-client" -> {<<"authorize">>}
    [] o.op = "set-key-permissions" -> {<<"caps">>}
    [] o.op = "delete-erasure-profile" -> {<<"remove-profile">>}
    [] o.op = "snapshot-pool" -> {<<"snapshot", TRUE>>}
    [] o.op = "remove-pool-snapshot" -> {<<"snapshot", FALSE>>}
    [] OTHER -> StepType

\* What is so of o once its handler has ended well.
Kept(o) ==
  CASE o.op \in {"create-pool", "create-cache-tier"} -> TRUE
    [] o.op = "create-cephfs" -> filesystems[o.fs] # None
    [] OTHER -> Done(o)

EndState(p) ==
  req[p] # None =>
    \A i \in Settled[req[p]] \ failed[p] :
      LET o == Ops[req[p]][i]
      IN /\ i < pos[p] => Kept(o)
         /\ i = pos[p] =>
              IF todo[p] = <<>> THEN Kept(o) ELSE todo[p][Len(todo[p])] \in Closing(o)

AnswerState(p) ==
  answer[p] # None =>
    /\ req[p] = None
    /\ answer[p].ok => \A i \in Acknowledged(p) : Kept(Ops[answer[p].req][i])

\* And what p works at is in one of its states.
Underway(p) ==
  \A r \in Requests : \A i \in Settled[r] :
    LET o == Ops[r][i]
    IN /\ o.op = "create-pool" => PoolState(p, o)
       /\ o.op = "create-cephfs" => FsState(p, o)
       /\ o.op = "remove-cache-tier" => HotState(p, o.hot)

DoneInv == \A p \in Proxies : EndState(p) /\ AnswerState(p) /\ Underway(p)

\* p takes a step of a handler.
Handling(p) ==
  \/ CheckParams(p) \/ Validate(p) \/ LoadCrushmap(p)
  \/ \E fault \in BOOLEAN : Look(p, fault) \/ Change(p, fault)

\* The steps that are commands to the cluster.
Commanding ==
  {"group", "create", "set", "delete", "rename", "set-profile", "fs-new", "fs-add", "admin",
   "snapshot", "tier-add", "tier-set", "flush", "tier-remove", "remove-profile", "authorize",
   "caps"}

\* No command fails, and no unit goes down.
Quiet == MaxFaults = 0 /\ MaxCrashes = 0

\* A step may be taken from the front.
LEMMA SplitTail ==
  ASSUME NEW T, NEW s \in Seq(T), s # <<>>, NEW z, NEW U, NEW V, NEW X, z \notin U,
         Split(s, z, U, V, X)
  PROVE  /\ Head(s) = z => Covers(Tail(s), V, X)
         /\ Head(s) # z => Head(s) \in U /\ Split(Tail(s), z, U, V, X)
<1> DEFINE t == Tail(s)
<1>1. PICK k \in 1 .. Len(s) :
        /\ s[k] = z
        /\ \A j \in 1 .. (k - 1) : s[j] \in U
        /\ \A j \in (k + 1) .. Len(s) : s[j] \in V
        /\ \A x \in X : \E j \in (k + 1) .. Len(s) : s[j] = x
  BY DEF Split
<1>2. /\ Len(s) \in Nat /\ Len(s) > 0 /\ Len(t) = Len(s) - 1 /\ Head(s) = s[1]
      /\ \A j \in 1 .. Len(t) : t[j] = s[j + 1]
  OBVIOUS
<1> HIDE DEF t
<1>3. \A j \in 2 .. Len(s) : j - 1 \in 1 .. Len(t) /\ t[j - 1] = s[j]
  BY <1>2
<1>4. CASE k = 1
  <2>1. \A j \in 1 .. Len(t) : t[j] \in V
    BY <1>1, <1>2, <1>4
  <2>2. \A x \in X : \E j \in 1 .. Len(t) : t[j] = x
    BY <1>1, <1>3, <1>4
  <2> QED
    BY <1>1, <1>2, <1>4, <2>1, <2>2 DEF Covers, Has, t
<1>5. CASE k # 1
  <2>1. Head(s) \in U
    BY <1>1, <1>2, <1>5
  <2>2. k - 1 \in 1 .. Len(t) /\ t[k - 1] = z
    BY <1>1, <1>3, <1>5
  <2>3. \A j \in 1 .. (k - 1 - 1) : t[j] \in U
    <3> SUFFICES ASSUME NEW j \in 1 .. (k - 1 - 1) PROVE t[j] \in U
      OBVIOUS
    <3>1. j \in 1 .. Len(t) /\ j + 1 \in 1 .. (k - 1)
      BY <1>2
    <3> QED
      BY <1>1, <1>2, <3>1
  <2>4. \A j \in (k - 1 + 1) .. Len(t) : t[j] \in V
    <3> SUFFICES ASSUME NEW j \in (k - 1 + 1) .. Len(t) PROVE t[j] \in V
      OBVIOUS
    <3>1. j \in 1 .. Len(t) /\ j + 1 \in (k + 1) .. Len(s)
      BY <1>2
    <3> QED
      BY <1>1, <1>2, <3>1
  <2>5. ASSUME NEW x \in X PROVE \E j \in (k - 1 + 1) .. Len(t) : t[j] = x
    <3>1. PICK j \in (k + 1) .. Len(s) : s[j] = x
      BY <1>1
    <3>2. j - 1 \in (k - 1 + 1) .. Len(t) /\ t[j - 1] = x
      BY <1>2, <1>3, <3>1
    <3> QED
      BY <3>2
  <2>6. Split(t, z, U, V, X)
    BY <2>2, <2>3, <2>4, <2>5 DEF Split
  <2> QED
    BY <2>1, <2>6 DEF t
<1> QED
  BY <1>4, <1>5

LEMMA CoversTail ==
  ASSUME NEW T, NEW s \in Seq(T), s # <<>>, NEW V, NEW X, Covers(s, V, X),
         NEW Y, Y \subseteq X, Head(s) \notin Y
  PROVE  Head(s) \in V /\ Covers(Tail(s), V, Y)
<1> DEFINE t == Tail(s)
<1>1. /\ Len(s) \in Nat /\ Len(s) > 0 /\ Len(t) = Len(s) - 1 /\ Head(s) = s[1]
      /\ \A j \in 1 .. Len(t) : t[j] = s[j + 1]
  OBVIOUS
<1> HIDE DEF t
<1>2. ASSUME NEW x \in Y PROVE \E j \in 1 .. Len(t) : t[j] = x
  <2>1. PICK j \in 1 .. Len(s) : s[j] = x
    BY <1>2 DEF Covers, Has
  <2>2. j # 1
    BY <1>1, <1>2, <2>1
  <2>3. j - 1 \in 1 .. Len(t) /\ t[j - 1] = x
    BY <1>1, <2>1, <2>2
  <2> QED
    BY <2>3
<1>3. \A j \in 1 .. Len(t) : t[j] \in V
  BY <1>1 DEF Covers
<1>4. Head(s) \in V
  BY <1>1 DEF Covers
<1> QED
  BY <1>2, <1>3, <1>4 DEF Covers, Has, t

\* The first step is not the one that makes the thing.  What is there or missing
\* stays so, but for what the step itself adds.
LEMMA GoodTail ==
  ASSUME NEW T, NEW s \in Seq(T), s # <<>>, NEW z, NEW U, NEW V, NEW X, z \notin U,
         NEW there \in BOOLEAN, NEW missing, Good(s, there, missing, z, U, V, X),
         Head(s) # z, NEW left, left \subseteq missing, Head(s) \notin left
  PROVE  Good(Tail(s), there, left, z, U, V, X)
BY SplitTail, CoversTail DEF Good

\* It is: then the rest adds all parts.
LEMMA GoodMade ==
  ASSUME NEW T, NEW s \in Seq(T), s # <<>>, NEW z, NEW U, NEW V, NEW X, z \notin U, z \notin V,
         NEW there \in BOOLEAN, NEW missing, Good(s, there, missing, z, U, V, X),
         Head(s) = z, NEW left, left \subseteq X
  PROVE  /\ ~there \/ missing = {}
         /\ Good(Tail(s), TRUE, left, z, U, V, X)
<1>1. ~Covers(s, V, missing)
  <2>1. 1 \in 1 .. Len(s) /\ s[1] = z
    OBVIOUS
  <2> QED
    BY <2>1 DEF Covers
<1>2. Covers(Tail(s), V, X)
  BY <1>1, SplitTail DEF Good
<1>3. Covers(Tail(s), V, left)
  BY <1>2 DEF Covers
<1> QED
  BY <1>1, <1>3 DEF Good

\* At any step but those that add parts, the thing is not there or whole.
LEMMA GoodSound ==
  ASSUME NEW T, NEW s \in Seq(T), s # <<>>, NEW z, NEW U, NEW V, NEW X,
         NEW there \in BOOLEAN, NEW missing, Good(s, there, missing, z, U, V, X),
         Head(s) \notin V
  PROVE  ~there \/ missing = {}
<1>1. 1 \in 1 .. Len(s) /\ s[1] = Head(s)
  OBVIOUS
<1> QED
  BY <1>1 DEF Good, Covers

\* At a step that only adds parts it is there.
LEMMA GoodThere ==
  ASSUME NEW T, NEW s \in Seq(T), s # <<>>, NEW z, NEW U, NEW V, NEW X, z \notin U,
         NEW there \in BOOLEAN, NEW missing, Good(s, there, missing, z, U, V, X),
         Head(s) \notin U, Head(s) # z
  PROVE  there
BY SplitTail DEF Good

\* In the end it is there, and whole.
LEMMA GoodEnd ==
  ASSUME NEW there \in BOOLEAN, NEW missing, NEW z, NEW U, NEW V, NEW X,
         Good(<<>>, there, missing, z, U, V, X)
  PROVE  there /\ missing = {}
<1>1. Len(<<>>) = 0
  OBVIOUS
<1> QED
  BY <1>1 DEF Good, Split, Covers, Has

\* More steps after those that are there.
LEMMA SplitAppend ==
  ASSUME NEW T, NEW A \in Seq(T), NEW B \in Seq(T), NEW z, NEW U, NEW V, NEW X, NEW Y,
         Split(A, z, U, V, X), \A j \in 1 .. Len(B) : B[j] \in V,
         \A y \in Y : y \in X \/ Has(B, y)
  PROVE  Split(A \o B, z, U, V, Y)
<1> DEFINE w == A \o B
<1>1. /\ Len(w) = Len(A) + Len(B) /\ Len(A) \in Nat /\ Len(B) \in Nat
      /\ \A j \in 1 .. Len(A) : w[j] = A[j]
      /\ \A j \in 1 .. Len(B) : w[Len(A) + j] = B[j]
  OBVIOUS
<1> HIDE DEF w
<1>2. PICK k \in 1 .. Len(A) :
        /\ A[k] = z
        /\ \A j \in 1 .. (k - 1) : A[j] \in U
        /\ \A j \in (k + 1) .. Len(A) : A[j] \in V
        /\ \A x \in X : \E j \in (k + 1) .. Len(A) : A[j] = x
  BY DEF Split
<1>3. k \in 1 .. Len(w) /\ w[k] = z
  BY <1>1, <1>2
<1>4. ASSUME NEW j \in 1 .. (k - 1) PROVE w[j] \in U
  BY <1>1, <1>2
<1>5. ASSUME NEW j \in (k + 1) .. Len(w) PROVE w[j] \in V
  <2>1. CASE j <= Len(A)
    BY <1>1, <1>2, <2>1
  <2>2. CASE j > Len(A)
    <3>1. j - Len(A) \in 1 .. Len(B) /\ Len(A) + (j - Len(A)) = j
      BY <1>1, <2>2
    <3> QED
      BY <1>1, <3>1
  <2> QED
    BY <1>1, <2>1, <2>2
<1>6. ASSUME NEW y \in Y PROVE \E j \in (k + 1) .. Len(w) : w[j] = y
  <2>1. CASE y \in X
    <3>1. PICK j \in (k + 1) .. Len(A) : A[j] = y
      BY <1>2, <2>1
    <3>2. j \in (k + 1) .. Len(w) /\ w[j] = y
      BY <1>1, <3>1
    <3> QED
      BY <3>2
  <2>2. CASE Has(B, y)
    <3>1. PICK j \in 1 .. Len(B) : B[j] = y
      BY <2>2 DEF Has
    <3>2. Len(A) + j \in (k + 1) .. Len(w) /\ w[Len(A) + j] = y
      BY <1>1, <3>1
    <3> QED
      BY <3>2
  <2> QED
    BY <2>1, <2>2
<1>7. Split(w, z, U, V, Y)
  BY <1>3, <1>4, <1>5, <1>6 DEF Split
<1> QED
  BY <1>7 DEF w

LEMMA SplitPrepend ==
  ASSUME NEW T, NEW A \in Seq(T), NEW B \in Seq(T), NEW z, NEW U, NEW V, NEW X,
         Split(B, z, U, V, X), \A j \in 1 .. Len(A) : A[j] \in U
  PROVE  Split(A \o B, z, U, V, X)
<1> DEFINE w == A \o B
<1>1. /\ Len(w) = Len(A) + Len(B) /\ Len(A) \in Nat /\ Len(B) \in Nat
      /\ \A j \in 1 .. Len(A) : w[j] = A[j]
      /\ \A j \in 1 .. Len(B) : w[Len(A) + j] = B[j]
  OBVIOUS
<1> HIDE DEF w
<1>2. PICK k \in 1 .. Len(B) :
        /\ B[k] = z
        /\ \A j \in 1 .. (k - 1) : B[j] \in U
        /\ \A j \in (k + 1) .. Len(B) : B[j] \in V
        /\ \A x \in X : \E j \in (k + 1) .. Len(B) : B[j] = x
  BY DEF Split
<1> DEFINE n == Len(A) + k
<1>3. n \in 1 .. Len(w) /\ w[n] = z
  BY <1>1, <1>2
<1>4. ASSUME NEW j \in 1 .. (n - 1) PROVE w[j] \in U
  <2>1. CASE j <= Len(A)
    BY <1>1, <2>1
  <2>2. CASE j > Len(A)
    <3>1. j - Len(A) \in 1 .. (k - 1) /\ Len(A) + (j - Len(A)) = j
      BY <1>1, <2>2
    <3>2. j - Len(A) \in 1 .. Len(B)
      BY <1>1, <3>1
    <3> QED
      BY <1>1, <1>2, <3>1, <3>2
  <2> QED
    BY <1>1, <2>1, <2>2
<1>5. ASSUME NEW j \in (n + 1) .. Len(w) PROVE w[j] \in V
  <2>1. j - Len(A) \in (k + 1) .. Len(B) /\ Len(A) + (j - Len(A)) = j
    BY <1>1
  <2>2. j - Len(A) \in 1 .. Len(B)
    BY <1>1, <2>1
  <2> QED
    BY <1>1, <1>2, <2>1, <2>2
<1>6. ASSUME NEW x \in X PROVE \E j \in (n + 1) .. Len(w) : w[j] = x
  <2>1. PICK j \in (k + 1) .. Len(B) : B[j] = x
    BY <1>2
  <2>2. j \in 1 .. Len(B)
    BY <1>1, <2>1
  <2>3. Len(A) + j \in (n + 1) .. Len(w) /\ w[Len(A) + j] = x
    BY <1>1, <2>1, <2>2
  <2> QED
    BY <2>3
<1> HIDE DEF n
<1>7. Split(w, z, U, V, X)
  BY <1>3, <1>4, <1>5, <1>6 DEF Split
<1> QED
  BY <1>7 DEF w

\* The steps of a sequence are in the set it is over.
LEMMA Elements ==
  ASSUME NEW S, NEW A \in Seq(S)
  PROVE  \A j \in 1 .. Len(A) : A[j] \in S
OBVIOUS

\* The settings of creation that a pool may be asked for come after "create".
LEMMA PostSets ==
  ASSUME NEW o \in OpType, o.op = "create-pool",
         o.want[IF o.kind = "erasure" THEN "size" ELSE "overwrites"] = None,
         NEW st \in Wanted(o)
  PROVE  Has(PostCreate(o), st)
<1> DEFINE S == Ungrouped(o)
           a == Want(o, "ratio")
           b == Want(o, "app")
           c == Want(o, "autoscale")
           d == Want(o, "overwrites")
           n == Want(o, "size")
<1>1. a \in Seq(S) /\ b \in Seq(S) /\ c \in Seq(S) /\ d \in Seq(S) /\ n \in Seq(S)
  BY WantStep DEF Settings, CreationSettings
<1>2. PICK s \in CreationSettings : st = <<"set", s>> /\ o.want[s] # None
  BY DEF Wanted
<1>3. Has(Want(o, s), st)
  BY <1>2 DEF Want, When, Has
<1>4. \/ s = "ratio" /\ Has(a, st)
      \/ s = "app" /\ Has(b, st)
      \/ s = "autoscale" /\ Has(c, st)
      \/ s = "overwrites" /\ o.kind = "erasure" /\ Has(d, st)
      \/ s = "size" /\ o.kind # "erasure" /\ Has(n, st)
  BY <1>2, <1>3 DEF CreationSettings
<1> HIDE DEF S, a, b, c, d, n
<1>5. a \o b \in Seq(S)
  BY <1>1
<1>6. (a \o b) \o c \in Seq(S)
  BY <1>1, <1>5
<1>7. Has(a, st) \/ Has(b, st) => Has(a \o b, st)
  BY <1>1, HasJoined
<1>8. Has(a \o b, st) \/ Has(c, st) => Has((a \o b) \o c, st)
  BY <1>1, <1>5, HasJoined
<1> DEFINE base == (a \o b) \o c
<1>9. base = BasePostCreate(o)
  BY DEF BasePostCreate, a, b, c
<1>10. base \in Seq(S)
  BY <1>6
<1>11. Has(a, st) \/ Has(b, st) \/ Has(c, st) => Has(base, st)
  BY <1>7, <1>8
<1> HIDE DEF base
<1>12. CASE o.kind = "erasure"
  <2>1. Has(base \o d, st)
    BY <1>1, <1>4, <1>10, <1>11, <1>12, HasJoined
  <2> QED
    BY <1>9, <1>12, <2>1 DEF PostCreate, d
<1>13. CASE o.kind # "erasure"
  <2>1. Has(n \o base, st)
    BY <1>1, <1>4, <1>10, <1>11, <1>13, HasJoined
  <2> QED
    BY <1>9, <1>13, <2>1 DEF PostCreate, n
<1> QED
  BY <1>12, <1>13

\* What sets a pool up, and what updates it, sets something or validates.
LEMMA SetSteps ==
  ASSUME NEW o \in OpType, o.op = "create-pool"
  PROVE  PostCreate(o) \in Seq(AfterCreate) /\ UpdatePool(o) \in Seq(AfterCreate)
<1>1. \A s \in Settings : Want(o, s) \in Seq(AfterCreate)
  <2> SUFFICES ASSUME NEW s \in Settings PROVE Want(o, s) \in Seq(AfterCreate)
    OBVIOUS
  <2>1. <<"set", s>> \in AfterCreate
    BY DEF AfterCreate, StepType
  <2> QED
    BY <2>1, Optional DEF Want
<1>2. <<"validate">> \in AfterCreate
  BY DEF AfterCreate, StepType
<1>3. /\ Want(o, "quota") \in Seq(AfterCreate) /\ Want(o, "compression") \in Seq(AfterCreate)
      /\ Want(o, "ratio") \in Seq(AfterCreate) /\ Want(o, "app") \in Seq(AfterCreate)
      /\ Want(o, "autoscale") \in Seq(AfterCreate) /\ Want(o, "overwrites") \in Seq(AfterCreate)
      /\ Want(o, "size") \in Seq(AfterCreate)
  BY <1>1 DEF Settings, MutableSettings, CreationSettings
<1>4. BasePostCreate(o) \in Seq(AfterCreate)
  BY <1>3 DEF BasePostCreate
<1>5. PostCreate(o) \in Seq(AfterCreate)
  BY <1>3, <1>4 DEF PostCreate
<1>6. UpdatePool(o) \in Seq(AfterCreate)
  BY <1>2, <1>3 DEF UpdatePool
<1> QED
  BY <1>5, <1>6

\* A handler creates a pool once, sets it up after that, and validates it before.
LEMMA PlanCreates ==
  ASSUME NEW o \in OpType, o.op = "create-pool",
         o.want[IF o.kind = "erasure" THEN "size" ELSE "overwrites"] = None,
         NEW s \in {Plan(o), ActionPlan(o)}
  PROVE  /\ Split(s, <<"create">>, BeforeCreate, AfterCreate, Wanted(o))
         /\ Split(s, <<"validate">>, BeforeValidate, StepType, {})
<1> DEFINE T == StepType
           U == BeforeCreate
           W == BeforeValidate
           V == AfterCreate
           X == Wanted(o)
           z == <<"create">>
           y == <<"validate">>
           v == <<<<"validate">>>>
           f == When(o.kind = "erasure", <<"read-profile">>)
           c == <<<<"create">>>>
           d == PostCreate(o)
           u == UpdatePool(o)
           e == <<<<"exists">>>>
           P == (When(o.kind = "replicated" /\ o.pg, <<"cap">>) \o When(o.group, <<"group">>))
                  \o When(o.kind = "erasure", <<"profile">>)
           B == <<<<"params">>, <<"exists">>, <<"exists">>>>
<1>1. /\ W \subseteq U /\ U \subseteq T /\ V \subseteq T /\ W \subseteq T
      /\ <<"cap">> \in W /\ <<"group">> \in W /\ <<"profile">> \in W /\ <<"params">> \in W
      /\ <<"exists">> \in W /\ <<"read-profile">> \in W /\ y \in U /\ z \in T /\ y \in T
  BY DEF BeforeCreate, AfterCreate, BeforeValidate, StepType
<1>2. d \in Seq(V) /\ u \in Seq(V)
  BY SetSteps
<1>3. \A x \in X : Has(d, x)
  BY PostSets
<1>4. f \in Seq(W)
  <2> HIDE DEF W
  <2> QED
    BY <1>1 DEF When
<1>5. P \in Seq(W)
  <2> HIDE DEF W
  <2>1. /\ When(o.kind = "replicated" /\ o.pg, <<"cap">>) \in Seq(W)
        /\ When(o.group, <<"group">>) \in Seq(W)
        /\ When(o.kind = "erasure", <<"profile">>) \in Seq(W)
    BY <1>1 DEF When
  <2> QED
    BY <2>1
<1>6. B \in Seq(W) /\ e \in Seq(W)
  <2> HIDE DEF W
  <2> QED
    BY <1>1
<1>7. v \in Seq(U) /\ v \in Seq(T) /\ c \in Seq(T)
  <2> HIDE DEF U, T
  <2> QED
    BY <1>1
<1>8. /\ CreatePool(o) = (((v \o f) \o c) \o d) \o u
      /\ CreatePoolPlan(o) = ((P \o B) \o CreatePool(o)) \o u
      /\ ActionPlan(o) = e \o CreatePool(o)
      /\ Plan(o) = CreatePoolPlan(o)
  BY DEF CreatePool, CreatePoolPlan, Plan, ActionPlan
<1>9. /\ f \in Seq(T) /\ P \in Seq(T) /\ B \in Seq(T) /\ e \in Seq(T) /\ d \in Seq(T) /\ u \in Seq(T)
      /\ f \in Seq(U) /\ P \in Seq(U) /\ B \in Seq(U) /\ e \in Seq(U)
  <2> HIDE DEF T, U, V, W, f, P, B, e, d, u
  <2> QED
    BY <1>1, <1>2, <1>4, <1>5, <1>6
<1>10. Split(c, z, U, V, {}) /\ Split(v, y, W, T, {})
  BY DEF Split
<1> HIDE DEF T, U, V, W, X, z, y, v, f, c, d, u, e, P, B
<1>11. v \o f \in Seq(T) /\ v \o f \in Seq(U) /\ P \o B \in Seq(T) /\ P \o B \in Seq(U)
       /\ P \o B \in Seq(W)
  BY <1>5, <1>6, <1>7, <1>9
<1>12. (v \o f) \o c \in Seq(T)
  BY <1>7, <1>11
<1>13. ((v \o f) \o c) \o d \in Seq(T)
  BY <1>9, <1>12
<1>14. (((v \o f) \o c) \o d) \o u \in Seq(T)
  BY <1>9, <1>13
<1>15. CreatePool(o) \in Seq(T)
  BY <1>8, <1>14
<1>16. (P \o B) \o CreatePool(o) \in Seq(T)
  BY <1>11, <1>15
<1>17. /\ \A j \in 1 .. Len(v \o f) : (v \o f)[j] \in U
       /\ \A j \in 1 .. Len(P \o B) : (P \o B)[j] \in U /\ (P \o B)[j] \in W
       /\ \A j \in 1 .. Len(e) : e[j] \in U /\ e[j] \in W
       /\ \A j \in 1 .. Len(d) : d[j] \in V /\ d[j] \in T
       /\ \A j \in 1 .. Len(u) : u[j] \in V /\ u[j] \in T
       /\ \A j \in 1 .. Len(f) : f[j] \in T
       /\ \A j \in 1 .. Len(c) : c[j] \in T
  BY <1>2, <1>6, <1>7, <1>9, <1>11, Elements
<1>18. Split(CreatePool(o), z, U, V, X)
  <2>1. Split((v \o f) \o c, z, U, V, {})
    BY <1>7, <1>10, <1>11, <1>17, SplitPrepend
  <2>2. Split(((v \o f) \o c) \o d, z, U, V, X)
    BY <1>3, <1>9, <1>12, <1>17, <2>1, SplitAppend
  <2>3. Split((((v \o f) \o c) \o d) \o u, z, U, V, X)
    BY <1>9, <1>13, <1>17, <2>2, SplitAppend
  <2> QED
    BY <1>8, <2>3
<1>19. Split(CreatePool(o), y, W, T, {})
  <2>1. Split(v \o f, y, W, T, {})
    BY <1>7, <1>9, <1>10, <1>17, SplitAppend
  <2>2. Split((v \o f) \o c, y, W, T, {})
    BY <1>7, <1>11, <1>17, <2>1, SplitAppend
  <2>3. Split(((v \o f) \o c) \o d, y, W, T, {})
    BY <1>9, <1>12, <1>17, <2>2, SplitAppend
  <2>4. Split((((v \o f) \o c) \o d) \o u, y, W, T, {})
    BY <1>9, <1>13, <1>17, <2>3, SplitAppend
  <2> QED
    BY <1>8, <2>4
<1>20. Split(ActionPlan(o), z, U, V, X) /\ Split(ActionPlan(o), y, W, T, {})
  BY <1>8, <1>9, <1>15, <1>17, <1>18, <1>19, SplitPrepend
<1>21. Split(Plan(o), z, U, V, X) /\ Split(Plan(o), y, W, T, {})
  <2>1. /\ Split((P \o B) \o CreatePool(o), z, U, V, X)
        /\ Split((P \o B) \o CreatePool(o), y, W, T, {})
    BY <1>11, <1>15, <1>17, <1>18, <1>19, SplitPrepend
  <2>2. /\ Split(((P \o B) \o CreatePool(o)) \o u, z, U, V, X)
        /\ Split(((P \o B) \o CreatePool(o)) \o u, y, W, T, {})
    BY <1>9, <1>16, <1>17, <2>1, SplitAppend
  <2> QED
    BY <1>8, <2>2
<1> QED
  BY <1>20, <1>21 DEF T, U, V, W, X, z, y

\* A file system is made once, and its pools are added after that.
LEMMA PlanFounds ==
  ASSUME NEW o \in OpType, o.op = "create-cephfs", NEW s \in {Plan(o), ActionPlan(o)}
  PROVE  Split(s, <<"fs-new">>, BeforeNew, AfterNew, Members(o))
<1> DEFINE T == StepType
           U == BeforeNew
           V == AfterNew
           X == Members(o)
           z == <<"fs-new">>
           a == <<<<"params">>>>
           b == Each("needs", o.first \o o.extra)
           c == <<<<"no-fs">>, <<"fs-new">>>>
           d == Each("fs-add", o.extra)
<1>1. o.first \in Seq(Pools) /\ o.extra \in Seq(Pools)
  BY OpFields
<1>2. /\ \A x \in Pools : <<"needs", x>> \in U
      /\ \A x \in Pools : <<"fs-add", x>> \in V
      /\ <<"params">> \in U /\ <<"no-fs">> \in U /\ z \in T /\ U \subseteq T /\ V \subseteq T
  BY DEF BeforeNew, AfterNew, StepType
<1>3. s = ((a \o b) \o c) \o d
  BY DEF Plan, ActionPlan, CreateCephfsPlan
<1>4. \A x \in X : Has(d, x)
  <2> SUFFICES ASSUME NEW i \in DOMAIN o.extra PROVE Has(d, <<"fs-add", o.extra[i]>>)
    BY DEF Members
  <2>1. i \in 1 .. Len(d) /\ d[i] = <<"fs-add", o.extra[i]>>
    BY <1>1 DEF Each
  <2> QED
    BY <2>1 DEF Has
<1>5. b \in Seq(U) /\ d \in Seq(V)
  <2>1. o.first \o o.extra \in Seq(Pools)
    BY <1>1
  <2> HIDE DEF U, V
  <2> QED
    BY <1>1, <1>2, <2>1, EachStep
<1>6. Split(c, z, U, V, {})
  <2>1. Len(c) = 2 /\ c[1] = <<"no-fs">> /\ c[2] = z
    OBVIOUS
  <2> HIDE DEF c, U
  <2> QED
    BY <1>2, <2>1 DEF Split
<1>7. a \in Seq(U) /\ c \in Seq(T)
  <2> HIDE DEF U, T
  <2>1. <<"no-fs">> \in T
    BY <1>2
  <2> QED
    BY <1>2, <2>1
<1> HIDE DEF T, U, V, X, z, a, b, c, d
<1>8. /\ a \o b \in Seq(U) /\ d \in Seq(T)
      /\ a \o b \in Seq(T)
  BY <1>2, <1>5, <1>7
<1>9. (a \o b) \o c \in Seq(T)
  BY <1>7, <1>8
<1>10. Split((a \o b) \o c, z, U, V, {})
  BY <1>6, <1>7, <1>8, Elements, SplitPrepend
<1>11. Split(((a \o b) \o c) \o d, z, U, V, X)
  BY <1>4, <1>5, <1>8, <1>9, <1>10, Elements, SplitAppend
<1> QED
  BY <1>3, <1>11 DEF U, V, X, z

\* A tier is added once, and put into its mode after that.
LEMMA PlanAdds ==
  ASSUME NEW o \in OpType, o.op = "create-cache-tier", o.mode = "writeback",
         NEW s \in {Plan(o), ActionPlan(o)}
  PROVE  Split(s, <<"tier-add">>, BeforeAdd, AfterAdd, Caching)
<1> DEFINE T == StepType
           U == BeforeAdd
           V == AfterAdd
           z == <<"tier-add">>
           c == AddCacheTier(o)
<1>1. o.cold \in Pools /\ o.hot \in Pools
  BY OpFields
<1>2. PICK step \in {"tier-pool", "preflight"} : s = TierPools(step, o) \o c
  BY DEF Plan, ActionPlan
<1> DEFINE a == TierPools(step, o)
<1>3. a \in Seq(U)
  <2>1. \A x \in Pools : <<step, x>> \in U
    BY DEF BeforeAdd, StepType
  <2>2. <<o.cold, o.hot>> \in Seq(Pools)
    BY <1>1
  <2> HIDE DEF U
  <2> QED
    BY <2>1, <2>2, EachStep DEF TierPools
<1>4. c \in Seq(T)
  <2>1. c \in Seq(StepsOf(o)) /\ StepsOf(o) \subseteq T
    BY TierSteps DEF StepsOf
  <2> HIDE DEF c, T
  <2> QED
    BY <2>1
<1>5. Split(c, z, U, V, Caching)
  <2>1. /\ Len(c) = 5 /\ c[1] = <<"validate">> /\ c[2] = z
        /\ c[3] = <<"tier-set", "mode", "writeback">> /\ c[4] = <<"tier-set", "overlay", TRUE>>
        /\ c[5] = <<"tier-set", "bloom", TRUE>>
    BY DEF AddCacheTier
  <2>2. /\ <<"validate">> \in U /\ <<"tier-set", "mode", "writeback">> \in V
        /\ <<"tier-set", "overlay", TRUE>> \in V /\ <<"tier-set", "bloom", TRUE>> \in V
    BY DEF BeforeAdd, AfterAdd, StepType, CacheModes
  <2> HIDE DEF c, U, V, z
  <2>3. \A j \in 1 .. (2 - 1) : c[j] \in U
    BY <2>1, <2>2
  <2>4. ASSUME NEW j \in (2 + 1) .. Len(c) PROVE c[j] \in V
    <3>1. j = 3 \/ j = 4 \/ j = 5
      BY <2>1
    <3> QED
      BY <2>1, <2>2, <3>1
  <2>5. \A x \in Caching : \E j \in (2 + 1) .. Len(c) : c[j] = x
    BY <2>1 DEF Caching
  <2> QED
    BY <2>1, <2>3, <2>4, <2>5 DEF Split
<1>6. U \subseteq T
  BY DEF BeforeAdd
<1> HIDE DEF T, U, V, z, c, a
<1>7. a \in Seq(T)
  BY <1>3, <1>6
<1>8. Split(a \o c, z, U, V, Caching)
  BY <1>3, <1>4, <1>5, <1>7, Elements, SplitPrepend
<1> QED
  BY <1>2, <1>8 DEF U, V, z, a, c

-----------------------------------------------------------------------------
\* Nobody but the operation itself is about what it creates, and nothing later
\* is about what any settled operation is about.
LEMMA Sole ==
  ASSUME TypeInv, NEW p \in Proxies, todo[p] # <<>>, NEW r \in Requests, NEW i \in Settled[r],
         NEW o, o = Ops[r][i], o.op \in {"create-pool", "create-cephfs"},
         NEW x \in Touches(Op(p)), x \in Touches(o)
  PROVE  Op(p) = o
<1>1. req[p] \in Requests /\ pos[p] \in DOMAIN Ops[req[p]]
  BY AtOp DEF TypeInv
<1>2. Settles(r, i) /\ i \in DOMAIN Ops[r]
  BY DEF Settled
<1>3. Op(p) = Ops[req[p]][pos[p]]
  BY DEF Op
<1>4. Touches(Ops[req[p]][pos[p]]) \intersect Touches(Ops[r][i]) # {}
  BY <1>3
<1>5. req[p] = r /\ pos[p] = i
  BY <1>1, <1>2, <1>4 DEF Settles
<1> QED
  BY <1>3, <1>5

LEMMA Later ==
  ASSUME TypeInv, NEW p \in Proxies, todo[p] # <<>>, NEW i \in Settled[req[p]], i < pos[p],
         NEW o, o = Ops[req[p]][i]
  PROVE  Touches(Op(p)) \intersect Touches(o) = {}
<1>1. req[p] \in Requests /\ pos[p] \in DOMAIN Ops[req[p]]
  BY AtOp DEF TypeInv
<1>2. Ops[req[p]] \in Seq(OpType)
  BY <1>1, BrokerRequestsAssumption
<1>3. Settles(req[p], i) /\ i \in DOMAIN Ops[req[p]] /\ i \in Nat /\ pos[p] \in Nat
  BY <1>1, <1>2 DEF Settled
<1> QED
  BY <1>1, <1>3 DEF Settles, Op

LEMMA SettledOp ==
  ASSUME NEW r \in Requests, NEW i \in Settled[r]
  PROVE  Ops[r][i] \in OpType /\ i \in DOMAIN Ops[r] /\ i \in Nat /\ i >= 1
<1>1. Ops[r] \in Seq(OpType)
  BY BrokerRequestsAssumption
<1> QED
  BY <1>1 DEF Settled

\* The step a handler is at tells its command.
LEMMA Carries ==
  ASSUME NEW p, NEW fault, Change(p, fault)
  PROVE  LET step == Head(todo[p])[1]
         IN \/ step = "group" /\ AddToGroup(p, fault)
            \/ step = "create" /\ CreateCommand(p, fault)
            \/ step = "set" /\ SetCommand(p, fault)
            \/ step = "delete" /\ DeleteCommand(p, fault)
            \/ step = "rename" /\ RenameCommand(p, fault)
            \/ step = "set-profile" /\ ProfileCommand(p, fault)
            \/ step = "fs-new" /\ FsNewCommand(p, fault)
            \/ step = "fs-add" /\ FsAddCommand(p, fault)
            \/ step = "admin" /\ AdminCommand(p, fault)
            \/ step = "snapshot" /\ SnapshotCommand(p, fault)
            \/ step = "tier-add" /\ TierAddCommand(p, fault)
            \/ step = "tier-set" /\ TierSetCommand(p, fault)
            \/ step = "flush" /\ FlushCommand(p, fault)
            \/ step = "tier-remove" /\ TierRemoveCommand(p, fault)
            \/ step = "remove-profile" /\ RemoveProfileCommand(p, fault)
            \/ step = "authorize" /\ AuthorizeCommand(p, fault)
            \/ step = "caps" /\ CapsCommand(p, fault)
<1>1. /\ AddToGroup(p, fault) => Head(todo[p])[1] = "group"
      /\ CreateCommand(p, fault) => Head(todo[p])[1] = "create"
      /\ SetCommand(p, fault) => Head(todo[p])[1] = "set"
      /\ DeleteCommand(p, fault) => Head(todo[p])[1] = "delete"
      /\ RenameCommand(p, fault) => Head(todo[p])[1] = "rename"
      /\ ProfileCommand(p, fault) => Head(todo[p])[1] = "set-profile"
      /\ FsNewCommand(p, fault) => Head(todo[p])[1] = "fs-new"
      /\ FsAddCommand(p, fault) => Head(todo[p])[1] = "fs-add"
      /\ AdminCommand(p, fault) => Head(todo[p])[1] = "admin"
      /\ SnapshotCommand(p, fault) => Head(todo[p])[1] = "snapshot"
      /\ TierAddCommand(p, fault) => Head(todo[p])[1] = "tier-add"
      /\ TierSetCommand(p, fault) => Head(todo[p])[1] = "tier-set"
      /\ FlushCommand(p, fault) => Head(todo[p])[1] = "flush"
      /\ TierRemoveCommand(p, fault) => Head(todo[p])[1] = "tier-remove"
      /\ RemoveProfileCommand(p, fault) => Head(todo[p])[1] = "remove-profile"
      /\ AuthorizeCommand(p, fault) => Head(todo[p])[1] = "authorize"
      /\ CapsCommand(p, fault) => Head(todo[p])[1] = "caps"
  BY DEF At, AddToGroup, CreateCommand, SetCommand, DeleteCommand, RenameCommand, ProfileCommand, FsNewCommand, FsAddCommand, AdminCommand, SnapshotCommand, TierAddCommand, TierSetCommand, FlushCommand, TierRemoveCommand, RemoveProfileCommand, AuthorizeCommand, CapsCommand
<1> QED
  BY <1>1 DEF Change

\* A command leaves the pools alone that its operation is not about.
LEMMA PoolFrame ==
  ASSUME TypeInv, RestTypes, NEW p \in Proxies, NEW fault \in BOOLEAN, Change(p, fault),
         NEW x \in Pools, x \notin Touches(Op(p))
  PROVE  pools'[x] = pools[x] /\ (x \in snaps' <=> x \in snaps)
<1> USE DEF TypeInv
<1> DEFINE o == Op(p)
<1>1. todo[p] # <<>>
  BY ChangeOutcome
<1>2. o \in OpType /\ Owned(Head(todo[p]), o)
  BY <1>1, HeadAt
<1>3. PoolTypes
  BY DEF WorkTypes, PoolTypes
<1>4. CASE Head(todo[p])[1] \in {"create", "set", "delete", "snapshot"}
  <2>1. o.op \in {"create-pool", "set-pool-value", "delete-pool", "snapshot-pool",
                  "remove-pool-snapshot"}
    BY <1>2, <1>4 DEF Owned
  <2>2. o.pool # x
    BY <2>1 DEF Touches
  <2>3. CASE Head(todo[p])[1] = "create"
    <3>1. CreateCommand(p, fault)
      BY <2>3, Carries
    <3> QED
      BY <1>3, <2>2, <3>1 DEF CreateCommand, PoolTypes, tiering
  <2>4. CASE Head(todo[p])[1] = "set"
    <3>1. SetCommand(p, fault)
      BY <2>4, Carries
    <3> QED
      BY <1>3, <2>2, <3>1 DEF SetCommand, PoolTypes, tiering
  <2>5. CASE Head(todo[p])[1] = "delete"
    <3>1. DeleteCommand(p, fault)
      BY <2>5, Carries
    <3> QED
      BY <1>3, <2>2, <3>1 DEF DeleteCommand, PoolTypes, tiering
  <2>6. CASE Head(todo[p])[1] = "snapshot"
    <3>1. SnapshotCommand(p, fault)
      BY <2>6, Carries
    <3>2. pools' = pools
      BY <3>1 DEF SnapshotCommand
    <3>3. snaps' \in {snaps, snaps \union {o.pool}, snaps \ {o.pool}}
      BY <3>1 DEF SnapshotCommand
    <3> QED
      BY <2>2, <3>2, <3>3
  <2> QED
    BY <1>4, <2>3, <2>4, <2>5, <2>6
<1>5. CASE Head(todo[p])[1] = "rename"
  <2>1. RenameCommand(p, fault)
    BY <1>5, Carries
  <2>2. o.op = "rename-pool"
    BY <1>2, <1>5 DEF Owned
  <2>3. o.pool # x /\ o.to # x /\ o.pool \in Pools /\ o.to \in Pools
    BY <1>2, <2>2, OpFields DEF Touches
  <2> DEFINE swap == Swap(o, ~fault /\ pools[o.pool] # None /\ pools[o.to] = None)
  <2>4. pools' = [y \in Pools |-> pools[swap[y]]] /\ snaps' = {swap[y] : y \in snaps}
    BY <2>1 DEF RenameCommand, Swap
  <2>5. swap[x] = x /\ \A y : y \in Pools /\ swap[y] = x => y = x
    BY <2>3 DEF Swap
  <2>6. pools'[x] = pools[x]
    <3> HIDE DEF swap
    <3> QED
      BY <2>4, <2>5
  <2>7. snaps \subseteq Pools
    BY DEF RestTypes
  <2> QED
    BY <2>4, <2>5, <2>6, <2>7
<1>6. CASE Head(todo[p])[1] \notin {"create", "set", "delete", "snapshot", "rename"}
  <2>1. UNCHANGED <<pools, snaps>>
    BY <1>6, Carries DEF AddToGroup, ProfileCommand, FsNewCommand, FsAddCommand, AdminCommand,
      TierAddCommand, TierSetCommand, FlushCommand, TierRemoveCommand,
      RemoveProfileCommand, AuthorizeCommand, CapsCommand, cluster, tiering
  <2> QED
    BY <2>1
<1> QED
  BY <1>4, <1>5, <1>6

\* Where a rename takes pools that it is not about.
LEMMA SwapOther ==
  ASSUME NEW o, NEW moves, NEW x \in Pools, x # o.pool, x # o.to
  PROVE  Swap(o, moves)[x] = x
BY DEF Swap

\* And the tiers.
LEMMA TierFrame ==
  ASSUME TypeInv, NEW p \in Proxies, NEW fault \in BOOLEAN, Change(p, fault), NEW h \in Pools,
         Op(p).op \in {"create-cache-tier", "remove-cache-tier"} => Op(p).hot # h,
         Op(p).op = "rename-pool" => h \notin {Op(p).pool, Op(p).to}
  PROVE  /\ tiers'[h] = None <=> tiers[h] = None
         /\ tiers[h] # None => tiers'[h].mode = tiers[h].mode
<1> USE DEF TypeInv
<1> DEFINE o == Op(p)
<1>1. todo[p] # <<>>
  BY ChangeOutcome
<1>2. o \in OpType /\ Owned(Head(todo[p]), o)
  BY <1>1, HeadAt
<1>3. PoolTypes
  BY DEF WorkTypes, PoolTypes
<1>4. CASE Head(todo[p])[1] \in {"tier-add", "tier-set", "tier-remove"}
  <2>1. o.op \in {"create-cache-tier", "remove-cache-tier"}
    BY <1>2, <1>4 DEF Owned
  <2>2. o.hot # h
    BY <2>1
  <2>3. CASE Head(todo[p])[1] = "tier-add"
    <3>1. TierAddCommand(p, fault)
      BY <2>3, Carries
    <3>2. tiers'[h] = tiers[h]
      BY <1>3, <2>2, <3>1 DEF TierAddCommand, PoolTypes
    <3> QED
      BY <3>2
  <2>4. CASE Head(todo[p])[1] = "tier-set"
    <3>1. TierSetCommand(p, fault)
      BY <2>4, Carries
    <3>2. tiers'[h] = tiers[h]
      BY <1>3, <2>2, <3>1 DEF TierSetCommand, PoolTypes
    <3> QED
      BY <3>2
  <2>5. CASE Head(todo[p])[1] = "tier-remove"
    <3>1. TierRemoveCommand(p, fault)
      BY <2>5, Carries
    <3>2. tiers'[h] = tiers[h]
      BY <1>3, <2>2, <3>1 DEF TierRemoveCommand, PoolTypes
    <3> QED
      BY <3>2
  <2> QED
    BY <1>4, <2>3, <2>4, <2>5
<1>5. CASE Head(todo[p])[1] = "rename"
  <2>1. RenameCommand(p, fault)
    BY <1>5, Carries
  <2>2. o.op = "rename-pool"
    BY <1>2, <1>5 DEF Owned
  <2>3. o.pool # h /\ o.to # h
    BY <2>2
  <2> DEFINE moves == ~fault /\ pools[o.pool] # None /\ pools[o.to] = None
             swap == Swap(o, moves)
  <2>4. tiers' = [x \in Pools |->
                    IF tiers[swap[x]] = None THEN None
                    ELSE [tiers[swap[x]] EXCEPT !.cold = swap[@]]]
    BY <2>1 DEF RenameCommand, Swap
  <2>5. swap[h] = h
    BY <2>3, SwapOther
  <2> HIDE DEF swap
  <2>6. tiers'[h] = IF tiers[h] = None THEN None ELSE [tiers[h] EXCEPT !.cold = swap[@]]
    BY <2>4, <2>5
  <2>7. ASSUME tiers[h] # None
        PROVE  tiers'[h] # None /\ tiers'[h].mode = tiers[h].mode
    <3>1. tiers[h] \in Tier
      BY <1>3, <2>7 DEF PoolTypes
    <3>2. [tiers[h] EXCEPT !.cold = swap[@]].mode = tiers[h].mode
      BY <3>1 DEF Tier
    <3>3. tiers'[h] # None
      <4>1. tiers'[h] = [tiers[h] EXCEPT !.cold = swap[@]]
        BY <2>6, <2>7
      <4>2. swap \in [Pools -> Pools]
        BY <1>2, <2>2, OpFields DEF Swap, swap
      <4>3. tiers'[h] \in Tier
        BY <3>1, <4>1, <4>2 DEF Tier
      <4> QED
        BY <4>3, BrokerRequestsAssumption
    <3> QED
      BY <2>6, <2>7, <3>2, <3>3
  <2> QED
    BY <2>6, <2>7
<1>6. CASE Head(todo[p])[1] \notin {"tier-add", "tier-set", "tier-remove", "rename"}
  <2>1. UNCHANGED tiers
    BY <1>6, Carries DEF AddToGroup, CreateCommand, SetCommand, DeleteCommand, ProfileCommand,
      FsNewCommand, FsAddCommand, AdminCommand, SnapshotCommand, FlushCommand,
      RemoveProfileCommand, AuthorizeCommand, CapsCommand, cluster, tiering
  <2> QED
    BY <2>1
<1> QED
  BY <1>4, <1>5, <1>6

\* And the file systems, but that a pool in one may change its name.
LEMMA FsFrame ==
  ASSUME TypeInv, RestTypes, NEW p \in Proxies, NEW fault \in BOOLEAN, Change(p, fault),
         NEW f \in FileSystems, Op(p).op = "create-cephfs" => Op(p).fs # f
  PROVE  /\ filesystems'[f] = None <=> filesystems[f] = None
         /\ filesystems[f] # None =>
              \A x \in filesystems[f] :
                (Op(p).op = "rename-pool" => x \notin {Op(p).pool, Op(p).to}) =>
                  x \in filesystems'[f]
<1> USE DEF TypeInv
<1> DEFINE o == Op(p)
<1>1. todo[p] # <<>>
  BY ChangeOutcome
<1>2. o \in OpType /\ Owned(Head(todo[p]), o)
  BY <1>1, HeadAt
<1>3. filesystems \in [FileSystems -> (SUBSET Pools) \union {None}]
  BY DEF RestTypes
<1>4. CASE Head(todo[p])[1] \in {"fs-new", "fs-add"}
  <2>1. o.op = "create-cephfs"
    BY <1>2, <1>4 DEF Owned
  <2>2. o.fs # f
    BY <2>1
  <2>3. CASE Head(todo[p])[1] = "fs-new"
    <3>1. FsNewCommand(p, fault)
      BY <2>3, Carries
    <3>2. filesystems'[f] = filesystems[f]
      BY <1>3, <2>2, <3>1 DEF FsNewCommand
    <3> QED
      BY <3>2
  <2>4. CASE Head(todo[p])[1] = "fs-add"
    <3>1. FsAddCommand(p, fault)
      BY <2>4, Carries
    <3>2. filesystems'[f] = filesystems[f]
      BY <1>3, <2>2, <3>1 DEF FsAddCommand
    <3> QED
      BY <3>2
  <2> QED
    BY <1>4, <2>3, <2>4
<1>5. CASE Head(todo[p])[1] = "rename"
  <2>1. RenameCommand(p, fault)
    BY <1>5, Carries
  <2>2. o.op = "rename-pool"
    BY <1>2, <1>5 DEF Owned
  <2> DEFINE moves == ~fault /\ pools[o.pool] # None /\ pools[o.to] = None
             swap == Swap(o, moves)
  <2>3. filesystems' = [g \in FileSystems |->
                          IF filesystems[g] = None THEN None
                          ELSE {swap[x] : x \in filesystems[g]}]
    BY <2>1 DEF RenameCommand, Swap
  <2>4. \A x \in Pools : x # o.pool /\ x # o.to => swap[x] = x
    BY SwapOther
  <2>5. o.pool \in Pools /\ o.to \in Pools
    BY <1>2, <2>2, OpFields
  <2>6. swap \in [Pools -> Pools]
    BY <2>5 DEF Swap
  <2> HIDE DEF swap
  <2>7. filesystems'[f] = IF filesystems[f] = None THEN None ELSE {swap[x] : x \in filesystems[f]}
    BY <2>3
  <2>8. ASSUME filesystems[f] # None
        PROVE  filesystems'[f] # None
               /\ \A x \in filesystems[f] : x \notin {o.pool, o.to} => x \in filesystems'[f]
    <3>1. filesystems[f] \in SUBSET Pools
      BY <1>3, <2>8
    <3>2. filesystems'[f] = {swap[x] : x \in filesystems[f]}
      BY <2>7, <2>8
    <3>3. filesystems'[f] # None
      <4>1. filesystems'[f] \in SUBSET Pools
        BY <2>6, <3>1, <3>2
      <4> QED
        BY <4>1, BrokerRequestsAssumption
    <3> QED
      BY <2>4, <3>1, <3>2, <3>3
  <2> QED
    BY <2>2, <2>7, <2>8
<1>6. CASE Head(todo[p])[1] \notin {"fs-new", "fs-add", "rename"}
  <2>1. UNCHANGED filesystems
    BY <1>6, Carries DEF AddToGroup, CreateCommand, SetCommand, DeleteCommand, ProfileCommand,
      AdminCommand, SnapshotCommand, TierAddCommand, TierSetCommand, FlushCommand,
      TierRemoveCommand, RemoveProfileCommand, AuthorizeCommand, CapsCommand, cluster, rest
  <2> QED
    BY <2>1
<1> QED
  BY <1>4, <1>5, <1>6

\* And the profiles and clients.
LEMMA NameFrame ==
  ASSUME TypeInv, RestTypes, NEW p \in Proxies, NEW fault \in BOOLEAN, Change(p, fault),
         NEW x, x \notin Touches(Op(p))
  PROVE  /\ x \in profiles' <=> x \in profiles
         /\ x \in Clients => clients'[x] = clients[x]
<1> USE DEF TypeInv
<1> DEFINE o == Op(p)
<1>1. todo[p] # <<>>
  BY ChangeOutcome
<1>2. o \in OpType /\ Owned(Head(todo[p]), o)
  BY <1>1, HeadAt
<1>3. CASE Head(todo[p])[1] \in {"set-profile", "remove-profile"}
  <2>1. o.op \in {"create-erasure-profile", "delete-erasure-profile"}
    BY <1>2, <1>3 DEF Owned
  <2>2. o.profile # x
    BY <2>1 DEF Touches
  <2>3. ProfileCommand(p, fault) \/ RemoveProfileCommand(p, fault)
    BY <1>3, Carries
  <2> QED
    BY <2>2, <2>3 DEF ProfileCommand, RemoveProfileCommand, tiering
<1>4. CASE Head(todo[p])[1] \in {"authorize", "caps"}
  <2>1. o.op \in {"create-cephfs-client", "set-key-permissions"}
    BY <1>2, <1>4 DEF Owned
  <2>2. o.client # x
    BY <2>1 DEF Touches
  <2>3. AuthorizeCommand(p, fault) \/ CapsCommand(p, fault)
    BY <1>4, Carries
  <2>4. clients \in [Clients -> Values \union {None}]
    BY DEF RestTypes
  <2> QED
    BY <2>2, <2>3, <2>4 DEF AuthorizeCommand, CapsCommand, tiering
<1>5. CASE Head(todo[p])[1] \notin {"set-profile", "remove-profile", "authorize", "caps"}
  <2>1. UNCHANGED <<profiles, clients>>
    BY <1>5, Carries DEF AddToGroup, CreateCommand, SetCommand, DeleteCommand, RenameCommand,
      FsNewCommand, FsAddCommand, AdminCommand, SnapshotCommand, TierAddCommand, TierSetCommand,
      FlushCommand, TierRemoveCommand, cluster, rest
  <2> QED
    BY <2>1
<1> QED
  BY <1>3, <1>4, <1>5

\* What was brought about stays, when a command is not about it.
LEMMA KeptFrame ==
  ASSUME TypeInv, RestTypes, NEW p \in Proxies, NEW fault \in BOOLEAN, Change(p, fault),
         NEW o \in OpType, Kept(o), Touches(Op(p)) \intersect Touches(o) = {}
  PROVE  Kept(o)'
<1> DEFINE oq == Op(p)
<1>1. \A x : x \in Touches(o) => x \notin Touches(oq)
  OBVIOUS
<1>2. oq \in OpType
  BY ChangeOutcome, AtOp DEF TypeInv
<1>3. /\ oq.op \in {"create-cache-tier", "remove-cache-tier"} => oq.hot \in Touches(oq)
      /\ oq.op = "rename-pool" => oq.pool \in Touches(oq) /\ oq.to \in Touches(oq)
      /\ oq.op = "create-cephfs" => oq.fs \in Touches(oq)
  BY DEF Touches
<1> HIDE DEF oq
<1>4. CASE o.op \in {"create-erasure-profile", "delete-erasure-profile"}
  <2>1. o.profile \in Touches(o)
    BY <1>4 DEF Touches
  <2>2. o.profile \in profiles' <=> o.profile \in profiles
    BY <1>1, <2>1, NameFrame DEF oq
  <2> QED
    BY <1>4, <2>2 DEF Kept, Done
<1>5. CASE o.op \in {"delete-pool", "set-pool-value", "snapshot-pool", "remove-pool-snapshot"}
  <2>1. o.pool \in Touches(o) /\ o.pool \in Pools
    BY <1>5, OpFields DEF Touches
  <2>2. pools'[o.pool] = pools[o.pool] /\ (o.pool \in snaps' <=> o.pool \in snaps)
    BY <1>1, <2>1, PoolFrame DEF oq
  <2> QED
    BY <1>5, <2>2 DEF Kept, Done
<1>6. CASE o.op = "rename-pool"
  <2>1. o.pool \in Touches(o) /\ o.pool \in Pools /\ o.to \in Touches(o) /\ o.to \in Pools
    BY <1>6, OpFields DEF Touches
  <2>2. pools'[o.pool] = pools[o.pool] /\ pools'[o.to] = pools[o.to]
    BY <1>1, <2>1, PoolFrame DEF oq
  <2> QED
    BY <1>6, <2>2 DEF Kept, Done
<1>7. CASE o.op = "remove-cache-tier"
  <2>1. o.hot \in Touches(o) /\ o.hot \in Pools
    BY <1>7, OpFields DEF Touches
  <2>2. /\ oq.op \in {"create-cache-tier", "remove-cache-tier"} => oq.hot # o.hot
        /\ oq.op = "rename-pool" => o.hot \notin {oq.pool, oq.to}
    BY <1>1, <1>3, <2>1
  <2>3. tiers'[o.hot] = None <=> tiers[o.hot] = None
    BY <2>1, <2>2, TierFrame DEF oq
  <2> QED
    BY <1>7, <2>3 DEF Kept, Done
<1>8. CASE o.op \in {"create-cephfs-client", "set-key-permissions"}
  <2>1. o.client \in Touches(o) /\ o.client \in Clients
    BY <1>8, OpFields DEF Touches
  <2>2. clients'[o.client] = clients[o.client]
    BY <1>1, <2>1, NameFrame DEF oq
  <2> QED
    BY <1>8, <2>2 DEF Kept, Done
<1>9. CASE o.op = "create-cephfs"
  <2>1. o.fs \in Touches(o) /\ o.fs \in FileSystems
    BY <1>9, OpFields DEF Touches
  <2>2. oq.op = "create-cephfs" => oq.fs # o.fs
    BY <1>1, <1>3, <2>1
  <2>3. filesystems'[o.fs] = None <=> filesystems[o.fs] = None
    BY <2>1, <2>2, FsFrame DEF oq
  <2> QED
    BY <1>9, <2>3 DEF Kept
<1>10. CASE o.op \in {"create-pool", "create-cache-tier", "rgw", "move-osd-to-bucket", "unknown"}
  BY <1>10 DEF Kept, Done
<1> QED
  BY <1>4, <1>5, <1>6, <1>7, <1>8, <1>9, <1>10, OpFields

\* Whether a snapshot is taken or removed.
LEMMA Taking ==
  ASSUME NEW st
  PROVE  /\ st = <<"snapshot", TRUE>> => st[2]
         /\ st = <<"snapshot", FALSE>> => ~st[2]
<1>1. ASSUME st = <<"snapshot", TRUE>> PROVE st[2]
  BY <1>1, Zenon
<1>2. ASSUME st = <<"snapshot", FALSE>> PROVE ~st[2]
  BY <1>2, Zenon
<1> QED
  BY <1>1, <1>2, Zenon

\* The last step of a handler that goes on brings its operation about.
LEMMA CloseMakes ==
  ASSUME TypeInv, RestTypes, NEW p \in Proxies, NEW fault \in BOOLEAN, Change(p, fault),
         ~Raises(p), pos[p] \notin failed'[p],
         NEW o, o = Op(p), Head(todo[p]) \in Closing(o), o.op # "create-cephfs", ~fault
  PROVE  Kept(o)'
<1> USE DEF TypeInv
<1>1. todo[p] # <<>>
  BY ChangeOutcome
<1>2. o \in OpType /\ Owned(Head(todo[p]), o) /\ Head(todo[p]) \in StepType
  BY <1>1, HeadAt
<1>3. PoolTypes /\ PoolTypes' /\ failed \in [Proxies -> SUBSET Nat]
  BY ChangePools DEF WorkTypes, PoolTypes, RunTypes
<1>4. CASE o.op = "create-erasure-profile"
  <2>1. Head(todo[p])[1] = "set-profile"
    BY <1>4 DEF Closing
  <2>2. ProfileCommand(p, fault)
    BY <2>1, Carries
  <2> QED
    BY <1>4, <2>2 DEF ProfileCommand, Kept, Done
<1>5. CASE o.op = "delete-pool"
  <2>1. Head(todo[p])[1] = "delete"
    BY <1>5 DEF Closing
  <2>2. DeleteCommand(p, fault)
    BY <2>1, Carries
  <2>3. pools' = [pools EXCEPT ![o.pool] = None] /\ o.pool \in Pools
    BY <1>2, <1>5, <2>2, OpFields DEF DeleteCommand
  <2> QED
    BY <1>3, <1>5, <2>3 DEF Kept, Done, PoolTypes
<1>6. CASE o.op = "rename-pool"
  <2>1. Head(todo[p])[1] = "rename"
    BY <1>6 DEF Closing
  <2>2. RenameCommand(p, fault)
    BY <2>1, Carries
  <2>3. o.pool \in Pools /\ o.to \in Pools
    BY <1>2, <1>6, OpFields
  <2> DEFINE moves == ~fault /\ pools[o.pool] # None /\ pools[o.to] = None
             moved == ~fault /\ pools[o.pool] = None /\ pools[o.to] # None
             swap == Swap(o, moves)
  <2>4. pools' = [x \in Pools |-> pools[swap[x]]] /\ (moves \/ moved)
    BY <2>2 DEF RenameCommand, Swap
  <2>5. /\ moves => swap[o.pool] = o.to /\ swap[o.to] = o.pool
        /\ ~moves => swap[o.pool] = o.pool /\ swap[o.to] = o.to
    BY <2>3 DEF Swap
  <2> HIDE DEF swap
  <2>6. pools'[o.pool] = None /\ pools'[o.to] # None
    BY <2>3, <2>4, <2>5
  <2> QED
    BY <1>6, <2>6 DEF Kept, Done
<1>7. CASE o.op = "set-pool-value"
  <2>1. Head(todo[p])[1] = "set" /\ Head(todo[p])[2] = o.key
    BY <1>7 DEF Closing
  <2>2. SetCommand(p, fault)
    BY <2>1, Carries
  <2>3. o.pool \in Pools /\ o.key \in Settings /\ o.value \in Values
    BY <1>2, <1>7, OpFields
  <2>4. pools[o.pool] # None /\ pools' = [pools EXCEPT ![o.pool][o.key] = o.value]
    BY <1>7, <2>1, <2>2 DEF SetCommand, Tolerated, ValueOf
  <2>5. pools[o.pool] \in Properties
    BY <1>3, <2>3, <2>4 DEF PoolTypes
  <2>6. pools'[o.pool] = [pools[o.pool] EXCEPT ![o.key] = o.value]
    BY <1>3, <2>3, <2>4 DEF PoolTypes
  <2>7. pools'[o.pool] \in Properties /\ pools'[o.pool][o.key] = o.value
    BY <2>3, <2>5, <2>6 DEF Properties
  <2> QED
    BY <1>7, <2>7, BrokerRequestsAssumption DEF Kept, Done
<1>8. CASE o.op = "remove-cache-tier"
  <2>1. Head(todo[p])[1] = "tier-remove"
    BY <1>8, Carries DEF Closing
  <2>2. TierRemoveCommand(p, fault)
    BY <2>1, Carries
  <2>3. tiers' = [tiers EXCEPT ![o.hot] = None] /\ o.hot \in Pools
    BY <1>2, <1>8, <2>2, OpFields DEF TierRemoveCommand
  <2> QED
    BY <1>3, <1>8, <2>3 DEF Kept, Done, PoolTypes
<1>9. CASE o.op = "create-cephfs-client"
  <2>1. Head(todo[p])[1] = "authorize"
    BY <1>9 DEF Closing
  <2>2. AuthorizeCommand(p, fault)
    BY <2>1, Carries
  <2>3. ~Returns(p, "error")
    BY <1>3 DEF Returns
  <2>4. clients' = [clients EXCEPT ![o.client] = o.grant] /\ o.client \in Clients
        /\ o.grant \in Values
    BY <1>2, <1>9, <2>2, <2>3, OpFields DEF AuthorizeCommand
  <2> QED
    BY <1>9, <2>4, BrokerRequestsAssumption DEF Kept, Done, RestTypes
<1>10. CASE o.op = "set-key-permissions"
  <2>1. Head(todo[p])[1] = "caps"
    BY <1>10 DEF Closing
  <2>2. CapsCommand(p, fault)
    BY <2>1, Carries
  <2>3. o.client \in Clients /\ o.grant \in Values
    BY <1>2, <1>10, OpFields
  <2>4. clients' = IF clients[o.client] = None THEN clients
                   ELSE [clients EXCEPT ![o.client] = o.grant]
    BY <2>2 DEF CapsCommand
  <2>5. clients'[o.client] \in {o.grant, None}
    BY <2>3, <2>4 DEF RestTypes
  <2> QED
    BY <1>10, <2>5 DEF Kept, Done
<1>11. CASE o.op = "delete-erasure-profile"
  <2>1. Head(todo[p])[1] = "remove-profile"
    BY <1>11 DEF Closing
  <2>2. RemoveProfileCommand(p, fault)
    BY <2>1, Carries
  <2> QED
    BY <1>11, <2>2 DEF RemoveProfileCommand, Kept, Done
<1>12. CASE o.op \in {"snapshot-pool", "remove-pool-snapshot"}
  <2>7. Head(todo[p]) = <<"snapshot", o.op = "snapshot-pool">>
    BY <1>12 DEF Closing
  <2>1. Head(todo[p])[1] = "snapshot"
    BY <2>7
  <2>2. SnapshotCommand(p, fault)
    BY <2>1, Carries
  <2>3. pools[o.pool] # None
    BY <2>2 DEF SnapshotCommand
  <2>4. CASE o.op = "snapshot-pool"
    <3>4. Head(todo[p]) = <<"snapshot", TRUE>>
      BY <2>4 DEF Closing
    <3>1. Head(todo[p])[2]
      BY <3>4, Taking, Zenon
    <3>2. snaps' = CASE ~(~fault /\ pools[o.pool] # None) -> snaps
                     [] (~fault /\ pools[o.pool] # None) /\ Head(todo[p])[2] ->
                          snaps \union {o.pool}
                     [] OTHER -> snaps \ {o.pool}
      BY <2>2, Zenon DEF SnapshotCommand
    <3>3. snaps' = snaps \union {o.pool}
      BY <2>3, <3>1, <3>2
    <3> QED
      BY <2>4, <3>3 DEF Kept, Done
  <2>5. CASE o.op = "remove-pool-snapshot"
    <3>4. Head(todo[p]) = <<"snapshot", FALSE>>
      BY <2>5 DEF Closing
    <3>1. ~Head(todo[p])[2]
      BY <3>4, Taking, Zenon
    <3>2. snaps' = snaps \ {o.pool}
      BY <2>2, <2>3, <3>1 DEF SnapshotCommand
    <3> QED
      BY <2>5, <3>2 DEF Kept, Done
  <2> QED
    BY <1>12, <2>4, <2>5
<1>13. CASE o.op \in {"create-pool", "create-cache-tier", "rgw", "move-osd-to-bucket", "unknown"}
  BY <1>13 DEF Kept, Done
<1> QED
  BY <1>2, <1>4, <1>5, <1>6, <1>7, <1>8, <1>9, <1>10, <1>11, <1>12, <1>13, OpFields

\* The step a handler is at tells what it looks at.
LEMMA Observes ==
  ASSUME NEW p, NEW fault, Look(p, fault)
  PROVE  LET step == Head(todo[p])[1]
         IN \/ step = "cap" /\ Cap(p, fault)
            \/ step = "profile" /\ CheckProfile(p, fault)
            \/ step = "read-profile" /\ ReadProfile(p, fault)
            \/ step = "exists" /\ CheckExists(p, fault)
            \/ step = "no-profile" /\ CheckNoProfile(p, fault)
            \/ step = "needs" /\ CheckFsPool(p, fault)
            \/ step = "no-fs" /\ CheckNoFs(p, fault)
            \/ step = "tier-pool" /\ CheckTierPool(p, fault)
            \/ step = "preflight" /\ Preflight(p, fault)
            \/ step = "tier-mode" /\ LookAtMode(p, fault)
            \/ step = "no-client" /\ CheckNoClient(p, fault)
<1>1. /\ Cap(p, fault) => Head(todo[p])[1] = "cap"
      /\ CheckProfile(p, fault) => Head(todo[p])[1] = "profile"
      /\ ReadProfile(p, fault) => Head(todo[p])[1] = "read-profile"
      /\ CheckExists(p, fault) => Head(todo[p])[1] = "exists"
      /\ CheckNoProfile(p, fault) => Head(todo[p])[1] = "no-profile"
      /\ CheckFsPool(p, fault) => Head(todo[p])[1] = "needs"
      /\ CheckNoFs(p, fault) => Head(todo[p])[1] = "no-fs"
      /\ CheckTierPool(p, fault) => Head(todo[p])[1] = "tier-pool"
      /\ Preflight(p, fault) => Head(todo[p])[1] = "preflight"
      /\ LookAtMode(p, fault) => Head(todo[p])[1] = "tier-mode"
      /\ CheckNoClient(p, fault) => Head(todo[p])[1] = "no-client"
  BY DEF At, Cap, CheckProfile, ReadProfile, CheckExists, CheckNoProfile, CheckFsPool,
         CheckNoFs, CheckTierPool, Preflight, LookAtMode, CheckNoClient
<1> QED
  BY <1>1 DEF Look

\* What p does in a handler, by the step it is at.
LEMMA HandlingAt ==
  ASSUME TypeInv, Counts, Quiet, NEW p \in Proxies, Handling(p)
  PROVE  /\ todo[p] # <<>> /\ Outcome(p) /\ PoolTypes'
         /\ Head(todo[p])[1] \in Commanding => Change(p, FALSE)
         /\ Head(todo[p])[1] \notin Commanding => UNCHANGED cluster
         /\ Head(todo[p])[1] = "validate" => Validate(p)
         /\ Head(todo[p])[1] \in {"no-profile", "no-fs", "tier-mode", "no-client"} =>
              \E fault \in BOOLEAN : Look(p, fault)
<1> USE DEF TypeInv
<1>1. PoolTypes
  BY DEF PoolTypes, WorkTypes
<1>2. CASE CheckParams(p) \/ Validate(p) \/ LoadCrushmap(p)
  <2>1. todo[p] # <<>> /\ Outcome(p) /\ UNCHANGED cluster
    BY <1>2, CheckOutcome
  <2>2. PoolTypes'
    BY <1>1, <2>1 DEF cluster, tiering, PoolTypes
  <2>3. /\ CheckParams(p) => Head(todo[p])[1] = "params"
        /\ LoadCrushmap(p) => Head(todo[p])[1] = "crushmap"
        /\ Validate(p) => Head(todo[p])[1] = "validate"
    BY DEF CheckParams, Validate, LoadCrushmap, At
  <2> QED
    BY <1>2, <2>1, <2>2, <2>3 DEF Commanding
<1>3. ASSUME NEW fault \in BOOLEAN, Look(p, fault)
      PROVE  /\ todo[p] # <<>> /\ Outcome(p) /\ UNCHANGED cluster /\ PoolTypes'
             /\ Head(todo[p])[1] \notin Commanding \union {"validate"}
  <2>1. todo[p] # <<>> /\ Outcome(p) /\ UNCHANGED cluster
    BY <1>3, LookOutcome
  <2>2. PoolTypes'
    BY <1>1, <2>1 DEF cluster, tiering, PoolTypes
  <2>3. Head(todo[p])[1] \notin Commanding \union {"validate"}
    BY <1>3, Observes DEF Commanding
  <2> QED
    BY <2>1, <2>2, <2>3
<1>4. ASSUME NEW fault \in BOOLEAN, Change(p, fault)
      PROVE  /\ todo[p] # <<>> /\ Outcome(p) /\ PoolTypes' /\ Change(p, FALSE)
             /\ Head(todo[p])[1] \in Commanding
  <2>1. todo[p] # <<>> /\ Outcome(p) /\ PoolTypes'
    BY <1>4, ChangeOutcome, ChangePools
  <2>2. Head(todo[p])[1] \in Commanding
    BY <1>4, Carries DEF Commanding
  <2>3. Fault(fault)
    BY <1>4 DEF Change, AddToGroup, CreateCommand, SetCommand, DeleteCommand, RenameCommand,
         ProfileCommand, FsNewCommand, FsAddCommand, AdminCommand, SnapshotCommand,
         TierAddCommand, TierSetCommand, FlushCommand, TierRemoveCommand,
         RemoveProfileCommand, AuthorizeCommand, CapsCommand
  <2>4. fault = FALSE
    BY <2>3 DEF Fault, Counts, Quiet
  <2> QED
    BY <1>4, <2>1, <2>2, <2>4
<1>5. Commanding \intersect {"validate", "no-profile", "no-fs", "tier-mode", "no-client"} = {}
  BY DEF Commanding
<1>6. CASE \E fault \in BOOLEAN : Look(p, fault)
  BY <1>3, <1>5, <1>6
<1>7. CASE \E fault \in BOOLEAN : Change(p, fault)
  BY <1>4, <1>5, <1>7
<1> QED
  BY <1>2, <1>6, <1>7 DEF Handling

\* A run that has steps left is where it was.
LEMMA Stays ==
  ASSUME TypeInv, NEW p \in Proxies, todo[p] # <<>>, Outcome(p), todo'[p] # <<>>,
         NEW o, o = Op(p)
  PROVE  Op(p)' = o /\ req'[p] = req[p] /\ pos'[p] = pos[p]
BY DEF Outcome, GoOn, Skip, Raises, Answer, TypeInv, WorkTypes, Op

\* How the handler of a pool goes on.
LEMMA PoolOutcome ==
  ASSUME TypeInv, NEW p \in Proxies, todo[p] # <<>>, Outcome(p),
         NEW o, o = Op(p), o.op = "create-pool"
  PROVE  \/ todo'[p] = Tail(todo[p])
         \/ todo'[p] = <<>>
         \/ /\ todo'[p] = UpdatePool(o) /\ Head(todo[p]) = <<"exists">>
            /\ pools[o.pool] # None
BY DEF Outcome, GoOn, Skip, Raises, Answer, TypeInv, WorkTypes

\* A new pool, and one that a property is set of.
LEMMA PoolCommands ==
  ASSUME TypeInv, NEW p \in Proxies, todo[p] # <<>>, Change(p, FALSE),
         NEW o, o = Op(p), o.op = "create-pool"
  PROVE  /\ Head(todo[p])[1] = "create" =>
              /\ todo'[p] = Tail(todo[p]) /\ pools'[o.pool] # None
              /\ pools[o.pool] # None => pools' = pools
         /\ Head(todo[p])[1] = "set" /\ pools[o.pool] # None =>
              /\ todo'[p] = Tail(todo[p])
              /\ pools'[o.pool] =
                   [pools[o.pool] EXCEPT ![Head(todo[p])[2]] = o.want[Head(todo[p])[2]]]
              /\ pools[o.pool] \in Properties
              /\ pools'[o.pool] # None
         /\ Head(todo[p])[1] \in Commanding \ {"create", "set"} => pools' = pools
<1> USE DEF TypeInv
<1>1. o \in OpType /\ Owned(Head(todo[p]), o) /\ Head(todo[p]) \in StepType
  BY HeadAt
<1>2. PoolTypes /\ PoolTypes' /\ o.pool \in Pools /\ todo \in [Proxies -> Seq(StepType)]
      /\ o.want \in [Settings -> Values \union {None}]
  BY <1>1, OpFields, ChangePools DEF WorkTypes, PoolTypes
<1>3. ASSUME Head(todo[p])[1] = "create"
      PROVE  /\ todo'[p] = Tail(todo[p]) /\ pools'[o.pool] # None
             /\ pools[o.pool] # None => pools' = pools
  <2>1. CreateCommand(p, FALSE)
    BY <1>3, Carries
  <2>2. [s \in Settings |-> None] # None
    <3>1. [s \in Settings |-> None] \in Properties
      BY DEF Properties
    <3> QED
      BY <3>1, BrokerRequestsAssumption
  <2>3. todo'[p] = Tail(todo[p])
    BY <1>2, <2>1 DEF CreateCommand, GoOn
  <2> QED
    BY <1>2, <2>1, <2>2, <2>3 DEF CreateCommand, PoolTypes
<1>4. ASSUME Head(todo[p])[1] = "set", pools[o.pool] # None
      PROVE  /\ todo'[p] = Tail(todo[p])
             /\ pools'[o.pool] =
                  [pools[o.pool] EXCEPT ![Head(todo[p])[2]] = o.want[Head(todo[p])[2]]]
             /\ pools[o.pool] \in Properties
             /\ pools'[o.pool] # None
  <2>1. SetCommand(p, FALSE)
    BY <1>4, Carries
  <2>2. /\ pools' = [pools EXCEPT ![o.pool][Head(todo[p])[2]] = o.want[Head(todo[p])[2]]]
        /\ GoOn(p)
    BY <1>4, <2>1 DEF SetCommand, ValueOf
  <2>3. todo'[p] = Tail(todo[p])
    BY <1>2, <2>2 DEF GoOn
  <2>4. pools[o.pool] \in Properties /\ Head(todo[p])[2] \in Settings
    BY <1>1, <1>2, <1>4 DEF PoolTypes, StepType
  <2>5. pools'[o.pool] =
          [pools[o.pool] EXCEPT ![Head(todo[p])[2]] = o.want[Head(todo[p])[2]]]
    BY <1>2, <2>2 DEF PoolTypes
  <2>6. pools'[o.pool] \in Properties
    BY <1>2, <2>4, <2>5 DEF Properties
  <2> QED
    BY <2>3, <2>4, <2>5, <2>6, BrokerRequestsAssumption
<1>5. ASSUME Head(todo[p])[1] \in Commanding \ {"create", "set"} PROVE pools' = pools
  <2>1. Head(todo[p])[1] \notin {"delete", "rename"}
    BY <1>1 DEF Owned
  <2> QED
    BY <1>5, <2>1, Carries DEF AddToGroup, ProfileCommand, FsNewCommand, FsAddCommand,
      AdminCommand, SnapshotCommand, TierAddCommand, TierSetCommand, FlushCommand,
      TierRemoveCommand, RemoveProfileCommand, AuthorizeCommand, CapsCommand, cluster, tiering,
      Commanding
<1> QED
  BY <1>3, <1>4, <1>5

\* The handler of a pool either leaves it without what is settled at its
\* creation, for now, or sees to it.
LEMMA CreatingStep ==
  ASSUME TypeInv, Counts, Quiet, NEW p \in Proxies, Handling(p), todo[p] # <<>>,
         NEW o, o = Op(p), o.op = "create-pool", o.params # "invalid",
         Creating(todo[p], o)
  PROVE  Creating(todo[p], o)' \/ (todo'[p] = <<>> /\ Unset(o)' = {})
<1> DEFINE s == todo[p]
           st == Head(s)
           z == <<"create">>
           U == BeforeCreate
           V == AfterCreate
           X == Wanted(o)
           there == pools[o.pool] # None
<1>1. /\ Outcome(p)
      /\ st[1] \in Commanding => Change(p, FALSE)
      /\ st[1] \notin Commanding => UNCHANGED cluster
      /\ st[1] = "validate" => Validate(p)
  BY HandlingAt
<1>2. st \in StepType /\ s \in Seq(StepType) /\ s # <<>> /\ todo \in [Proxies -> Seq(StepType)]
  BY HeadAt DEF TypeInv, WorkTypes
<1>3. z \notin U /\ z \notin V
  BY DEF BeforeCreate, AfterCreate
<1>4. Unset(o) \subseteq X /\ Unset(o)' \subseteq X /\ \A x \in X : x[1] = "set"
  BY DEF Unset, Wanted
<1>5. Good(s, there, Unset(o), z, U, V, X)
  BY DEF Creating
<1>6. CASE st[1] = "create"
  <2>1. todo'[p] = Tail(s) /\ pools'[o.pool] # None
    BY <1>1, <1>6, PoolCommands DEF Commanding
  <2>2. st = z
    BY <1>2, <1>6 DEF StepType
  <2> HIDE DEF s, st, z, U, V, X
  <2>3. Good(Tail(s), TRUE, Unset(o)', z, U, V, X)
    BY <1>2, <1>3, <1>4, <1>5, <2>2, GoodMade DEF st
  <2> QED
    BY <2>1, <2>3 DEF Creating, z, U, V, X
<1>7. CASE st[1] = "set"
  <2>1. there
    <3>1. st \notin U /\ st # z
      BY <1>7 DEF BeforeCreate
    <3> HIDE DEF s, st, z, U, V, X
    <3> QED
      BY <1>2, <1>3, <1>5, <3>1, GoodThere DEF st
  <2>2. /\ todo'[p] = Tail(s)
        /\ pools'[o.pool] = [pools[o.pool] EXCEPT ![st[2]] = o.want[st[2]]]
        /\ pools[o.pool] \in Properties
        /\ pools'[o.pool] # None
    BY <1>1, <1>7, <2>1, PoolCommands DEF Commanding
  <2>3. ASSUME NEW x \in Unset(o)' PROVE x \in Unset(o) /\ x # st
    <3>1. PICK c \in CreationSettings : x = <<"set", c>>
      BY <2>3 DEF Unset, Wanted
    <3>2. x \in X /\ pools'[o.pool][c] # o.want[c]
      BY <2>3, <3>1 DEF Unset
    <3>3. c \in Settings
      BY <3>1 DEF Settings
    <3>4. c # st[2] /\ pools[o.pool][c] # o.want[c]
      <4> HIDE DEF st
      <4> QED
        BY <2>2, <3>2, <3>3 DEF Properties
    <3> QED
      BY <2>1, <3>1, <3>2, <3>4 DEF Unset
  <2>4. st # z
    BY <1>7
  <2> HIDE DEF s, st, z, U, V, X
  <2>5. Good(Tail(s), there, Unset(o)', z, U, V, X)
    BY <1>2, <1>3, <1>5, <2>3, <2>4, GoodTail DEF st
  <2> QED
    BY <2>1, <2>2, <2>5 DEF Creating, z, U, V, X, there
<1>8. CASE st[1] \notin {"create", "set"}
  <2>1. pools' = pools
    BY <1>1, <1>8, PoolCommands DEF cluster
  <2>2. Unset(o)' = Unset(o) /\ there' = there
    BY <2>1 DEF Unset, Wanted
  <2>3. CASE todo'[p] = Tail(s)
    <3>1. st # z /\ st \notin Unset(o)
      BY <1>4, <1>8
    <3> HIDE DEF s, st, z, U, V, X
    <3>2. Good(Tail(s), there, Unset(o), z, U, V, X)
      BY <1>2, <1>3, <1>5, <3>1, GoodTail DEF st
    <3> QED
      BY <2>2, <2>3, <3>2 DEF Creating, z, U, V, X
  <2>4. CASE todo'[p] # Tail(s)
    <3>1. st[1] # "validate"
      BY <1>1, <1>2, <2>4 DEF Validate, GoOn
    <3>2. st \notin V
      BY <1>8, <3>1 DEF AfterCreate
    <3>3. ~there \/ Unset(o) = {}
      <4> HIDE DEF s, st, z, U, V, X
      <4> QED
        BY <1>2, <1>5, <3>2, GoodSound DEF st
    <3>4. Unset(o) = {}
      BY <3>3 DEF Unset
    <3>5. CASE todo'[p] = <<>>
      BY <2>2, <3>4, <3>5
    <3>6. CASE todo'[p] = UpdatePool(o) /\ pools[o.pool] # None
      <4>1. o \in OpType
        BY HeadAt
      <4>2. UpdatePool(o) \in Seq(V)
        BY <4>1, SetSteps
      <4>3. \A j \in 1 .. Len(UpdatePool(o)) : UpdatePool(o)[j] \in V
        <5> HIDE DEF V
        <5> QED
          BY <4>2, Elements
      <4>4. Covers(UpdatePool(o), V, Unset(o))
        BY <3>4, <4>3 DEF Covers
      <4>5. Good(UpdatePool(o), there, Unset(o), z, U, V, X)
        <5> HIDE DEF z, U, V, X
        <5> QED
          BY <3>6, <4>4 DEF Good
      <4> HIDE DEF z, U, V, X
      <4> QED
        BY <2>2, <3>6, <4>5 DEF Creating, z, U, V, X
    <3> QED
      BY <1>1, <2>4, <3>5, <3>6, PoolOutcome
  <2> QED
    BY <2>3, <2>4
<1> QED
  BY <1>6, <1>7, <1>8

\* A pool whose request is refused is never made.
LEMMA RefusedStep ==
  ASSUME TypeInv, Counts, Quiet, NEW p \in Proxies, Handling(p), todo[p] # <<>>,
         NEW o, o = Op(p), o.op = "create-pool", o.params = "invalid", pools[o.pool] = None,
         Split(todo[p], <<"validate">>, BeforeValidate, StepType, {})
  PROVE  /\ pools'[o.pool] = None
         /\ todo'[p] # <<>> => Split(todo'[p], <<"validate">>, BeforeValidate, StepType, {})
<1> DEFINE s == todo[p]
           st == Head(s)
           z == <<"validate">>
           U == BeforeValidate
<1>1. /\ Outcome(p)
      /\ st[1] \in Commanding => Change(p, FALSE)
      /\ st[1] \notin Commanding => UNCHANGED cluster
      /\ st[1] = "validate" => Validate(p)
  BY HandlingAt
<1>2. s \in Seq(StepType) /\ s # <<>> /\ todo \in [Proxies -> Seq(StepType)]
  BY DEF TypeInv, WorkTypes
<1>3. z \notin U
  BY DEF BeforeValidate
<1>4. st # z => st \in U /\ Split(Tail(s), z, U, StepType, {})
  <2> HIDE DEF s, st, z, U
  <2> QED
    BY <1>2, <1>3, SplitTail DEF s, st, z, U
<1>5. CASE st = z
  <2>1. Validate(p)
    BY <1>1, <1>5
  <2>2. todo'[p] = <<>> /\ pools' = pools
    BY <1>2, <2>1 DEF Validate, Raises, Answer, cluster
  <2> QED
    BY <2>2
<1>6. CASE st # z
  <2>1. st[1] \notin {"create", "set", "validate"}
    BY <1>4, <1>6 DEF BeforeValidate
  <2>2. pools' = pools
    BY <1>1, <2>1, PoolCommands DEF cluster
  <2>3. todo'[p] = Tail(s) \/ todo'[p] = <<>>
    BY <1>1, PoolOutcome
  <2> QED
    BY <1>4, <1>6, <2>2, <2>3
<1> QED
  BY <1>5, <1>6

\* The handler of another operation leaves the pool alone.
LEMMA PoolApart ==
  ASSUME TypeInv, RestTypes, Counts, Quiet, NEW p \in Proxies, Handling(p), todo[p] # <<>>,
         NEW x \in Pools, x \notin Touches(Op(p))
  PROVE  pools'[x] = pools[x]
<1>1. CASE Head(todo[p])[1] \in Commanding
  BY <1>1, HandlingAt, PoolFrame
<1>2. CASE Head(todo[p])[1] \notin Commanding
  BY <1>2, HandlingAt DEF cluster
<1> QED
  BY <1>1, <1>2

LEMMA PoolStep ==
  ASSUME TypeInv, RestTypes, Counts, Quiet, NEW p \in Proxies, Handling(p),
         NEW r \in Requests, NEW i \in Settled[r], NEW o, o = Ops[r][i], o.op = "create-pool",
         PoolState(p, o)
  PROVE  PoolState(p, o)'
<1>1. todo[p] # <<>> /\ Outcome(p)
  BY HandlingAt
<1>2. o \in OpType /\ o.pool \in Pools /\ Touches(o) = {o.pool}
  BY SettledOp, OpFields DEF Touches
<1>3. \A oq : oq = Op(p) /\ todo'[p] # <<>> => Op(p)' = oq
  BY <1>1, Stays
<1>4. CASE Op(p) = o
  <2>1. CASE o.params = "invalid"
    <3>1. pools[o.pool] = None /\ Split(todo[p], <<"validate">>, BeforeValidate, StepType, {})
      BY <1>1, <1>4, <2>1 DEF PoolState
    <3>2. /\ pools'[o.pool] = None
          /\ todo'[p] # <<>> => Split(todo'[p], <<"validate">>, BeforeValidate, StepType, {})
      BY <1>1, <1>4, <2>1, <3>1, RefusedStep
    <3> QED
      BY <2>1, <3>2 DEF PoolState
  <2>2. CASE o.params # "invalid"
    <3>1. Creating(todo[p], o)
      BY <1>1, <1>4, <2>2 DEF PoolState
    <3>2. Creating(todo[p], o)' \/ (todo'[p] = <<>> /\ Unset(o)' = {})
      BY <1>1, <1>4, <2>2, <3>1, CreatingStep
    <3>3. todo'[p] # <<>> => Op(p)' = o
      BY <1>3, <1>4
    <3>4. CASE todo'[p] = <<>>
      <4>1. Unset(o)' = {}
        <5>1. ASSUME Creating(todo[p], o)' PROVE Unset(o)' = {}
          <6>1. Good(<<>>, pools'[o.pool] # None, Unset(o)', <<"create">>, BeforeCreate,
                     AfterCreate, Wanted(o))
            BY <3>4, <5>1 DEF Creating
          <6> QED
            BY <6>1, GoodEnd
        <5> QED
          BY <3>2, <5>1
      <4> QED
        BY <2>2, <3>4, <4>1 DEF PoolState
    <3>5. CASE todo'[p] # <<>>
      BY <2>2, <3>2, <3>3, <3>5 DEF PoolState
    <3> QED
      BY <3>4, <3>5
  <2> QED
    BY <2>1, <2>2
<1>5. CASE Op(p) # o
  <2>1. o.pool \notin Touches(Op(p))
    BY <1>1, <1>2, <1>5, Sole
  <2>2. pools'[o.pool] = pools[o.pool]
    BY <1>1, <1>2, <2>1, PoolApart
  <2>3. Unset(o)' = Unset(o)
    BY <2>2 DEF Unset, Wanted
  <2>4. todo'[p] = <<>> \/ Op(p)' # o
    BY <1>3, <1>5
  <2> QED
    BY <1>5, <2>2, <2>3, <2>4 DEF PoolState
<1> QED
  BY <1>4, <1>5

\* A handler that leaves out steps without an error has found its work done.
LEMMA WellEnded ==
  ASSUME TypeInv, NEW p \in Proxies, Handling(p), todo[p] # <<>>,
         NEW o, o = Op(p), Head(todo[p])[1] \notin Commanding,
         ~Raises(p), pos[p] \notin failed'[p], todo'[p] # Tail(todo[p])
  PROVE  \/ o.op = "create-pool"
         \/ Head(todo[p])[1] = "no-profile" /\ o.profile \in profiles /\ todo'[p] = <<>>
         \/ Head(todo[p])[1] = "no-fs" /\ filesystems[o.fs] # None /\ todo'[p] = <<>>
         \/ Head(todo[p])[1] = "no-client" /\ clients[o.client] # None /\ todo'[p] = <<>>
         \/ Head(todo[p])[1] = "tier-mode" /\ todo'[p] = RemoveCacheTier(CacheMode(o.hot))
<1> USE DEF TypeInv
<1>1. ~GoOn(p) /\ \A v : ~Returns(p, v)
  BY DEF GoOn, Returns, WorkTypes, RunTypes
<1>2. todo \in [Proxies -> Seq(StepType)] /\ failed \in [Proxies -> SUBSET Nat]
  BY DEF WorkTypes, RunTypes
<1>3. Owned(Head(todo[p]), o)
  BY HeadAt
<1>4. ~(CheckParams(p) \/ Validate(p) \/ LoadCrushmap(p))
  BY <1>1 DEF CheckParams, Validate, LoadCrushmap
<1>5. ASSUME NEW fault, Change(p, fault) PROVE FALSE
  BY <1>5, Carries DEF Commanding
<1>6. PICK fault \in BOOLEAN : Look(p, fault)
  BY <1>4, <1>5 DEF Handling
<1>7. CASE Cap(p, fault) \/ CheckProfile(p, fault) \/ ReadProfile(p, fault)
           \/ CheckFsPool(p, fault) \/ CheckTierPool(p, fault)
  BY <1>1, <1>7 DEF Cap, CheckProfile, ReadProfile, CheckFsPool, CheckTierPool
<1>8. CASE Preflight(p, fault)
  <2>1. todo' = [todo EXCEPT ![p] = Tail(@)]
    BY <1>8 DEF Preflight, GoOn
  <2> QED
    BY <1>2, <2>1
<1>9. CASE CheckExists(p, fault)
  BY <1>3, <1>9 DEF CheckExists, At, Owned
<1>10. CASE CheckNoProfile(p, fault)
  BY <1>1, <1>2, <1>10 DEF CheckNoProfile, At, Skip
<1>11. CASE CheckNoFs(p, fault)
  BY <1>1, <1>2, <1>11 DEF CheckNoFs, IfFsThere, At, Skip
<1>12. CASE CheckNoClient(p, fault)
  BY <1>1, <1>2, <1>12 DEF CheckNoClient, At, Skip
<1>13. CASE LookAtMode(p, fault)
  BY <1>1, <1>2, <1>13 DEF LookAtMode, At, Skip
<1> QED
  BY <1>6, <1>7, <1>8, <1>9, <1>10, <1>11, <1>12, <1>13 DEF Look

\* A file system is made, and pools are added to it.
LEMMA FsCommands ==
  ASSUME TypeInv, RestTypes, RestTypes', NEW p \in Proxies, todo[p] # <<>>, Change(p, FALSE),
         NEW o, o = Op(p), o.op = "create-cephfs"
  PROVE  /\ Head(todo[p])[1] = "fs-new" =>
              /\ filesystems'[o.fs] # None
              /\ \/ todo'[p] = Tail(todo[p]) /\ filesystems[o.fs] = None
                 \/ todo'[p] = <<>> /\ filesystems' = filesystems
         /\ Head(todo[p])[1] = "fs-add" /\ filesystems[o.fs] # None =>
              /\ todo'[p] = Tail(todo[p])
              /\ filesystems'[o.fs] = filesystems[o.fs] \union {Head(todo[p])[2]}
              /\ filesystems'[o.fs] # None
         /\ Head(todo[p])[1] \in Commanding \ {"fs-new", "fs-add"} => filesystems' = filesystems
<1> USE DEF TypeInv
<1>1. o \in OpType /\ Owned(Head(todo[p]), o) /\ Head(todo[p]) \in StepType
  BY HeadAt
<1>2. /\ o.fs \in FileSystems /\ todo \in [Proxies -> Seq(StepType)]
      /\ o.first \in Seq(Pools)
      /\ filesystems \in [FileSystems -> (SUBSET Pools) \union {None}]
  BY <1>1, OpFields DEF WorkTypes, RestTypes
<1>3. ASSUME Head(todo[p])[1] = "fs-new"
      PROVE  /\ filesystems'[o.fs] # None
             /\ \/ todo'[p] = Tail(todo[p]) /\ filesystems[o.fs] = None
                \/ todo'[p] = <<>> /\ filesystems' = filesystems
  <2>1. FsNewCommand(p, FALSE)
    BY <1>3, Carries
  <2>2. {o.first[j] : j \in DOMAIN o.first} \in SUBSET Pools
    BY <1>2
  <2>3. \/ /\ filesystems[o.fs] = None /\ GoOn(p)
           /\ filesystems' = [filesystems EXCEPT ![o.fs] = {o.first[j] : j \in DOMAIN o.first}]
        \/ filesystems[o.fs] # None /\ filesystems' = filesystems /\ Skip(p, <<>>)
    BY <2>1 DEF FsNewCommand
  <2>4. CASE /\ filesystems[o.fs] = None /\ GoOn(p)
             /\ filesystems' = [filesystems EXCEPT ![o.fs] = {o.first[j] : j \in DOMAIN o.first}]
    <3>1. filesystems'[o.fs] \in SUBSET Pools
      BY <1>2, <2>2, <2>4
    <3>2. todo'[p] = Tail(todo[p])
      BY <1>2, <2>4 DEF GoOn
    <3> QED
      BY <2>4, <3>1, <3>2, BrokerRequestsAssumption
  <2>5. CASE filesystems[o.fs] # None /\ filesystems' = filesystems /\ Skip(p, <<>>)
    BY <1>2, <2>5 DEF Skip
  <2> QED
    BY <2>3, <2>4, <2>5
<1>4. ASSUME Head(todo[p])[1] = "fs-add", filesystems[o.fs] # None
      PROVE  /\ todo'[p] = Tail(todo[p])
             /\ filesystems'[o.fs] = filesystems[o.fs] \union {Head(todo[p])[2]}
             /\ filesystems'[o.fs] # None
  <2>1. FsAddCommand(p, FALSE)
    BY <1>4, Carries
  <2>2. todo'[p] = Tail(todo[p])
    BY <1>2, <2>1 DEF FsAddCommand, GoOn
  <2>3. filesystems'[o.fs] = filesystems[o.fs] \union {Head(todo[p])[2]}
    BY <1>2, <2>1 DEF FsAddCommand
  <2>4. filesystems[o.fs] \in SUBSET Pools /\ Head(todo[p])[2] \in Pools
    BY <1>1, <1>2, <1>4 DEF StepType
  <2>5. filesystems'[o.fs] \in SUBSET Pools
    BY <2>3, <2>4
  <2> QED
    BY <2>2, <2>3, <2>5, BrokerRequestsAssumption
<1>5. ASSUME Head(todo[p])[1] \in Commanding \ {"fs-new", "fs-add"}
      PROVE  filesystems' = filesystems
  <2>1. Head(todo[p])[1] # "rename"
    BY <1>1 DEF Owned
  <2> QED
    BY <1>5, <2>1, Carries DEF AddToGroup, CreateCommand, SetCommand, DeleteCommand,
      ProfileCommand, AdminCommand, SnapshotCommand, TierAddCommand, TierSetCommand, FlushCommand,
      TierRemoveCommand, RemoveProfileCommand, AuthorizeCommand, CapsCommand, cluster, rest,
      Commanding
<1> QED
  BY <1>3, <1>4, <1>5

\* How the handler of a file system goes on.
LEMMA FsOutcome ==
  ASSUME TypeInv, NEW p \in Proxies, todo[p] # <<>>, Outcome(p),
         NEW o, o = Op(p), o.op = "create-cephfs"
  PROVE  todo'[p] = Tail(todo[p]) \/ todo'[p] = <<>>
BY DEF Outcome, GoOn, Skip, Raises, Answer, TypeInv, WorkTypes

\* The handler of a file system either leaves it without some pool, for now, or
\* adds them all; and if it ends well it is there.
LEMMA FoundingStep ==
  ASSUME TypeInv, RestTypes, RestTypes', Counts, Quiet, NEW p \in Proxies, Handling(p),
         todo[p] # <<>>, NEW o, o = Op(p), o.op = "create-cephfs", Founding(todo[p], o)
  PROVE  /\ Founding(todo[p], o)' \/ (todo'[p] = <<>> /\ Lacking(o)' = {})
         /\ todo'[p] = <<>> /\ ~Raises(p) /\ pos[p] \notin failed'[p] => filesystems'[o.fs] # None
<1> DEFINE s == todo[p]
           st == Head(s)
           z == <<"fs-new">>
           U == BeforeNew
           V == AfterNew
           X == Members(o)
           there == filesystems[o.fs] # None
<1>1. /\ Outcome(p)
      /\ st[1] \in Commanding => Change(p, FALSE)
      /\ st[1] \notin Commanding => UNCHANGED cluster
  BY HandlingAt
<1>2. st \in StepType /\ s \in Seq(StepType) /\ s # <<>> /\ todo \in [Proxies -> Seq(StepType)]
  BY HeadAt DEF TypeInv, WorkTypes
<1>3. z \notin U /\ z \notin V
  BY DEF BeforeNew, AfterNew
<1>4. Lacking(o) \subseteq X /\ Lacking(o)' \subseteq X /\ \A x \in X : x[1] = "fs-add"
  BY DEF Lacking, Members
<1>5. Good(s, there, Lacking(o), z, U, V, X)
  BY DEF Founding
<1>6. CASE st[1] = "fs-new"
  <2>1. /\ filesystems'[o.fs] # None
        /\ \/ todo'[p] = Tail(s) /\ ~there
           \/ todo'[p] = <<>> /\ filesystems' = filesystems
    BY <1>1, <1>6, FsCommands DEF Commanding
  <2>2. st = z
    BY <1>2, <1>6 DEF StepType
  <2>3. Lacking(o)' = Lacking(o) \/ todo'[p] = Tail(s)
    BY <2>1 DEF Lacking, Members
  <2> HIDE DEF s, st, z, U, V, X
  <2>4. /\ Good(Tail(s), TRUE, Lacking(o)', z, U, V, X)
        /\ ~there \/ Lacking(o) = {}
    BY <1>2, <1>3, <1>4, <1>5, <2>2, GoodMade DEF st
  <2>5. Lacking(o) = {}
    BY <2>4 DEF Lacking
  <2>6. CASE todo'[p] = Tail(s)
    BY <2>1, <2>4, <2>6 DEF Founding, z, U, V, X
  <2>7. CASE todo'[p] # Tail(s)
    BY <2>1, <2>3, <2>5, <2>7
  <2> QED
    BY <2>6, <2>7
<1>7. CASE st[1] = "fs-add"
  <2>1. there
    <3>1. st \notin U /\ st # z
      BY <1>7 DEF BeforeNew
    <3> HIDE DEF s, st, z, U, V, X
    <3> QED
      BY <1>2, <1>3, <1>5, <3>1, GoodThere DEF st
  <2>2. /\ todo'[p] = Tail(s)
        /\ filesystems'[o.fs] = filesystems[o.fs] \union {st[2]}
        /\ filesystems'[o.fs] # None
    BY <1>1, <1>7, <2>1, FsCommands DEF Commanding
  <2>3. ASSUME NEW x \in Lacking(o)' PROVE x \in Lacking(o) /\ x # st
    <3>1. PICK y : x = <<"fs-add", y>>
      BY <2>3 DEF Lacking, Members
    <3>2. x \in X /\ y \notin filesystems'[o.fs]
      BY <2>3, <3>1 DEF Lacking, Members
    <3>3. y # st[2] /\ y \notin filesystems[o.fs]
      <4> HIDE DEF st
      <4> QED
        BY <2>2, <3>2
    <3> QED
      BY <2>1, <3>1, <3>2, <3>3 DEF Lacking
  <2>4. st # z
    BY <1>7
  <2> HIDE DEF s, st, z, U, V, X
  <2>5. Good(Tail(s), there, Lacking(o)', z, U, V, X)
    BY <1>2, <1>3, <1>5, <2>3, <2>4, GoodTail DEF st
  <2> QED
    BY <2>1, <2>2, <2>5 DEF Founding, z, U, V, X, there
<1>8. CASE st[1] \notin {"fs-new", "fs-add"}
  <2>1. filesystems' = filesystems
    BY <1>1, <1>8, FsCommands DEF cluster, rest
  <2>2. Lacking(o)' = Lacking(o) /\ there' = there
    BY <2>1 DEF Lacking, Members
  <2>3. CASE todo'[p] = Tail(s)
    <3>1. st # z /\ st \notin Lacking(o)
      BY <1>4, <1>8
    <3> HIDE DEF s, st, z, U, V, X
    <3>2. Good(Tail(s), there, Lacking(o), z, U, V, X)
      BY <1>2, <1>3, <1>5, <3>1, GoodTail DEF st
    <3>3. Tail(s) = <<>> => there
      BY <3>2, GoodEnd
    <3> QED
      BY <2>2, <2>3, <3>2, <3>3 DEF Founding, z, U, V, X, there
  <2>4. CASE todo'[p] # Tail(s)
    <3>1. st \notin V
      BY <1>8 DEF AfterNew
    <3>2. ~there \/ Lacking(o) = {}
      <4> HIDE DEF s, st, z, U, V, X
      <4> QED
        BY <1>2, <1>5, <3>1, GoodSound DEF st
    <3>3. Lacking(o) = {}
      BY <3>2 DEF Lacking
    <3>4. todo'[p] = <<>>
      BY <1>1, <2>4, FsOutcome
    <3>5. ~Raises(p) /\ pos[p] \notin failed'[p] => there
      <4>2. CASE st[1] \notin Commanding
        <5>1. Owned(st, o)
          BY HeadAt
        <5> QED
          BY <2>4, <4>2, <5>1, WellEnded DEF Owned
      <4>3. CASE st[1] \in Commanding
        <5>1. st[1] \in {"admin"}
          BY <4>3, <1>8, HeadAt DEF Commanding, Owned
        <5> QED
          BY <1>1, <2>4, <4>3, <5>1, Carries DEF AdminCommand, GoOn, Returns, TypeInv, WorkTypes
      <4> QED
        BY <4>2, <4>3
    <3> QED
      BY <2>1, <2>2, <3>3, <3>4, <3>5
  <2> QED
    BY <2>3, <2>4
<1> QED
  BY <1>6, <1>7, <1>8

\* The handler of another operation leaves the file system alone.
LEMMA FsApart ==
  ASSUME TypeInv, RestTypes, Counts, Quiet, NEW p \in Proxies, Handling(p),
         todo[p] # <<>>, NEW r \in Requests, NEW i \in Settled[r], NEW o, o = Ops[r][i],
         o.op = "create-cephfs", o.fs \notin Touches(Op(p)), Lacking(o) = {}
  PROVE  Lacking(o)' = {}
<1>1. o \in OpType /\ o.fs \in FileSystems /\ o.extra \in Seq(Pools)
  BY SettledOp, OpFields
<1>2. CASE Head(todo[p])[1] \in Commanding
  <2>1. Change(p, FALSE)
    BY <1>2, HandlingAt
  <2>2. Op(p).op = "create-cephfs" => Op(p).fs # o.fs
    BY DEF Touches
  <2>3. /\ filesystems'[o.fs] = None <=> filesystems[o.fs] = None
        /\ filesystems[o.fs] # None =>
             \A x \in filesystems[o.fs] :
               (Op(p).op = "rename-pool" => x \notin {Op(p).pool, Op(p).to}) =>
                 x \in filesystems'[o.fs]
    BY <1>1, <2>1, <2>2, FsFrame
  <2>4. \A j \in DOMAIN o.extra :
          Op(p).op = "rename-pool" => o.extra[j] \notin {Op(p).pool, Op(p).to}
    <3>1. req[p] \in Requests /\ pos[p] \in DOMAIN Ops[req[p]]
      BY AtOp DEF TypeInv
    <3> QED
      BY <1>1, <3>1 DEF Settled, Steady, Op
  <2> QED
    BY <2>3, <2>4 DEF Lacking, Members
<1>3. CASE Head(todo[p])[1] \notin Commanding
  <2>1. filesystems' = filesystems
    BY <1>3, HandlingAt DEF cluster, rest
  <2> QED
    BY <2>1 DEF Lacking, Members
<1> QED
  BY <1>2, <1>3

LEMMA FsStep ==
  ASSUME TypeInv, RestTypes, RestTypes', Counts, Quiet, NEW p \in Proxies,
         Handling(p), NEW r \in Requests, NEW i \in Settled[r], NEW o, o = Ops[r][i],
         o.op = "create-cephfs", FsState(p, o)
  PROVE  FsState(p, o)'
<1>1. todo[p] # <<>> /\ Outcome(p)
  BY HandlingAt
<1>2. o \in OpType /\ Touches(o) = {o.fs}
  BY SettledOp DEF Touches
<1>3. \A oq : oq = Op(p) /\ todo'[p] # <<>> => Op(p)' = oq
  BY <1>1, Stays
<1>4. CASE Op(p) = o
  <2>1. Founding(todo[p], o)
    BY <1>1, <1>4 DEF FsState
  <2>2. Founding(todo[p], o)' \/ (todo'[p] = <<>> /\ Lacking(o)' = {})
    BY <1>1, <1>4, <2>1, FoundingStep
  <2>3. CASE todo'[p] = <<>>
    <3>1. ASSUME Founding(todo[p], o)' PROVE Lacking(o)' = {}
      <4>1. Good(<<>>, filesystems'[o.fs] # None, Lacking(o)', <<"fs-new">>, BeforeNew,
                 AfterNew, Members(o))
        BY <2>3, <3>1 DEF Founding
      <4> QED
        BY <4>1, GoodEnd
    <3> QED
      BY <2>2, <2>3, <3>1 DEF FsState
  <2>4. CASE todo'[p] # <<>>
    BY <1>3, <1>4, <2>2, <2>4 DEF FsState
  <2> QED
    BY <2>3, <2>4
<1>5. CASE Op(p) # o
  <2>1. o.fs \notin Touches(Op(p))
    BY <1>1, <1>2, <1>5, Sole
  <2>2. Lacking(o) = {}
    BY <1>5 DEF FsState
  <2>3. Lacking(o)' = {}
    BY <1>1, <2>1, <2>2, FsApart
  <2>4. todo'[p] = <<>> \/ Op(p)' # o
    BY <1>3, <1>5
  <2> QED
    BY <2>3, <2>4 DEF FsState
<1> QED
  BY <1>4, <1>5

\* A tier is added, and set up.
LEMMA TierCommands ==
  ASSUME TypeInv, NEW p \in Proxies, todo[p] # <<>>, Change(p, FALSE),
         NEW o, o = Op(p), o.op \in {"create-cache-tier", "remove-cache-tier"}
  PROVE  /\ Head(todo[p])[1] = "tier-add" =>
              \/ todo'[p] = Tail(todo[p]) /\ tiers'[o.hot] # None
              \/ todo'[p] = <<>> /\ tiers' = tiers
         /\ Head(todo[p])[1] = "tier-set" /\ tiers[o.hot] # None =>
              /\ todo'[p] = Tail(todo[p]) /\ tiers[o.hot] \in Tier /\ tiers'[o.hot] # None
              /\ tiers'[o.hot] = [tiers[o.hot] EXCEPT ![Head(todo[p])[2]] = Head(todo[p])[3]]
         /\ Head(todo[p])[1] = "tier-remove" /\ (tiers[o.hot] # None => ~tiers[o.hot].overlay) =>
              todo'[p] = Tail(todo[p]) /\ tiers'[o.hot] = None
         /\ Head(todo[p])[1] = "flush" => todo'[p] = Tail(todo[p])
         /\ Head(todo[p])[1] \in Commanding \ {"tier-add", "tier-set", "tier-remove"} =>
              tiers' = tiers
<1> USE DEF TypeInv
<1>1. o \in OpType /\ Owned(Head(todo[p]), o) /\ Head(todo[p]) \in StepType
  BY HeadAt
<1>2. PoolTypes /\ PoolTypes' /\ o.hot \in Pools /\ o.cold \in Pools
      /\ todo \in [Proxies -> Seq(StepType)]
  BY <1>1, OpFields, ChangePools DEF WorkTypes, PoolTypes
<1>3. ASSUME Head(todo[p])[1] = "tier-add"
      PROVE  \/ todo'[p] = Tail(todo[p]) /\ tiers'[o.hot] # None
             \/ todo'[p] = <<>> /\ tiers' = tiers
  <2>1. TierAddCommand(p, FALSE)
    BY <1>3, Carries
  <2> DEFINE new == [cold |-> o.cold, mode |-> "none", overlay |-> FALSE, bloom |-> FALSE]
  <2>2. new # None
    <3>1. new \in Tier
      BY <1>2 DEF Tier, CacheModes
    <3> HIDE DEF new
    <3> QED
      BY <3>1, BrokerRequestsAssumption
  <2>3. /\ tiers' = IF CanAdd(o) /\ tiers[o.hot] = None
                    THEN [tiers EXCEPT ![o.hot] = new] ELSE tiers
        /\ IF CanAdd(o) THEN GoOn(p) ELSE Raises(p)
    BY <2>1 DEF TierAddCommand
  <2> HIDE DEF new
  <2>4. CASE CanAdd(o)
    <3>1. todo'[p] = Tail(todo[p])
      BY <1>2, <2>3, <2>4 DEF GoOn
    <3>2. tiers'[o.hot] # None
      BY <1>2, <2>2, <2>3, <2>4 DEF PoolTypes
    <3> QED
      BY <3>1, <3>2
  <2>5. CASE ~CanAdd(o)
    BY <1>2, <2>3, <2>5 DEF Raises, Answer
  <2> QED
    BY <2>4, <2>5
<1>4. ASSUME Head(todo[p])[1] = "tier-set", tiers[o.hot] # None
      PROVE  /\ todo'[p] = Tail(todo[p]) /\ tiers[o.hot] \in Tier /\ tiers'[o.hot] # None
             /\ tiers'[o.hot] = [tiers[o.hot] EXCEPT ![Head(todo[p])[2]] = Head(todo[p])[3]]
  <2>1. TierSetCommand(p, FALSE)
    BY <1>4, Carries
  <2>2. /\ tiers' = [tiers EXCEPT ![o.hot] = [@ EXCEPT ![Head(todo[p])[2]] = Head(todo[p])[3]]]
        /\ GoOn(p)
    BY <1>4, <2>1 DEF TierSetCommand
  <2>3. todo'[p] = Tail(todo[p])
    BY <1>2, <2>2 DEF GoOn
  <2>4. tiers[o.hot] \in Tier
    BY <1>2, <1>4 DEF PoolTypes
  <2>5. tiers'[o.hot] = [tiers[o.hot] EXCEPT ![Head(todo[p])[2]] = Head(todo[p])[3]]
    BY <1>2, <2>2 DEF PoolTypes
  <2>6. tiers'[o.hot] \in Tier
    <3> DEFINE st == Head(todo[p])
               t == tiers[o.hot]
    <3>1. t \in Tier /\ st \in StepType /\ st[1] = "tier-set"
      BY <1>1, <1>4, <2>4
    <3> HIDE DEF st, t
    <3>2. [t EXCEPT ![st[2]] = st[3]] \in Tier
      BY <3>1, TierUpdate
    <3> QED
      BY <2>5, <3>2 DEF st, t
  <2> QED
    BY <2>3, <2>4, <2>5, <2>6, BrokerRequestsAssumption
<1>5. ASSUME Head(todo[p])[1] = "tier-remove", tiers[o.hot] # None => ~tiers[o.hot].overlay
      PROVE  todo'[p] = Tail(todo[p]) /\ tiers'[o.hot] = None
  <2>1. TierRemoveCommand(p, FALSE)
    BY <1>5, Carries
  <2>2. tiers' = [tiers EXCEPT ![o.hot] = None] /\ GoOn(p)
    BY <1>5, <2>1 DEF TierRemoveCommand
  <2> QED
    BY <1>2, <2>2 DEF PoolTypes, GoOn
<1>6. ASSUME Head(todo[p])[1] = "flush" PROVE todo'[p] = Tail(todo[p])
  <2>1. FlushCommand(p, FALSE)
    BY <1>6, Carries
  <2> QED
    BY <1>2, <2>1 DEF FlushCommand, GoOn
<1>7. ASSUME Head(todo[p])[1] \in Commanding \ {"tier-add", "tier-set", "tier-remove"}
      PROVE  tiers' = tiers
  <2>1. Head(todo[p])[1] # "rename"
    BY <1>1 DEF Owned
  <2> QED
    BY <1>7, <2>1, Carries DEF AddToGroup, CreateCommand, SetCommand, DeleteCommand,
      ProfileCommand, FsNewCommand, FsAddCommand, AdminCommand, SnapshotCommand, FlushCommand,
      RemoveProfileCommand, AuthorizeCommand, CapsCommand, cluster, tiering, Commanding
<1> QED
  BY <1>3, <1>4, <1>5, <1>6, <1>7

\* The handler of a new tier either leaves it without its mode, for now, or sets
\* it.
LEMMA AddingStep ==
  ASSUME TypeInv, Counts, Quiet, NEW p \in Proxies, Handling(p), todo[p] # <<>>,
         NEW o, o = Op(p), o.op = "create-cache-tier", o.mode = "writeback",
         Adding(todo[p], o.hot)
  PROVE  Adding(todo[p], o.hot)' \/ (todo'[p] = <<>> /\ Unmoded(o.hot)' = {})
<1> DEFINE s == todo[p]
           st == Head(s)
           z == <<"tier-add">>
           U == BeforeAdd
           V == AfterAdd
           X == Caching
           h == o.hot
           there == tiers[h] # None
<1>1. /\ Outcome(p)
      /\ st[1] \in Commanding => Change(p, FALSE)
      /\ st[1] \notin Commanding => UNCHANGED cluster
  BY HandlingAt
<1>2. /\ st \in StepType /\ s \in Seq(StepType) /\ s # <<>> /\ todo \in [Proxies -> Seq(StepType)]
      /\ st \in StepsOf(o) /\ Owned(st, o)
  BY HeadAt DEF TypeInv, WorkTypes
<1>3. z \notin U /\ z \notin V
  BY DEF BeforeAdd, AfterAdd
<1>4. Unmoded(h) \subseteq X /\ Unmoded(h)' \subseteq X
  BY DEF Unmoded
<1>5. Good(s, there, Unmoded(h), z, U, V, X)
  BY DEF Adding
<1>6. CASE st[1] = "tier-add"
  <2>1. \/ todo'[p] = Tail(s) /\ tiers'[h] # None
        \/ todo'[p] = <<>> /\ tiers' = tiers
    BY <1>1, <1>6, TierCommands DEF Commanding
  <2>2. st = z
    BY <1>2, <1>6 DEF StepType
  <2>3. ASSUME tiers' = tiers PROVE Unmoded(h)' = Unmoded(h)
    BY <2>3 DEF Unmoded
  <2> DEFINE missing == Unmoded(h)
             left == Unmoded(h)'
  <2>8. Good(s, there, missing, z, U, V, X) /\ left \subseteq X /\ there \in BOOLEAN
    BY <1>4, <1>5
  <2> HIDE DEF s, st, z, U, V, X, missing, left
  <2>9. /\ Good(Tail(s), TRUE, left, z, U, V, X)
        /\ ~there \/ missing = {}
    <3>1. s \in Seq(StepType) /\ s # <<>> /\ Head(s) = z
      BY <1>2, <2>2 DEF st
    <3> QED
      BY <1>3, <2>8, <3>1, GoodMade
  <2>4. /\ Good(Tail(s), TRUE, Unmoded(h)', z, U, V, X)
        /\ ~there \/ Unmoded(h) = {}
    BY <2>9 DEF missing, left
  <2>5. Unmoded(h) = {}
    BY <2>4 DEF Unmoded
  <2>6. CASE todo'[p] = Tail(s) /\ tiers'[h] # None
    BY <2>4, <2>6 DEF Adding, z, U, V, X
  <2>7. CASE ~(todo'[p] = Tail(s) /\ tiers'[h] # None)
    <3>1. todo'[p] = <<>> /\ tiers' = tiers
      BY <2>1, <2>7
    <3> QED
      BY <2>3, <2>5, <3>1
  <2> QED
    BY <2>6, <2>7
<1>7. CASE st[1] = "tier-set"
  <2>1. there
    <3>1. st \notin U /\ st # z
      BY <1>7 DEF BeforeAdd
    <3> HIDE DEF s, st, z, U, V, X
    <3> QED
      BY <1>2, <1>3, <1>5, <3>1, GoodThere DEF st
  <2>2. /\ todo'[p] = Tail(s)
        /\ tiers'[h] = [tiers[h] EXCEPT ![st[2]] = st[3]]
        /\ tiers[h] \in Tier /\ tiers'[h] # None
    BY <1>1, <1>7, <2>1, TierCommands DEF Commanding
  <2>3. st[2] = "mode" => st[3] = "writeback"
    BY <1>2, <1>7 DEF StepsOf, Final
  <2>4. tiers'[h].mode = IF st[2] = "mode" THEN "writeback" ELSE tiers[h].mode
    <3> HIDE DEF st
    <3> QED
      BY <2>2, <2>3 DEF Tier
  <2>5. Unmoded(h)' \subseteq Unmoded(h) /\ st \notin Unmoded(h)'
    <3>1. CASE st[2] = "mode"
      BY <2>4, <3>1 DEF Unmoded
    <3>2. CASE st[2] # "mode"
      <4>1. st \notin Caching
        BY <3>2 DEF Caching
      <4>2. Unmoded(h)' = Unmoded(h)
        BY <2>1, <2>2, <2>4, <3>2 DEF Unmoded
      <4> QED
        BY <1>4, <4>1, <4>2
    <3> QED
      BY <3>1, <3>2
  <2>6. st # z
    BY <1>7
  <2> HIDE DEF s, st, z, U, V, X
  <2>7. Good(Tail(s), there, Unmoded(h)', z, U, V, X)
    BY <1>2, <1>3, <1>5, <2>5, <2>6, GoodTail DEF st
  <2> QED
    BY <2>1, <2>2, <2>7 DEF Adding, z, U, V, X, there
<1>8. CASE st[1] \notin {"tier-add", "tier-set"}
  <2>1. tiers' = tiers
    <3>1. st[1] # "tier-remove"
      BY <1>2 DEF Owned
    <3> QED
      BY <1>1, <1>8, <3>1, TierCommands DEF cluster, tiering
  <2>2. Unmoded(h)' = Unmoded(h) /\ there' = there
    BY <2>1 DEF Unmoded
  <2>3. CASE todo'[p] = Tail(s)
    <3>1. st # z /\ st \notin Unmoded(h)
      BY <1>4, <1>8 DEF Caching
    <3> HIDE DEF s, st, z, U, V, X
    <3>2. Good(Tail(s), there, Unmoded(h), z, U, V, X)
      BY <1>2, <1>3, <1>5, <3>1, GoodTail DEF st
    <3> QED
      BY <2>2, <2>3, <3>2 DEF Adding, z, U, V, X
  <2>4. CASE todo'[p] # Tail(s)
    <3>1. st \notin V
      BY <1>8 DEF AfterAdd
    <3>2. ~there \/ Unmoded(h) = {}
      <4> HIDE DEF s, st, z, U, V, X
      <4> QED
        BY <1>2, <1>5, <3>1, GoodSound DEF st
    <3>3. Unmoded(h) = {}
      BY <3>2 DEF Unmoded
    <3>4. todo'[p] = <<>>
      BY <1>1, <1>2, <2>4 DEF Outcome, GoOn, Raises, Answer
    <3> QED
      BY <2>2, <3>3, <3>4
  <2> QED
    BY <2>3, <2>4
<1> QED
  BY <1>6, <1>7, <1>8

\* A look at the pools of a tier or at its mode.
LEMMA RemovalLooks ==
  ASSUME TypeInv, Counts, Quiet, NEW p \in Proxies, Handling(p), todo[p] # <<>>,
         NEW o, o = Op(p), o.op = "remove-cache-tier", Head(todo[p])[1] \in TierLooks,
         Unmoded(o.hot) = {}
  PROVE  /\ UNCHANGED cluster
         /\ \/ todo'[p] \in {<<>>, Tail(todo[p])}
            \/ todo'[p] = RemoveCacheTier("writeback") /\ tiers[o.hot] # None
<1> USE DEF TypeInv
<1>1. Head(todo[p])[1] \notin Commanding
  BY DEF TierLooks, Commanding
<1>2. Outcome(p) /\ UNCHANGED cluster
  BY <1>1, HandlingAt
<1>3. todo \in [Proxies -> Seq(StepType)]
  BY DEF WorkTypes
<1>4. CASE Head(todo[p])[1] # "tier-mode"
  <2>1. todo'[p] \in {<<>>, Tail(todo[p])}
    BY <1>2, <1>3, <1>4 DEF Outcome, GoOn, Raises, Answer
  <2> QED
    BY <1>2, <2>1
<1>5. CASE Head(todo[p])[1] = "tier-mode"
  <2>1. PICK fault \in BOOLEAN : Look(p, fault)
    BY <1>5, HandlingAt
  <2>2. LookAtMode(p, fault)
    BY <1>5, <2>1, Observes
  <2>3. todo'[p] \in {<<>>, RemoveCacheTier(CacheMode(o.hot))}
    BY <1>3, <2>2 DEF LookAtMode, Raises, Answer, Skip
  <2>4. CASE tiers[o.hot] = None
    <3>1. RemoveCacheTier(CacheMode(o.hot)) = <<>>
      BY <2>4 DEF CacheMode, RemoveCacheTier
    <3> QED
      BY <1>2, <2>3, <3>1
  <2>5. CASE tiers[o.hot] # None
    <3>1. CacheMode(o.hot) = "writeback"
      BY <2>5 DEF Unmoded, Caching, CacheMode
    <3> QED
      BY <1>2, <2>3, <2>5, <3>1
  <2> QED
    BY <2>4, <2>5
<1> QED
  BY <1>2, <1>4, <1>5

\* The steps of a removal, one after the other.
LEMMA RemovalTails ==
  LET s == RemoveCacheTier("writeback")
  IN  /\ s # <<>> /\ Head(s) = <<"tier-set", "mode", "forward">>
      /\ Tail(s) # <<>> /\ Head(Tail(s)) = <<"flush">>
      /\ Tail(Tail(s)) = <<Unhook, <<"tier-remove">>>>
      /\ Tail(<<Unhook, <<"tier-remove">>>>) = <<<<"tier-remove">>>>
      /\ Head(<<Unhook, <<"tier-remove">>>>) = Unhook
      /\ Head(<<<<"tier-remove">>>>) = <<"tier-remove">>
      /\ Tail(<<<<"tier-remove">>>>) = <<>>
<1>1. RemoveCacheTier("writeback") =
        <<<<"tier-set", "mode", "forward">>, <<"flush">>, Unhook, <<"tier-remove">>>>
  BY DEF RemoveCacheTier, Unhook
<1>2. ASSUME NEW a, NEW b, NEW c, NEW d, NEW w, w = <<a, b, c, d>>
      PROVE  /\ w # <<>> /\ Head(w) = a
             /\ Tail(w) # <<>> /\ Head(Tail(w)) = b /\ Tail(Tail(w)) = <<c, d>>
             /\ Tail(<<c, d>>) = <<d>> /\ Head(<<c, d>>) = c
             /\ Head(<<d>>) = d /\ Tail(<<d>>) = <<>>
  BY <1>2
<1> DEFINE w == RemoveCacheTier("writeback")
           a == <<"tier-set", "mode", "forward">>
           b == <<"flush">>
           d == <<"tier-remove">>
<1>3. w = <<a, b, Unhook, d>>
  BY <1>1
<1> HIDE DEF w, a, b, d
<1>4. /\ w # <<>> /\ Head(w) = a
      /\ Tail(w) # <<>> /\ Head(Tail(w)) = b /\ Tail(Tail(w)) = <<Unhook, d>>
      /\ Tail(<<Unhook, d>>) = <<d>> /\ Head(<<Unhook, d>>) = Unhook
      /\ Head(<<d>>) = d /\ Tail(<<d>>) = <<>>
  BY <1>2, <1>3
<1> QED
  BY <1>4 DEF w, a, b, d

LEMMA UnhookIs == Unhook[1] = "tier-set" /\ Unhook[2] = "overlay" /\ Unhook[3] = FALSE
BY Zenon DEF Unhook

\* The handler that removes a tier takes it through its states in turn.
LEMMA RemovingStep ==
  ASSUME TypeInv, Counts, Quiet, NEW p \in Proxies, Handling(p), todo[p] # <<>>,
         NEW o, o = Op(p), o.op = "remove-cache-tier", Removing(todo[p], o.hot)
  PROVE  /\ Removing(todo[p], o.hot)'
         /\ todo'[p] = <<>> => Unmoded(o.hot)' = {}
<1> DEFINE s == todo[p]
           h == o.hot
<1>1. /\ Outcome(p)
      /\ Head(s)[1] \in Commanding => Change(p, FALSE)
  BY HandlingAt
<1>2. s \in Seq(StepType) /\ s # <<>> /\ h \in Pools /\ PoolTypes
  BY HeadAt, OpFields DEF TypeInv, WorkTypes, PoolTypes
<1>3. CASE (\A k \in 1 .. Len(s) : s[k][1] \in TierLooks) /\ Unmoded(h) = {}
  <2>1. Head(s)[1] \in TierLooks /\ \A k \in 1 .. Len(Tail(s)) : Tail(s)[k][1] \in TierLooks
    <3> HIDE DEF s, h
    <3>1. Head(s) = s[1] /\ 1 \in 1 .. Len(s)
          /\ \A k \in 1 .. Len(Tail(s)) : k + 1 \in 1 .. Len(s) /\ Tail(s)[k] = s[k + 1]
      BY <1>2
    <3> QED
      BY <1>3, <3>1
  <2>2. /\ UNCHANGED cluster
        /\ \/ todo'[p] \in {<<>>, Tail(s)}
           \/ todo'[p] = RemoveCacheTier("writeback") /\ tiers[h] # None
    BY <1>3, <2>1, RemovalLooks
  <2>3. tiers' = tiers
    BY <2>2 DEF cluster, tiering
  <2>4. Unmoded(h)' = {}
    BY <1>3, <2>3 DEF Unmoded
  <2>5. CASE todo'[p] = <<>>
    BY <2>4, <2>5 DEF Removing
  <2>6. CASE todo'[p] = Tail(s)
    BY <2>1, <2>4, <2>6 DEF Removing
  <2>7. CASE todo'[p] = RemoveCacheTier("writeback") /\ tiers[h] # None
    BY <2>3, <2>4, <2>7 DEF Removing
  <2> QED
    BY <2>2, <2>5, <2>6, <2>7
<1>4. CASE s = RemoveCacheTier("writeback") /\ tiers[h] # None
  <2> DEFINE w == RemoveCacheTier("writeback")
  <2>1. Head(s)[1] = "tier-set" /\ Tail(s) # <<>>
    <3>1. Head(w) = <<"tier-set", "mode", "forward">> /\ Tail(w) # <<>> /\ s = w
      BY <1>4, RemovalTails
    <3> HIDE DEF s, w
    <3> QED
      BY <3>1
  <2>2. todo'[p] = Tail(s) /\ tiers'[h] # None
    BY <1>1, <1>4, <2>1, TierCommands DEF Commanding
  <2> QED
    BY <1>4, <2>1, <2>2 DEF Removing
<1>5. CASE s = Tail(RemoveCacheTier("writeback")) /\ tiers[h] # None
  <2> DEFINE w == Tail(RemoveCacheTier("writeback"))
  <2>1. Head(s)[1] = "flush" /\ Tail(s) = <<Unhook, <<"tier-remove">>>>
    <3>1. Head(w) = <<"flush">> /\ Tail(w) = <<Unhook, <<"tier-remove">>>> /\ s = w
      BY <1>5, RemovalTails
    <3> HIDE DEF s, w
    <3> QED
      BY <3>1
  <2>2. todo'[p] = Tail(s) /\ tiers' = tiers
    BY <1>1, <2>1, TierCommands DEF Commanding
  <2> QED
    BY <1>5, <2>1, <2>2 DEF Removing
<1>6. CASE s = <<Unhook, <<"tier-remove">>>> /\ tiers[h] # None
  <2>1. Head(s) = Unhook /\ Tail(s) = <<<<"tier-remove">>>>
    BY <1>6, RemovalTails
  <2>5. Head(s)[1] = "tier-set" /\ Head(s)[2] = "overlay" /\ Head(s)[3] = FALSE
    BY <2>1, UnhookIs
  <2>2. /\ todo'[p] = Tail(s) /\ tiers'[h] # None /\ tiers[h] \in Tier
        /\ tiers'[h] = [tiers[h] EXCEPT ![Head(s)[2]] = Head(s)[3]]
    <3>1. Head(s)[1] \in Commanding
      BY <2>5 DEF Commanding
    <3> HIDE DEF s
    <3> QED
      BY <1>1, <1>6, <2>5, <3>1, TierCommands DEF s
  <2>3. tiers'[h] = [tiers[h] EXCEPT !.overlay = FALSE]
    <3> HIDE DEF s, h
    <3> QED
      BY <2>2, <2>5
  <2>4. ~tiers'[h].overlay
    BY <2>2, <2>3 DEF Tier
  <2>6. todo'[p] = <<<<"tier-remove">>>> /\ tiers'[h] # None /\ ~tiers'[h].overlay
    BY <2>1, <2>2, <2>4
  <2>7. Removing(todo[p], h)'
    BY <2>6, Zenon DEF Removing
  <2> QED
    BY <2>6, <2>7
<1>7. CASE s = <<<<"tier-remove">>>> /\ tiers[h] # None /\ ~tiers[h].overlay
  <2>1. Head(s)[1] = "tier-remove" /\ Tail(s) = <<>>
    BY <1>7, RemovalTails
  <2>2. todo'[p] = Tail(s) /\ tiers'[h] = None
    BY <1>1, <1>7, <2>1, TierCommands DEF Commanding
  <2>3. Unmoded(h)' = {}
    BY <2>2 DEF Unmoded
  <2>4. todo'[p] = <<>>
    BY <2>1, <2>2
  <2>5. Removing(todo[p], h)'
    BY <2>3, <2>4 DEF Removing
  <2> QED
    BY <2>3, <2>5
<1> QED
  BY <1>3, <1>4, <1>5, <1>6, <1>7 DEF Removing

LEMMA HotStep ==
  ASSUME TypeInv, Counts, Quiet, NEW p \in Proxies, Handling(p),
         NEW r \in Requests, NEW i \in Settled[r], Ops[r][i].op = "remove-cache-tier",
         NEW h, h = Ops[r][i].hot, HotState(p, h)
  PROVE  HotState(p, h)'
<1>1. todo[p] # <<>> /\ Outcome(p)
  BY HandlingAt
<1>2. Ops[r][i] \in OpType /\ h \in Pools
  BY SettledOp, OpFields
<1>3. /\ Op(p).op = "create-cache-tier" /\ Op(p).hot = h => Op(p).mode = "writeback"
      /\ Op(p).op = "rename-pool" => h \notin {Op(p).pool, Op(p).to}
  <2>1. req[p] \in Requests /\ pos[p] \in DOMAIN Ops[req[p]]
    BY <1>1, AtOp DEF TypeInv
  <2> QED
    BY <2>1 DEF Settled, Steady, Op
<1>4. \A oq : oq = Op(p) /\ todo'[p] # <<>> => Op(p)' = oq
  BY <1>1, Stays
<1>5. PICK oq : oq = Op(p)
  OBVIOUS
<1>6. CASE oq.op = "create-cache-tier" /\ oq.hot = h
  <2>1. Adding(todo[p], h)
    BY <1>1, <1>5, <1>6 DEF HotState
  <2>2. Adding(todo[p], h)' \/ (todo'[p] = <<>> /\ Unmoded(h)' = {})
    BY <1>1, <1>3, <1>5, <1>6, <2>1, AddingStep
  <2>3. CASE todo'[p] = <<>>
    <3>1. ASSUME Adding(todo[p], h)' PROVE Unmoded(h)' = {}
      <4>1. Good(<<>>, tiers'[h] # None, Unmoded(h)', <<"tier-add">>, BeforeAdd, AfterAdd, Caching)
        BY <2>3, <3>1 DEF Adding
      <4> QED
        BY <4>1, GoodEnd
    <3> QED
      BY <2>2, <2>3, <3>1 DEF HotState
  <2>4. CASE todo'[p] # <<>>
    BY <1>4, <1>5, <1>6, <2>2, <2>4 DEF HotState
  <2> QED
    BY <2>3, <2>4
<1>7. CASE oq.op = "remove-cache-tier" /\ oq.hot = h
  <2>1. Removing(todo[p], h)
    BY <1>1, <1>5, <1>7 DEF HotState
  <2>2. Removing(todo[p], h)' /\ (todo'[p] = <<>> => Unmoded(h)' = {})
    BY <1>1, <1>5, <1>7, <2>1, RemovingStep
  <2> QED
    BY <1>4, <1>5, <1>7, <2>2 DEF HotState
<1>8. CASE oq.op \in {"create-cache-tier", "remove-cache-tier"} => oq.hot # h
  <2>1. Unmoded(h) = {}
    BY <1>5, <1>8 DEF HotState
  <2>2. Unmoded(h)' = {}
    <3>1. CASE Head(todo[p])[1] \in Commanding
      <4>1. Change(p, FALSE)
        BY <3>1, HandlingAt
      <4>2. /\ tiers'[h] = None <=> tiers[h] = None
            /\ tiers[h] # None => tiers'[h].mode = tiers[h].mode
        BY <1>2, <1>3, <1>5, <1>8, <4>1, TierFrame
      <4> QED
        BY <2>1, <4>2 DEF Unmoded, Caching
    <3>2. CASE Head(todo[p])[1] \notin Commanding
      <4>1. tiers' = tiers
        BY <3>2, HandlingAt DEF cluster, tiering
      <4> QED
        BY <2>1, <4>1 DEF Unmoded
    <3> QED
      BY <3>1, <3>2
  <2>3. todo'[p] = <<>> \/ Op(p)' = oq
    BY <1>4, <1>5
  <2> QED
    BY <1>8, <2>2, <2>3 DEF HotState
<1> QED
  BY <1>6, <1>7, <1>8

LEMMA TailLast ==
  ASSUME NEW T, NEW s \in Seq(T), s # <<>>
  PROVE  /\ Tail(s) # <<>> => Tail(s)[Len(Tail(s))] = s[Len(s)]
         /\ Tail(s) = <<>> => s[Len(s)] = Head(s)
<1> DEFINE t == Tail(s)
<1>1. Len(s) \in Nat /\ Len(s) >= 1 /\ t \in Seq(T) /\ Len(t) = Len(s) - 1
  OBVIOUS
<1>2. \A i \in 1 .. Len(t) : t[i] = s[i + 1]
  OBVIOUS
<1>3. Head(s) = s[1]
  OBVIOUS
<1>4. t # <<>> => Len(t) >= 1
  OBVIOUS
<1> HIDE DEF t
<1>5. t = <<>> => Len(t) = 0
  <2>1. Len(<<>>) = 0
    OBVIOUS
  <2> QED
    BY <2>1
<1>6. ASSUME t # <<>> PROVE t[Len(t)] = s[Len(s)]
  <2>1. Len(t) \in 1 .. Len(t) /\ Len(t) + 1 = Len(s)
    BY <1>1, <1>4, <1>6
  <2> QED
    BY <1>2, <2>1
<1>7. ASSUME t = <<>> PROVE s[Len(s)] = Head(s)
  <2>1. Len(s) = 1
    BY <1>1, <1>5, <1>7
  <2> QED
    BY <1>3, <2>1
<1> QED
  BY <1>6, <1>7 DEF t

LEMMA LastOf ==
  ASSUME NEW a, NEW b, NEW c, NEW d
  PROVE  /\ Len(<<a>>) = 1 /\ <<a>>[1] = a /\ <<a>> # <<>>
         /\ Len(<<a, b>>) = 2 /\ <<a, b>>[2] = b /\ <<a, b>> # <<>>
         /\ Len(<<a, b, c>>) = 3 /\ <<a, b, c>>[3] = c /\ <<a, b, c>> # <<>>
         /\ Len(<<a, b, c, d>>) = 4 /\ <<a, b, c, d>>[4] = d /\ <<a, b, c, d>> # <<>>
OBVIOUS

\* The last step of a sequence that ends with x.
LEMMA LastJoined ==
  ASSUME NEW T, NEW A \in Seq(T), NEW x \in T, NEW s, s = A \o <<x>>
  PROVE  s # <<>> /\ s[Len(s)] = x
OBVIOUS

\* Before a removal has looked at the mode of the tier it only looks.
LEMMA RemovalPlan ==
  ASSUME NEW o \in OpType, o.op = "remove-cache-tier", NEW s \in {Plan(o), ActionPlan(o)}
  PROVE  /\ \A k \in 1 .. Len(s) : s[k][1] \in TierLooks
         /\ s # <<>> /\ s[Len(s)] = <<"tier-mode">>
<1> DEFINE U == {st \in StepType : st[1] \in TierLooks}
           x == <<"tier-mode">>
<1>1. o.cold \in Pools /\ o.hot \in Pools
  BY OpFields
<1>2. PICK step \in {"tier-pool", "preflight"} : s = TierPools(step, o) \o <<x>>
  BY DEF Plan, ActionPlan
<1> DEFINE a == TierPools(step, o)
<1>3. \A y \in Pools : <<step, y>> \in U
  BY DEF StepType, TierLooks
<1>4. <<o.cold, o.hot>> \in Seq(Pools)
  BY <1>1
<1>5. a \in Seq(U)
  <2> HIDE DEF U
  <2> QED
    BY <1>3, <1>4, EachStep DEF TierPools
<1>6. x \in U
  BY DEF StepType, TierLooks
<1>7. \A st \in U : st[1] \in TierLooks
  OBVIOUS
<1> HIDE DEF U, x, a
<1>8. a \o <<x>> \in Seq(U)
  BY <1>5, <1>6
<1>9. \A k \in 1 .. Len(s) : s[k] \in U
  BY <1>2, <1>8, Elements DEF a
<1>10. s # <<>> /\ s[Len(s)] = x
  BY <1>2, <1>5, <1>6, LastJoined DEF a
<1> QED
  BY <1>7, <1>9, <1>10 DEF x

\* A handler ends with the step that brings its operation about.
LEMMA PlanCloses ==
  ASSUME NEW o \in OpType, NEW s,
         (s = Plan(o) /\ o.op # "delete-erasure-profile") \/ s = ActionPlan(o),
         o.op # "create-pool"
  PROVE  s # <<>> /\ s[Len(s)] \in Closing(o)
<1>1. s \in Seq(StepsOf(o))
  BY PlanSteps
<1>2. \A k \in 1 .. Len(s) : s[k] \in StepType
  BY <1>1 DEF StepsOf
<1>3. s # <<>> => s[Len(s)] \in StepType
  <2>1. s # <<>> => Len(s) \in 1 .. Len(s)
    BY <1>1
  <2> QED
    BY <1>2, <2>1
<1>4. CASE o.op = "remove-cache-tier"
  BY <1>4, RemovalPlan DEF Closing, ActionPlan
<1>5. CASE o.op = "create-erasure-profile"
  <2>1. Tail(ErasureProfilePlan) = <<<<"no-profile">>, <<"validate">>, <<"set-profile">>>>
    BY DEF ErasureProfilePlan
  <2>2. \/ s = <<<<"params">>, <<"no-profile">>, <<"validate">>, <<"set-profile">>>>
        \/ s = <<<<"no-profile">>, <<"validate">>, <<"set-profile">>>>
    BY <1>5, <2>1 DEF Plan, ActionPlan, ErasureProfilePlan
  <2> DEFINE a == <<"params">>
             b == <<"no-profile">>
             c == <<"validate">>
             d == <<"set-profile">>
  <2>3. d \in Closing(o)
    BY <1>5 DEF Closing
  <2>4. s = <<a, b, c, d>> \/ s = <<b, c, d>>
    BY <2>2
  <2> HIDE DEF a, b, c, d
  <2>5. ASSUME s = <<a, b, c, d>> PROVE s # <<>> /\ s[Len(s)] = d
    <3>1. Len(s) = 4 /\ s[4] = d /\ s # <<>>
      BY ONLY <2>5, LastOf
    <3> QED
      BY ONLY <3>1
  <2>6. ASSUME s = <<b, c, d>> PROVE s # <<>> /\ s[Len(s)] = d
    <3>1. Len(s) = 3 /\ s[3] = d /\ s # <<>>
      BY ONLY <2>6, LastOf
    <3> QED
      BY ONLY <3>1
  <2> QED
    BY <2>3, <2>4, <2>5, <2>6
<1>6. CASE o.op = "delete-pool"
  <2>1. s = <<<<"delete">>>>
    BY <1>6 DEF Plan, ActionPlan
  <2> QED
    BY <1>6, <2>1 DEF Closing
<1>7. CASE o.op = "rename-pool"
  <2>1. s = <<<<"rename">>>>
    BY <1>7 DEF Plan, ActionPlan
  <2> QED
    BY <1>7, <2>1 DEF Closing
<1>8. CASE o.op = "set-pool-value"
  <2>1. s \in {<<<<"params">>, <<"validate">>, <<"set", o.key>>>>, <<<<"set", o.key>>>>}
    BY <1>8 DEF Plan, ActionPlan, SetPoolValuePlan
  <2> DEFINE a == <<"params">>
             b == <<"validate">>
             c == <<"set", o.key>>
  <2>2. c \in Closing(o)
    BY <1>8 DEF Closing
  <2>3. s = <<a, b, c>> \/ s = <<c>>
    BY <2>1
  <2> HIDE DEF a, b, c
  <2> QED
    BY <2>2, <2>3, LastOf
<1>9. CASE o.op = "create-cephfs-client"
  <2>1. s = <<<<"params">>, <<"no-client">>, <<"authorize">>>>
    BY <1>9 DEF Plan, ActionPlan
  <2> QED
    BY <1>9, <2>1 DEF Closing
<1>10. CASE o.op = "set-key-permissions"
  <2>1. s = <<<<"caps">>>>
    BY <1>10 DEF Plan, ActionPlan
  <2> QED
    BY <1>10, <2>1 DEF Closing
<1>11. CASE o.op = "delete-erasure-profile"
  <2>1. s = <<<<"remove-profile">>>>
    BY <1>11 DEF ActionPlan
  <2> QED
    BY <1>11, <2>1 DEF Closing
<1>12. CASE o.op = "snapshot-pool"
  <2> DEFINE x == <<"snapshot", TRUE>>
  <2>1. s = <<x>> /\ x \in Closing(o)
    BY <1>12, Zenon DEF Plan, ActionPlan, Closing
  <2> HIDE DEF x
  <2> QED
    BY <2>1
<1>13. CASE o.op = "remove-pool-snapshot"
  <2> DEFINE x == <<"snapshot", FALSE>>
  <2>1. s = <<x>> /\ x \in Closing(o)
    BY <1>13, Zenon DEF Plan, ActionPlan, Closing
  <2> HIDE DEF x
  <2> QED
    BY <2>1
<1>14. CASE o.op = "create-cephfs"
  <2>1. Split(s, <<"fs-new">>, BeforeNew, AfterNew, Members(o))
    BY <1>14, PlanFounds
  <2>2. s # <<>>
    BY <2>1 DEF Split
  <2> QED
    BY <1>3, <1>14, <2>2 DEF Closing
<1>15. CASE o.op = "create-cache-tier"
  <2>1. PICK step \in {"tier-pool", "preflight"} : s = TierPools(step, o) \o AddCacheTier(o)
    BY <1>15 DEF Plan, ActionPlan
  <2>2. Len(AddCacheTier(o)) = 5
    BY DEF AddCacheTier
  <2>3. TierPools(step, o) \in Seq(StepsOf(o)) /\ AddCacheTier(o) \in Seq(StepsOf(o))
    BY <1>15, TierSteps
  <2>4. Len(s) = Len(TierPools(step, o)) + 5
    BY <2>1, <2>2, <2>3, JoinedLen
  <2>5. s # <<>>
    <3>1. Len(TierPools(step, o)) \in Nat /\ Len(<<>>) = 0
      BY <2>3
    <3> QED
      BY <2>4, <3>1
  <2> QED
    BY <1>3, <1>15, <2>5 DEF Closing
<1>16. CASE o.op \in {"rgw", "move-osd-to-bucket", "unknown"}
  <2> DEFINE a == <<"params">>
             b == <<"crushmap">>
             c == <<"admin">>
  <2>1. s = <<a, b>> \/ s = <<a, c>>
    BY <1>16 DEF Plan, ActionPlan
  <2> HIDE DEF a, b, c
  <2>2. s # <<>>
    BY <2>1, LastOf
  <2> QED
    BY <1>3, <1>16, <2>2 DEF Closing
<1> QED
  BY <1>4, <1>5, <1>6, <1>7, <1>8, <1>9, <1>10, <1>11, <1>12, <1>13, <1>14, <1>15, <1>16, OpFields

\* At the look at its mode a tier that is to be removed has none, or there is no
\* tier.
LEMMA AtMode ==
  ASSUME NEW s \in Seq(StepType), s # <<>>, NEW h, Removing(s, h), Head(s)[1] = "tier-mode"
  PROVE  Unmoded(h) = {}
<1> DEFINE w == RemoveCacheTier("writeback")
           u == <<Unhook, <<"tier-remove">>>>
           d == <<<<"tier-remove">>>>
<1>1. Head(w)[1] = "tier-set" /\ Head(Tail(w))[1] = "flush" /\ Head(u)[1] = "tier-set"
      /\ Head(d)[1] = "tier-remove"
  BY RemovalTails, UnhookIs
<1>2. s # w /\ s # Tail(w) /\ s # u /\ s # d
  BY <1>1
<1> QED
  BY <1>2 DEF Removing

\* Where it leads.
LEMMA ModeEnds ==
  ASSUME TypeInv, Counts, Quiet, NEW p \in Proxies, Handling(p), todo[p] # <<>>,
         NEW o, o = Op(p), o.op = "remove-cache-tier", Head(todo[p])[1] = "tier-mode",
         ~Raises(p), Unmoded(o.hot) = {}
  PROVE  /\ UNCHANGED cluster
         /\ \/ todo'[p] = <<>> /\ tiers[o.hot] = None
            \/ todo'[p] = RemoveCacheTier("writeback")
<1>1. UNCHANGED cluster
  BY HandlingAt DEF Commanding
<1>2. PICK fault \in BOOLEAN : Look(p, fault)
  BY HandlingAt
<1>3. LookAtMode(p, fault)
  BY <1>2, Observes
<1>4. todo \in [Proxies -> Seq(StepType)]
  BY DEF TypeInv, WorkTypes
<1>5. todo'[p] = RemoveCacheTier(CacheMode(o.hot))
  BY <1>3, <1>4 DEF LookAtMode, Skip
<1>6. CASE tiers[o.hot] = None
  BY <1>1, <1>5, <1>6 DEF CacheMode, RemoveCacheTier
<1>7. CASE tiers[o.hot] # None
  <2>1. CacheMode(o.hot) = "writeback"
    BY <1>7 DEF Unmoded, Caching, CacheMode
  <2> QED
    BY <1>1, <1>5, <2>1
<1> QED
  BY <1>6, <1>7

\* A command that does not fail leaves the rest of the handler to do.
LEMMA GoesOn ==
  ASSUME TypeInv, NEW p \in Proxies, todo[p] # <<>>, Change(p, FALSE),
         Op(p).op # "create-cephfs", ~Raises(p), pos[p] \notin failed'[p]
  PROVE  todo'[p] = Tail(todo[p])
<1> USE DEF TypeInv
<1>1. \A v : ~Returns(p, v)
  BY DEF Returns, WorkTypes, RunTypes
<1>2. Owned(Head(todo[p]), Op(p))
  BY HeadAt
<1>3. Head(todo[p])[1] \notin {"fs-new", "fs-add"}
  BY <1>2 DEF Owned
<1>4. SUFFICES GoOn(p)
  BY DEF GoOn, WorkTypes
<1>5. CASE AddToGroup(p, FALSE) \/ CreateCommand(p, FALSE) \/ SetCommand(p, FALSE)
           \/ DeleteCommand(p, FALSE)
  BY <1>5 DEF AddToGroup, CreateCommand, SetCommand, DeleteCommand
<1>6. CASE RenameCommand(p, FALSE)
  BY <1>6 DEF RenameCommand
<1>7. CASE ProfileCommand(p, FALSE) \/ AdminCommand(p, FALSE) \/ SnapshotCommand(p, FALSE)
           \/ TierAddCommand(p, FALSE)
  BY <1>7 DEF ProfileCommand, AdminCommand, SnapshotCommand, TierAddCommand
<1>8. CASE TierSetCommand(p, FALSE)
  BY <1>8 DEF TierSetCommand
<1>9. CASE FlushCommand(p, FALSE) \/ TierRemoveCommand(p, FALSE)
           \/ RemoveProfileCommand(p, FALSE)
  BY <1>9 DEF FlushCommand, TierRemoveCommand, RemoveProfileCommand
<1>10. CASE AuthorizeCommand(p, FALSE) \/ CapsCommand(p, FALSE)
  BY <1>1, <1>10 DEF AuthorizeCommand, CapsCommand
<1> QED
  BY <1>3, <1>5, <1>6, <1>7, <1>8, <1>9, <1>10, Carries

\* The step that brings an operation about is a command, but for the look at the
\* mode of a tier.
LEMMA ClosingSteps ==
  ASSUME NEW o \in OpType, NEW st \in Closing(o),
         o.op \notin {"create-pool", "create-cephfs", "create-cache-tier", "rgw",
                      "move-osd-to-bucket", "unknown"}
  PROVE  \/ st[1] \in Commanding
         \/ st = <<"tier-mode">> /\ o.op = "remove-cache-tier"
<1>1. CASE o.op \in {"snapshot-pool", "remove-pool-snapshot"}
  <2>1. st = <<"snapshot", TRUE>> \/ st = <<"snapshot", FALSE>>
    BY <1>1, Zenon DEF Closing
  <2>2. ASSUME NEW b, st = <<"snapshot", b>> PROVE st[1] = "snapshot"
    BY ONLY <2>2
  <2>3. st[1] = "snapshot"
    BY <2>1, <2>2, Zenon
  <2> QED
    BY <2>3 DEF Commanding
<1>2. CASE o.op = "set-pool-value"
  BY <1>2 DEF Closing, Commanding
<1>3. CASE o.op = "remove-cache-tier"
  BY <1>3 DEF Closing, Commanding
<1>4. CASE o.op = "create-erasure-profile"
  <2>1. st = <<"set-profile">>
    BY <1>4 DEF Closing
  <2> QED
    BY <2>1 DEF Commanding
<1>5. CASE o.op = "delete-pool"
  <2>1. st = <<"delete">>
    BY <1>5 DEF Closing
  <2> QED
    BY <2>1 DEF Commanding
<1>6. CASE o.op = "rename-pool"
  <2>1. st = <<"rename">>
    BY <1>6 DEF Closing
  <2> QED
    BY <2>1 DEF Commanding
<1>7. CASE o.op = "create-cephfs-client"
  <2>1. st = <<"authorize">>
    BY <1>7 DEF Closing
  <2> QED
    BY <2>1 DEF Commanding
<1>8. CASE o.op = "set-key-permissions"
  <2>1. st = <<"caps">>
    BY <1>8 DEF Closing
  <2> QED
    BY <2>1 DEF Commanding
<1>9. CASE o.op = "delete-erasure-profile"
  <2>1. st = <<"remove-profile">>
    BY <1>9 DEF Closing
  <2> QED
    BY <2>1 DEF Commanding
<1> QED
  BY <1>1, <1>2, <1>3, <1>4, <1>5, <1>6, <1>7, <1>8, <1>9, OpFields

\* The work of an operation is found done, or its handler goes on to the step that
\* does it; and when that is taken it is done.
LEMMA EndsWell ==
  ASSUME TypeInv, TypeInv', RestTypes, RestTypes', Counts, Quiet, NEW p \in Proxies, Handling(p),
         NEW o, o = Op(p), ~Raises(p), pos[p] \notin failed'[p],
         todo[p][Len(todo[p])] \in Closing(o),
         o.op = "create-cephfs" => Founding(todo[p], o),
         o.op = "remove-cache-tier" => Removing(todo[p], o.hot)
  PROVE  IF todo'[p] = <<>> THEN Kept(o)' ELSE todo'[p][Len(todo'[p])] \in Closing(o)
<1> DEFINE s == todo[p]
           t == todo'[p]
<1>1. /\ s # <<>> /\ Outcome(p)
      /\ Head(s)[1] \in Commanding => Change(p, FALSE)
  BY HandlingAt
<1>2. s \in Seq(StepType) /\ t \in Seq(StepType) /\ o \in OpType /\ Owned(Head(s), o)
  BY <1>1, HeadAt DEF TypeInv, WorkTypes
<1>3. Kept(o)' <=> (CASE o.op \in {"create-pool", "create-cache-tier"} -> TRUE
                      [] o.op = "create-cephfs" -> filesystems'[o.fs] # None
                      [] OTHER -> Done(o)')
  BY DEF Kept
<1>4. CASE o.op \in {"create-pool", "create-cache-tier", "create-cephfs", "rgw",
                     "move-osd-to-bucket", "unknown"}
  <2>1. Closing(o) = StepType
    BY <1>4 DEF Closing
  <2>2. ASSUME t # <<>> PROVE t[Len(t)] \in StepType
    BY <1>2, <2>2
  <2>3. ASSUME t = <<>> PROVE Kept(o)'
    <3>1. CASE o.op = "create-cephfs"
      <4>1. filesystems'[o.fs] # None
        BY <1>1, <2>3, <3>1, FoundingStep
      <4> QED
        BY <1>3, <3>1, <4>1
    <3>2. CASE o.op # "create-cephfs"
      BY <1>4, <3>2 DEF Kept, Done
    <3> QED
      BY <3>1, <3>2
  <2> QED
    BY <2>1, <2>2, <2>3
<1>5. CASE o.op \notin {"create-pool", "create-cache-tier", "create-cephfs", "rgw",
                        "move-osd-to-bucket", "unknown"}
  <2>1. ASSUME t = Tail(s), t # <<>> PROVE t[Len(t)] \in Closing(o)
    <3> HIDE DEF s, t
    <3> QED
      BY <1>1, <1>2, <2>1, TailLast DEF s
  <2>2. ASSUME t = Tail(s), t = <<>> PROVE Head(s) \in Closing(o)
    <3> HIDE DEF s, t
    <3> QED
      BY <1>1, <1>2, <2>2, TailLast DEF s
  <2>3. CASE Head(s)[1] \in Commanding
    <3>1. t = Tail(s)
      BY <1>1, <1>5, <2>3, GoesOn
    <3>2. ASSUME t = <<>> PROVE Kept(o)'
      BY <1>1, <1>5, <2>2, <2>3, <3>1, <3>2, CloseMakes
    <3> QED
      BY <2>1, <3>1, <3>2
  <2>4. CASE Head(s)[1] \notin Commanding /\ Head(s)[1] = "tier-mode"
    <3>1. o.op = "remove-cache-tier"
      BY <1>2, <2>4 DEF Owned
    <3>2. Unmoded(o.hot) = {}
      BY <1>1, <1>2, <2>4, <3>1, AtMode
    <3>3. /\ UNCHANGED cluster
          /\ \/ t = <<>> /\ tiers[o.hot] = None
             \/ t = RemoveCacheTier("writeback")
      BY <1>1, <2>4, <3>1, <3>2, ModeEnds
    <3>4. CASE t = <<>> /\ tiers[o.hot] = None
      <4>1. tiers' = tiers
        BY <3>3 DEF cluster, tiering
      <4> QED
        BY <3>1, <3>4, <4>1 DEF Kept, Done
    <3>5. CASE t = RemoveCacheTier("writeback")
      <4> DEFINE a == <<"tier-set", "mode", "forward">>
                 b == <<"flush">>
                 d == <<"tier-remove">>
      <4>1. t = <<a, b, Unhook, d>>
        BY <3>5 DEF RemoveCacheTier, Unhook
      <4>2. d \in Closing(o)
        BY <3>1 DEF Closing
      <4> HIDE DEF a, b, d, t
      <4>3. Len(t) = 4 /\ t[4] = d /\ t # <<>>
        BY ONLY <4>1, LastOf
      <4> QED
        BY <4>2, <4>3 DEF t
    <3> QED
      BY <3>3, <3>4, <3>5
  <2>5. CASE Head(s)[1] \notin Commanding /\ Head(s)[1] # "tier-mode"
    <3>1. Head(s) \notin Closing(o)
      BY <1>2, <1>5, <2>5, ClosingSteps
    <3>2. CASE t = Tail(s)
      BY <2>1, <2>2, <3>1, <3>2
    <3>3. CASE t # Tail(s)
      <4>1. \/ Head(s)[1] = "no-profile" /\ o.profile \in profiles /\ t = <<>>
            \/ Head(s)[1] = "no-fs"
            \/ Head(s)[1] = "no-client" /\ clients[o.client] # None /\ t = <<>>
        BY <1>1, <1>5, <2>5, <3>3, WellEnded
      <4>2. Head(s)[1] # "no-fs"
        BY <1>2, <1>5 DEF Owned
      <4>3. UNCHANGED <<profiles, clients>>
        BY <2>5, HandlingAt DEF cluster, rest
      <4>4. CASE Head(s)[1] = "no-profile" /\ o.profile \in profiles /\ t = <<>>
        <5>1. o.op = "create-erasure-profile"
          BY <1>2, <4>4 DEF Owned
        <5> QED
          BY <4>3, <4>4, <5>1 DEF Kept, Done
      <4>5. CASE Head(s)[1] = "no-client" /\ clients[o.client] # None /\ t = <<>>
        <5>1. o.op = "create-cephfs-client"
          BY <1>2, <4>5 DEF Owned
        <5> QED
          BY <4>3, <4>5, <5>1 DEF Kept, Done
      <4> QED
        BY <4>1, <4>2, <4>4, <4>5
    <3> QED
      BY <3>2, <3>3
  <2> QED
    BY <2>3, <2>4, <2>5
<1> QED
  BY <1>4, <1>5

\* What was brought about stays when the cluster does.
LEMMA KeptStill ==
  ASSUME UNCHANGED cluster, NEW o, Kept(o)
  PROVE  Kept(o)'
BY DEF cluster, tiering, rest, Kept, Done, Holds, Cached

\* In a step of a handler the operations that came before stay done, and its own
\* is done once the handler has ended well.
LEMMA HandlerEnds ==
  ASSUME TypeInv, TypeInv', RestTypes, RestTypes', Counts, Quiet, NEW p \in Proxies, Handling(p),
         DoneInv
  PROVE  EndState(p)' /\ AnswerState(p)'
<1> DEFINE r == req[p]
<1>1. /\ todo[p] # <<>> /\ Outcome(p)
      /\ Head(todo[p])[1] \in Commanding => Change(p, FALSE)
      /\ Head(todo[p])[1] \notin Commanding => UNCHANGED cluster
  BY HandlingAt
<1>2. r \in Requests /\ r # None /\ pos[p] \in DOMAIN Ops[r] /\ Op(p) \in OpType
  BY <1>1, AtOp, BrokerRequestsAssumption DEF TypeInv
<1>3. EndState(p) /\ AnswerState(p)
  BY DEF DoneInv
<1>4. answer[p] = None
  BY <1>2, <1>3 DEF AnswerState
<1>5. CASE Raises(p)
  <2>1. req'[p] = None /\ answer'[p].ok = FALSE
    BY <1>5 DEF Raises, Answer, TypeInv, RunTypes
  <2> QED
    BY <2>1 DEF EndState, AnswerState
<1>6. CASE ~Raises(p)
  <2>1. /\ req'[p] = r /\ pos'[p] = pos[p] /\ answer'[p] = answer[p]
        /\ failed[p] \subseteq failed'[p]
    BY <1>1, <1>6 DEF Outcome, GoOn, Skip, TypeInv, RunTypes
  <2>2. AnswerState(p)'
    BY <1>4, <2>1 DEF AnswerState
  <2>3. ASSUME NEW i \in Settled[r] \ failed'[p], NEW o, o = Ops[r][i], i < pos[p] PROVE Kept(o)'
    <3>1. Kept(o) /\ o \in OpType
      BY <1>2, <1>3, <2>1, <2>3, SettledOp DEF EndState
    <3>2. Touches(Op(p)) \intersect Touches(o) = {}
      BY <1>1, <2>3, Later
    <3>3. CASE Head(todo[p])[1] \in Commanding
      BY <1>1, <3>1, <3>2, <3>3, KeptFrame
    <3>4. CASE Head(todo[p])[1] \notin Commanding
      BY <1>1, <3>1, <3>4, KeptStill
    <3> QED
      BY <3>3, <3>4
  <2>4. ASSUME NEW i \in Settled[r] \ failed'[p], NEW o, o = Ops[r][i], i = pos[p]
        PROVE  IF todo'[p] = <<>> THEN Kept(o)' ELSE todo'[p][Len(todo'[p])] \in Closing(o)
    <3>1. o = Op(p) /\ pos[p] \notin failed'[p]
      BY <2>4 DEF Op
    <3>2. todo[p][Len(todo[p])] \in Closing(o)
      BY <1>1, <1>2, <1>3, <2>1, <2>4 DEF EndState
    <3>3. o.op = "create-cephfs" => Founding(todo[p], o)
      BY <1>1, <1>2, <2>4, <3>1 DEF DoneInv, Underway, FsState
    <3>4. o.op = "remove-cache-tier" => Removing(todo[p], o.hot)
      <4>1. o.op = "remove-cache-tier" => HotState(p, o.hot)
        BY <1>2, <2>4 DEF DoneInv, Underway
      <4> QED
        BY <1>1, <3>1, <4>1 DEF HotState
    <3> QED
      BY <1>6, <3>1, <3>2, <3>3, <3>4, EndsWell
  <2>5. EndState(p)'
    <3> SUFFICES ASSUME NEW i \in Settled[r] \ failed'[p], NEW o, o = Ops[r][i]
                 PROVE  /\ i < pos[p] => Kept(o)'
                        /\ i = pos[p] =>
                             IF todo'[p] = <<>> THEN Kept(o)'
                             ELSE todo'[p][Len(todo'[p])] \in Closing(o)
      BY <2>1 DEF EndState
    <3> QED
      BY <2>3, <2>4
  <2> QED
    BY <2>2, <2>5
<1> QED
  BY <1>5, <1>6

\* Nothing is under way, and nothing is taken up.
LEMMA RestingStates ==
  ASSUME NEW p, todo[p] = <<>>, todo'[p] = <<>>, UNCHANGED cluster, Underway(p)
  PROVE  Underway(p)'
<1> SUFFICES ASSUME NEW r \in Requests, NEW i \in Settled[r], NEW o, o = Ops[r][i]
             PROVE  /\ o.op = "create-pool" => PoolState(p, o)'
                    /\ o.op = "create-cephfs" => FsState(p, o)'
                    /\ o.op = "remove-cache-tier" => HotState(p, o.hot)'
  BY DEF Underway
<1>1. /\ o.op = "create-pool" => PoolState(p, o)
      /\ o.op = "create-cephfs" => FsState(p, o)
      /\ o.op = "remove-cache-tier" => HotState(p, o.hot)
  BY DEF Underway
<1>2. pools' = pools /\ filesystems' = filesystems /\ tiers' = tiers
  BY DEF cluster, tiering, rest
<1>3. o.op = "create-pool" => PoolState(p, o)'
  BY <1>1, <1>2 DEF PoolState, Unset
<1>4. o.op = "create-cephfs" => FsState(p, o)'
  BY <1>1, <1>2 DEF FsState, Lacking
<1>5. o.op = "remove-cache-tier" => HotState(p, o.hot)'
  BY <1>1, <1>2 DEF HotState, Unmoded
<1> QED
  BY <1>3, <1>4, <1>5

\* Nothing but what is dirty changes.
LEMMA SameStates ==
  ASSUME NEW p, UNCHANGED <<pools, tiers, snaps, rest, req, pos, todo, failed, answer>>,
         EndState(p) /\ AnswerState(p) /\ Underway(p)
  PROVE  EndState(p)' /\ AnswerState(p)' /\ Underway(p)'
<1>1. \A o : Kept(o)' = Kept(o)
  BY DEF rest, Kept, Done, Holds, Cached
<1>2. EndState(p)'
  BY <1>1 DEF EndState
<1>3. AnswerState(p)'
  BY <1>1 DEF AnswerState, Acknowledged
<1>4. \A o : PoolState(p, o)' = PoolState(p, o)
  BY DEF PoolState, Creating, Good, Unset, Op
<1>5. \A o : FsState(p, o)' = FsState(p, o)
  BY DEF FsState, Founding, Good, Lacking, Op, rest
<1>6. \A h : HotState(p, h)' = HotState(p, h)
  BY DEF HotState, Adding, Good, Removing, Unmoded, Op
<1>7. Underway(p)'
  BY <1>4, <1>5, <1>6 DEF Underway
<1> QED
  BY <1>2, <1>3, <1>7

LEMMA StartDone ==
  ASSUME TypeInv, NEW p \in Proxies, NEW r \in Requests, Start(p, r), Underway(p)
  PROVE  EndState(p)' /\ AnswerState(p)' /\ Underway(p)'
<1>1. todo[p] = <<>> /\ todo' = todo /\ UNCHANGED cluster
  BY DEF Start, TypeInv, WorkTypes
<1>2. req'[p] = r /\ pos'[p] = 0 /\ answer'[p] = None
  BY DEF Start, TypeInv, RunTypes
<1>3. \A i \in Settled[r] : i \in Nat /\ i >= 1
  BY SettledOp
<1>4. EndState(p)'
  BY <1>2, <1>3 DEF EndState
<1>5. AnswerState(p)'
  BY <1>2 DEF AnswerState
<1> QED
  BY <1>1, <1>4, <1>5, RestingStates

\* When all operations are done, so is the request.
LEMMA ReplyDone ==
  ASSUME TypeInv, NEW p \in Proxies, Reply(p), EndState(p), AnswerState(p), Underway(p)
  PROVE  EndState(p)' /\ AnswerState(p)' /\ Underway(p)'
<1> DEFINE r == req[p]
<1>1. /\ todo[p] = <<>> /\ todo'[p] = <<>> /\ UNCHANGED cluster /\ req'[p] = None
      /\ r # None /\ pos[p] = Len(Ops[r]) /\ r \in Requests
  BY DEF Reply, Answer, TypeInv, WorkTypes, RunTypes
<1>2. answer[p] = None
  BY <1>1 DEF AnswerState
<1>3. EndState(p)'
  BY <1>1 DEF EndState
<1>4. ASSUME NEW i \in Settled[r] \ failed[p], NEW o, o = Ops[r][i] PROVE Kept(o)'
  <2>1. i \in Nat /\ i <= pos[p]
    BY <1>1, SettledOp, BrokerRequestsAssumption
  <2>2. Kept(o)
    BY <1>1, <1>4, <2>1 DEF EndState, TypeInv, RunTypes
  <2> QED
    BY <1>1, <2>2, KeptStill
<1>5. AnswerState(p)'
  <2>1. CASE answer'[p] = None
    BY <2>1 DEF AnswerState
  <2>2. CASE answer'[p] # None
    <3>1. answer'[p] = [req |-> r, ok |-> Verdict(ret[p]), failed |-> failed[p]]
      BY <1>2, <2>2 DEF Reply, Answer, TypeInv, RunTypes
    <3>2. Acknowledged(p)' = Settled[r] \ failed[p] /\ answer'[p].req = r
      BY <3>1 DEF Acknowledged
    <3>3. \A i \in Acknowledged(p)' : \A o : o = Ops[r][i] => Kept(o)'
      BY <1>4, <3>2
    <3> QED
      BY <1>1, <3>2, <3>3 DEF AnswerState
  <2> QED
    BY <2>1, <2>2
<1> QED
  BY <1>1, <1>3, <1>5, RestingStates

\* A handler that is begun ends, and not with nothing done.
LEMMA PlanEnds ==
  ASSUME NEW r \in Requests, NEW n \in DOMAIN Ops[r], NEW o, o = Ops[r][n],
         NEW s, s = IF r \in Actions THEN ActionPlan(o) ELSE Plan(o)
  PROVE  /\ o \in OpType /\ s # <<>> /\ s[Len(s)] \in Closing(o)
         /\ o.op = "create-pool" =>
              /\ Split(s, <<"create">>, BeforeCreate, AfterCreate, Wanted(o))
              /\ Split(s, <<"validate">>, BeforeValidate, StepType, {})
<1>1. o \in OpType
  BY BrokerRequestsAssumption
<1>2. CASE o.op = "create-pool"
  <2>1. o.want[IF o.kind = "erasure" THEN "size" ELSE "overwrites"] = None
    BY <1>2, KindsAssumption
  <2>2. /\ Split(s, <<"create">>, BeforeCreate, AfterCreate, Wanted(o))
        /\ Split(s, <<"validate">>, BeforeValidate, StepType, {})
    BY <1>1, <1>2, <2>1, PlanCreates
  <2>3. s \in Seq(StepsOf(o))
    BY <1>1, PlanSteps
  <2>4. s \in Seq(StepType)
    BY <2>3 DEF StepsOf
  <2>5. s # <<>>
    BY <2>2, <2>4 DEF Split
  <2>6. s[Len(s)] \in StepType
    BY <2>4, <2>5
  <2> QED
    BY <1>1, <1>2, <2>2, <2>5, <2>6 DEF Closing
<1>3. CASE o.op # "create-pool"
  <2>1. r \notin Actions => o.op # "delete-erasure-profile"
    BY BrokerAssumption
  <2>2. (s = Plan(o) /\ o.op # "delete-erasure-profile") \/ s = ActionPlan(o)
    BY <2>1
  <2> QED
    BY <1>1, <1>3, <2>2, PlanCloses
<1> QED
  BY <1>2, <1>3

\* What a handler is to make it has not begun to make.
LEMMA PlanStates ==
  ASSUME NEW p, NEW r \in Requests, NEW n \in DOMAIN Ops[r],
         NEW o1, o1 = Ops[r][n],
         NEW s, s = IF r \in Actions THEN ActionPlan(o1) ELSE Plan(o1),
         todo[p] = <<>>, todo'[p] = s, Op(p)' = o1, UNCHANGED cluster, Underway(p)
  PROVE  Underway(p)'
<1> SUFFICES ASSUME NEW r2 \in Requests, NEW i \in Settled[r2], NEW o, o = Ops[r2][i]
             PROVE  /\ o.op = "create-pool" => PoolState(p, o)'
                    /\ o.op = "create-cephfs" => FsState(p, o)'
                    /\ o.op = "remove-cache-tier" => HotState(p, o.hot)'
  BY DEF Underway
<1>1. /\ o.op = "create-pool" => PoolState(p, o)
      /\ o.op = "create-cephfs" => FsState(p, o)
      /\ o.op = "remove-cache-tier" => HotState(p, o.hot)
  BY DEF Underway
<1>2. pools' = pools /\ filesystems' = filesystems /\ tiers' = tiers
  BY DEF cluster, tiering, rest
<1>3. /\ o1 \in OpType /\ s # <<>> /\ s \in {Plan(o1), ActionPlan(o1)}
      /\ o1.op = "create-pool" =>
           /\ Split(s, <<"create">>, BeforeCreate, AfterCreate, Wanted(o1))
           /\ Split(s, <<"validate">>, BeforeValidate, StepType, {})
  BY PlanEnds
<1>4. ASSUME o.op = "create-pool" PROVE PoolState(p, o)'
  <2>1. CASE o.params = "invalid"
    BY <1>1, <1>2, <1>3, <1>4, <2>1 DEF PoolState
  <2>2. CASE o.params # "invalid"
    <3>1. Unset(o)' = {}
      BY <1>1, <1>2, <1>4, <2>2 DEF PoolState, Unset
    <3> QED
      BY <1>3, <1>4, <2>2, <3>1 DEF PoolState, Creating, Good
  <2> QED
    BY <2>1, <2>2
<1>5. ASSUME o.op = "create-cephfs" PROVE FsState(p, o)'
  <2>1. Lacking(o)' = {}
    BY <1>1, <1>2, <1>5 DEF FsState, Lacking
  <2>2. o1 = o => Split(s, <<"fs-new">>, BeforeNew, AfterNew, Members(o))
    BY <1>3, <1>5, PlanFounds
  <2> QED
    BY <1>3, <2>1, <2>2 DEF FsState, Founding, Good
<1>6. ASSUME o.op = "remove-cache-tier", NEW h, h = o.hot PROVE HotState(p, h)'
  <2>1. Unmoded(h)' = {}
    BY <1>1, <1>2, <1>6 DEF HotState, Unmoded
  <2>2. CASE o1.op = "create-cache-tier" /\ o1.hot = h
    <3>1. o1.mode = "writeback"
      BY <1>6, <2>2 DEF Settled, Steady
    <3>2. Split(s, <<"tier-add">>, BeforeAdd, AfterAdd, Caching)
      BY <1>3, <2>2, <3>1, PlanAdds
    <3> QED
      BY <1>3, <2>1, <2>2, <3>2 DEF HotState, Adding, Good
  <2>3. CASE o1.op = "remove-cache-tier" /\ o1.hot = h
    <3>1. \A k \in 1 .. Len(s) : s[k][1] \in TierLooks
      BY <1>3, <2>3, RemovalPlan
    <3> QED
      BY <1>3, <2>1, <2>3, <3>1 DEF HotState, Removing
  <2>4. CASE ~(o1.op \in {"create-cache-tier", "remove-cache-tier"} /\ o1.hot = h)
    BY <2>1, <2>4 DEF HotState
  <2> QED
    BY <2>2, <2>3, <2>4
<1> QED
  BY <1>4, <1>5, <1>6

LEMMA NextOpDone ==
  ASSUME TypeInv, NEW p \in Proxies, NextOp(p), EndState(p), AnswerState(p),
         Underway(p)
  PROVE  EndState(p)' /\ AnswerState(p)' /\ Underway(p)'
<1> DEFINE r == req[p]
           n == pos[p] + 1
<1>1. /\ r # None /\ r \in Requests /\ todo[p] = <<>> /\ UNCHANGED cluster
      /\ pos[p] \in Nat /\ n \in DOMAIN Ops[r] /\ Ops[r] \in Seq(OpType)
  BY BrokerRequestsAssumption DEF NextOp, TypeInv, RunTypes
<1>2. answer[p] = None
  BY <1>1 DEF AnswerState
<1>3. CASE Ops[r][n].op = "unknown"
  <2>1. req'[p] = None /\ todo'[p] = <<>> /\ answer'[p].ok = FALSE
    BY <1>3 DEF NextOp, Answer, TypeInv, RunTypes, WorkTypes
  <2>2. EndState(p)' /\ AnswerState(p)'
    BY <2>1 DEF EndState, AnswerState
  <2> QED
    BY <1>1, <2>1, <2>2, RestingStates
<1>4. CASE Ops[r][n].op # "unknown"
  <2>1. PICK o1, s : o1 = Ops[r][n] /\ s = IF r \in Actions THEN ActionPlan(o1) ELSE Plan(o1)
    OBVIOUS
  <2>2. /\ pos' = [pos EXCEPT ![p] = @ + 1] /\ todo' = [todo EXCEPT ![p] = s]
        /\ UNCHANGED <<req, failed, answer>>
    BY <1>4, <2>1 DEF NextOp
  <2>3. /\ req'[p] = r /\ pos'[p] = n /\ todo'[p] = s /\ failed'[p] = failed[p]
        /\ answer'[p] = answer[p]
    BY <2>2 DEF TypeInv, RunTypes, WorkTypes
  <2>4. Op(p)' = o1
    BY <2>1, <2>3 DEF Op
  <2>5. Underway(p)'
    BY <1>1, <2>1, <2>3, <2>4, PlanStates
  <2>6. AnswerState(p)'
    BY <1>2, <2>3 DEF AnswerState
  <2>7. s # <<>> /\ s[Len(s)] \in Closing(o1)
    BY <1>1, <2>1, PlanEnds
  <2>8. ASSUME NEW i \in Settled[r] \ failed[p], NEW o, o = Ops[r][i], i < n PROVE Kept(o)'
    <3>1. i \in Nat /\ i <= pos[p]
      BY <1>1, <2>8, SettledOp
    <3>2. Kept(o)
      BY <1>1, <2>8, <3>1 DEF EndState
    <3> QED
      BY <1>1, <3>2, KeptStill
  <2>9. EndState(p)'
    <3> SUFFICES ASSUME NEW i \in Settled[r] \ failed[p], NEW o, o = Ops[r][i]
                 PROVE  /\ i < n => Kept(o)'
                        /\ i = n => s # <<>> /\ s[Len(s)] \in Closing(o)
      BY <2>3 DEF EndState
    <3> QED
      BY <2>1, <2>7, <2>8
  <2> QED
    BY <2>5, <2>6, <2>9
<1> QED
  BY <1>3, <1>4

LEMMA InitDone == Init => DoneInv
<1> SUFFICES ASSUME Init, NEW p \in Proxies PROVE EndState(p) /\ AnswerState(p) /\ Underway(p)
  BY DEF DoneInv
<1>1. /\ req[p] = None /\ todo[p] = <<>> /\ answer[p] = None
      /\ \A x \in Pools : pools[x] = None /\ tiers[x] = None
      /\ \A f \in FileSystems : filesystems[f] = None
  BY DEF Init
<1>2. ASSUME NEW r \in Requests, NEW i \in Settled[r], NEW o, o = Ops[r][i]
      PROVE  /\ o.op = "create-pool" => PoolState(p, o)
             /\ o.op = "create-cephfs" => FsState(p, o)
             /\ o.op = "remove-cache-tier" => HotState(p, o.hot)
  <2>1. o \in OpType
    BY <1>2, SettledOp
  <2>2. ASSUME o.op = "create-pool" PROVE PoolState(p, o)
    BY <1>1, <2>1, <2>2, OpFields DEF PoolState, Unset
  <2>3. ASSUME o.op = "create-cephfs" PROVE FsState(p, o)
    BY <1>1, <2>1, <2>3, OpFields DEF FsState, Lacking
  <2>4. ASSUME o.op = "remove-cache-tier" PROVE HotState(p, o.hot)
    BY <1>1, <2>1, <2>4, OpFields DEF HotState, Unmoded
  <2> QED
    BY <2>2, <2>3, <2>4
<1> QED
  BY <1>1, <1>2 DEF EndState, AnswerState, Underway

LEMMA NextDone ==
  ASSUME Serial, Quiet, FullInv, FullInv', DoneInv, [Next]_vars
  PROVE  DoneInv'
<1>1. TypeInv /\ TypeInv' /\ RestTypes /\ RestTypes' /\ Counts
  BY DEF FullInv
<1>2. ASSUME NEW p \in Proxies, Proxy(p) PROVE EndState(p)' /\ AnswerState(p)' /\ Underway(p)'
  <2>1. EndState(p) /\ AnswerState(p) /\ Underway(p)
    BY DEF DoneInv
  <2>2. CASE Handling(p)
    <3>1. ASSUME NEW r \in Requests, NEW i \in Settled[r], NEW o, o = Ops[r][i]
          PROVE  /\ o.op = "create-pool" => PoolState(p, o)'
                 /\ o.op = "create-cephfs" => FsState(p, o)'
                 /\ o.op = "remove-cache-tier" => HotState(p, o.hot)'
      <4>1. o.op = "create-pool" => PoolState(p, o)'
        BY <1>1, <2>1, <2>2, <3>1, PoolStep DEF Underway
      <4>2. o.op = "create-cephfs" => FsState(p, o)'
        BY <1>1, <2>1, <2>2, <3>1, FsStep DEF Underway
      <4>3. o.op = "remove-cache-tier" => HotState(p, o.hot)'
        BY <1>1, <2>1, <2>2, <3>1, HotStep DEF Underway
      <4> QED
        BY <4>1, <4>2, <4>3
    <3>2. Underway(p)'
      BY <3>1 DEF Underway
    <3> QED
      BY <1>1, <2>2, <3>2, HandlerEnds
  <2>3. CASE \E r \in Requests : Start(p, r)
    BY <1>1, <2>1, <2>3, StartDone
  <2>4. CASE NextOp(p)
    BY <1>1, <2>1, <2>4, NextOpDone
  <2>5. CASE Reply(p)
    BY <1>1, <2>1, <2>5, ReplyDone
  <2>6. ~Crash(p)
    BY <1>1 DEF Crash, Quiet, Counts
  <2> QED
    BY <1>2, <2>2, <2>3, <2>4, <2>5, <2>6 DEF Proxy, Handling
<1>3. CASE \E p \in Proxies : Proxy(p)
  BY <1>2, <1>3 DEF DoneInv, Serial
<1>4. CASE (\E x \in Pools : ClientWrites(x)) \/ UNCHANGED vars
  <2>1. UNCHANGED <<pools, tiers, snaps, rest, req, pos, todo, failed, answer>>
    BY <1>4 DEF ClientWrites, vars, cluster, tiering
  <2> QED
    BY <2>1, SameStates DEF DoneInv
<1> QED
  BY <1>3, <1>4 DEF Next

\* What is reported done is, when what the handlers leave to be done at the next
\* run is done as well.
LEMMA DoneMeans ==
  ASSUME FullInv, DoneInv, AnswerMeansUpdated
  PROVE  AnswerMeansDone
<1> SUFFICES ASSUME NEW p \in Proxies, answer[p] # None, answer[p].ok,
                    NEW i \in Acknowledged(p), NEW o, o = Ops[answer[p].req][i]
             PROVE  Done(o)
  BY DEF AnswerMeansDone
<1> DEFINE r == answer[p].req
<1>1. r \in Requests /\ i \in Settled[r]
  BY DEF FullInv, Reports, Acknowledged
<1>2. /\ req[p] = None /\ todo[p] = <<>> /\ Kept(o)
  BY DEF DoneInv, AnswerState, FullInv, TypeInv, WorkTypes
<1>3. /\ o.op = "create-pool" =>
           /\ Holds(o, MutableSettings) /\ (o.group => o.pool \in grouped)
           /\ PoolState(p, o)
      /\ o.op = "create-cache-tier" => Cached(o)
      /\ o.op = "create-cephfs" => FsState(p, o)
  BY <1>1 DEF AnswerMeansUpdated, DoneInv, Underway
<1>4. CASE o.op = "create-pool"
  <2>1. pools[o.pool] # None /\ Unset(o) = {}
    BY <1>2, <1>3, <1>4 DEF Holds, PoolState
  <2>2. ASSUME NEW c \in CreationSettings, o.want[c] # None PROVE pools[o.pool][c] = o.want[c]
    <3>1. <<"set", c>> \in Wanted(o) /\ <<"set", c>>[2] = c
      BY <2>2 DEF Wanted
    <3> QED
      BY <2>1, <3>1 DEF Unset
  <2>3. Holds(o, Settings)
    BY <1>3, <1>4, <2>1, <2>2 DEF Holds, Settings
  <2> QED
    BY <1>3, <1>4, <2>3 DEF Done
<1>5. CASE o.op = "create-cephfs"
  <2>1. filesystems[o.fs] # None /\ Lacking(o) = {}
    BY <1>2, <1>3, <1>5 DEF Kept, FsState
  <2>2. ASSUME NEW k \in DOMAIN o.extra PROVE o.extra[k] \in filesystems[o.fs]
    <3>1. <<"fs-add", o.extra[k]>> \in Members(o)
          /\ <<"fs-add", o.extra[k]>>[2] = o.extra[k]
      BY DEF Members
    <3> QED
      BY <2>1, <3>1 DEF Lacking
  <2> QED
    BY <1>5, <2>1, <2>2 DEF Done
<1>6. CASE o.op = "create-cache-tier"
  BY <1>3, <1>6 DEF Done
<1>7. CASE o.op \notin {"create-pool", "create-cephfs", "create-cache-tier"}
  BY <1>2, <1>7 DEF Kept
<1> QED
  BY <1>4, <1>5, <1>6, <1>7

\* On one proxy, where no command that changes the cluster fails and no unit goes
\* down in the middle of a request, an answer without an error means that what was
\* asked for is there: pools with all their settings and in their group, profiles,
\* tiers, file systems with all their pools, clients and snapshots; and that what
\* was to go is gone.  This is of any requests and of each of their operations
\* that no other one undoes (Settled).  Looks may fail, and a request may be
\* carried out any number of times.
THEOREM AllIsDone ==
  ASSUME Serial, Quiet
  PROVE  Spec => []AnswerMeansDone
<1>1. FullInv /\ FullInv' /\ DoneInv /\ [Next]_vars => DoneInv'
  BY NextDone
<1>2. PromiseInv /\ [Next]_vars => PromiseInv'
  BY NextPromise
<1>3. FullInv /\ DoneInv /\ PromiseInv => AnswerMeansDone
  BY PromisesKept, DoneMeans
<1> QED
  BY InitFull, NextFull, InitDone, InitPromise, <1>1, <1>2, <1>3, PTL DEF Spec
=============================================================================
