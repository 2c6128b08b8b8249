---------------------------- MODULE RollingUpgrade ----------------------------
(***************************************************************************)
(* The rolling upgrade of monitors and OSD hosts: lib/charms_ceph/utils.py, *)
(* roll_monitor_cluster and roll_osd_cluster with lock_and_roll,           *)
(* wait_on_previous_node, WatchDog, upgrade_monitor, upgrade_osd and       *)
(* wait_for_all_monitors_to_upgrade.                                       *)
(*                                                                         *)
(* Every host waits for the one before it in the sorted list, through      *)
(* three keys of each host in the monitors' config-key store: it has       *)
(* started, when it last kicked, it is done.  A wait ends by the clock     *)
(* when those keys do not come, and the host then goes on regardless.      *)
(*                                                                         *)
(* Times are kept as ages, in ticks: what the code computes are            *)
(* differences of two readings of a clock.                                 *)
(***************************************************************************)
EXTENDS Integers, Sequences, FiniteSets

CONSTANTS
  N,              \* number of hosts; host n is at position n - 1 of the list
  Daemons,        \* of one host: its OSDs, or its monitor
  Jobs,           \* what may be rolled, see Plan
  Skew,           \* per host, what its clock is ahead of the true time
  KickInterval,   \* of the WatchDog, 3 minutes in the code
  MaxKickInterval,\* 5 minutes
  StartTimeout,   \* 30 minutes, wait_until
  WaitTime,       \* 30 minutes, timed_wait
  CompatTime,     \* 10 minutes, compatibility_wait_time
  AllTimeout,     \* 10 minutes, wait_for_all_monitors_to_upgrade
  StepTime,       \* a long step of an upgrade takes no longer
  PollTime,       \* nor does the sleep between two looks at a key
  Spread,         \* how long after the first host the last one begins
  MaxIdle,        \* bound on the OSDs of a host that are not active at first
  MaxAttempts,    \* bound on how often a host's hook is run
  FaultKinds,     \* which faults happen,
  FaultPlaces,    \* where a hook is when it fails or its host goes down
  MaxFaults       \* bound on the faults

Hosts == 1..N
Never == -1

ASSUME RollingAssumption ==
  /\ N \in Nat \ {0}
  /\ Jobs \subseteq {"mon", "osd", "osdChown"}
  /\ Skew \in [Hosts -> Int]
  /\ {KickInterval, MaxKickInterval, StartTimeout, WaitTime, CompatTime,
      AllTimeout, StepTime, PollTime, Spread, MaxIdle, MaxAttempts,
      MaxFaults} \subseteq Nat
  /\ FaultKinds \subseteq {"failure", "reboot", "badStart", "miss"}

VARIABLES
  job,       \* what is rolled
  \* per host: its hook, the steps left to it and the times it keeps
  pc, todo,
  waited,    \* since start_time of the loop it is in
  stepAge,   \* since it took its last step
  kickAge,   \* since WatchDog.last_run_func, or Never
  attempts,
  \* per host: its daemons and packages
  state,     \* of each daemon
  goal,      \* the states that maintain_osd_state remembers
  enabled,   \* daemons that start with the host
  fresh,     \* daemons that were started from the new packages
  installed, \* hosts with the new packages
  \* the config-key store
  started, done,
  aliveAge,  \* since the _alive key was written, or Never
  \* the rest of the world
  settled,   \* the cluster was told that all monitors are upgraded
  sinceFirst,\* since the first host began, or Never
  faults     \* how many there were so far

vars == <<job, pc, todo, waited, stepAge, kickAge, attempts, state, goal,
          enabled, fresh, installed, started, done, aliveAge, settled,
          sinceFirst, faults>>
daemons == <<state, goal, enabled, fresh, installed>>
store == <<started, done, aliveAge>>

Waiting == {"awaitStart", "awaitDone", "awaitAlive"}
Idle == {"idle", "ended", "failed", "raised"}
PCs == Waiting \union Idle
         \union {"packages", "lock", "roll", "waitAll", "settle"}
DaemonStates == {"active", "booting", "down"}

-----------------------------------------------------------------------------
(* The steps of an upgrade.  Those of maintain_osd_state are "state", which *)
(* remembers the states of OSDs, and "goal", which waits for them.         *)

Step(name) == [do |-> name, on |-> Daemons]
StepOn(name, d) == [do |-> name, on |-> {d}]
StepNames == {"source", "install", "kick", "stop", "chown", "restart",
              "state", "disable", "enable", "goal", "each", "exit"}
Steps == [do : StepNames, on : SUBSET Daemons]

UpgradeMonitor ==
  <<Step("kick"), Step("source"), Step("kick"), Step("install"),
    Step("stop"), Step("kick"), Step("chown"), Step("kick"), Step("restart")>>

UpgradeSingleOsd(d) ==
  <<StepOn("kick", d), StepOn("state", d), StepOn("stop", d),
    StepOn("disable", d), StepOn("chown", d), StepOn("enable", d),
    StepOn("restart", d), StepOn("goal", d)>>

\* "each" is the loop over the directories of OSDs, in whatever order
\* os.listdir has them, and "on" what is left of it.
UpgradeOsd(dirsNeedOwnershipUpdate) ==
  <<Step("source"), Step("kick"), Step("install"), Step("kick")>> \o
  IF dirsNeedOwnershipUpdate
  THEN <<Step("kick"), Step("chown"), Step("each")>>
  ELSE <<Step("state"), Step("restart"), Step("goal")>>

\* upgrade_monitor(restart_daemons=False), before the wait.
Packages == <<Step("source"), Step("install")>>

Plan == CASE job = "mon"      -> UpgradeMonitor
          [] job = "osd"      -> UpgradeOsd(FALSE)
          [] job = "osdChown" -> UpgradeOsd(TRUE)

NextStep(n) == IF todo[n] = <<>> THEN "none" ELSE Head(todo[n]).do
Takes(n, name) == pc[n] \in {"packages", "roll"} /\ NextStep(n) = name
On(n) == Head(todo[n]).on

LongSteps == {"source", "install", "chown", "goal"}
\* Steps that run commands whose failure raises.  service_stop,
\* service_start and service_restart return False instead.
Raising == {"source", "install", "kick", "chown", "disable", "enable"}

\* A host that waits for a state its OSD will not come to: get_osd_state
\* has no timeout, and asks a daemon that is down for ever.
Stuck(n) ==
  \/ Takes(n, "state") /\ \E d \in On(n) : state[n][d] = "down"
  \/ Takes(n, "goal") /\ \E d \in On(n) :
       state[n][d] = "down" \/ (goal[n][d] = "booting" /\ state[n][d] = "active")

\* Inside the with block of maintain_osd_state.
InBlock(n) ==
  \E i \in DOMAIN todo[n] :
    todo[n][i].do = "goal" /\ \A j \in 1..i : todo[n][j].do # "state"

-----------------------------------------------------------------------------
Goto(n, label) == pc' = [pc EXCEPT ![n] = label]
Advance(n) ==
  /\ todo' = [todo EXCEPT ![n] = Tail(@)]
  /\ stepAge' = [stepAge EXCEPT ![n] = 0]
Poll(n) == stepAge' = [stepAge EXCEPT ![n] = 0]
StartClock(n) == waited' = [waited EXCEPT ![n] = 0] /\ Poll(n)
\* An upgrade or the whole hook ends, and what it kept in memory is gone.
End(n, label) ==
  /\ Goto(n, label)
  /\ todo' = [todo EXCEPT ![n] = <<>>]
  /\ kickAge' = [kickAge EXCEPT ![n] = Never]
  /\ StartClock(n)
Happens(kind) ==
  /\ kind \in FaultKinds
  /\ faults < MaxFaults
  /\ faults' = faults + 1

TypeOK ==
  /\ job \in Jobs
  /\ pc \in [Hosts -> PCs]
  /\ todo \in [Hosts -> Seq(Steps)]
  /\ {waited, stepAge, attempts} \subseteq [Hosts -> Nat]
  /\ {kickAge, aliveAge} \subseteq [Hosts -> Nat \union {Never}]
  /\ {state, goal} \subseteq [Hosts -> [Daemons -> DaemonStates]]
  /\ {enabled, fresh} \subseteq [Hosts -> SUBSET Daemons]
  /\ {installed, started, done} \subseteq SUBSET Hosts
  /\ settled \in BOOLEAN
  /\ sinceFirst \in Nat \union {Never}
  /\ faults \in Nat

Init ==
  /\ job \in Jobs
  /\ pc = [n \in Hosts |-> "idle"]
  /\ todo = [n \in Hosts |-> <<>>]
  /\ waited = [n \in Hosts |-> 0]
  /\ stepAge = [n \in Hosts |-> 0]
  /\ kickAge = [n \in Hosts |-> Never]
  /\ attempts = [n \in Hosts |-> 0]
  /\ state \in [Hosts -> [Daemons -> DaemonStates]]
  /\ Cardinality({h \in Hosts \X Daemons : state[h[1]][h[2]] # "active"})
       <= MaxIdle
  /\ goal = state
  /\ enabled = [n \in Hosts |-> Daemons]
  /\ fresh = [n \in Hosts |-> {}]
  /\ installed = {}
  /\ started = {}
  /\ done = {}
  /\ aliveAge = [n \in Hosts |-> Never]
  /\ settled = FALSE
  /\ sinceFirst = Never
  /\ faults = 0

-----------------------------------------------------------------------------
(* roll_monitor_cluster and roll_osd_cluster. *)

\* The first host of the list rolls, every other one waits.
TakePosition(n) ==
  /\ Goto(n, IF n = 1 THEN "lock" ELSE "awaitStart")
  /\ StartClock(n)

Begin(n) ==
  /\ pc[n] \in Idle \ {"ended"}
  /\ attempts[n] < MaxAttempts
  /\ attempts' = [attempts EXCEPT ![n] = @ + 1]
  /\ sinceFirst' = IF sinceFirst = Never THEN 0 ELSE sinceFirst
  /\ IF job = "mon"
     THEN /\ Goto(n, "packages")
          /\ todo' = [todo EXCEPT ![n] = Packages]
          /\ StartClock(n)
     ELSE /\ TakePosition(n)
          /\ todo' = [todo EXCEPT ![n] = <<>>]
  /\ UNCHANGED <<job, kickAge, daemons, store, settled, faults>>

PackagesDone(n) ==
  /\ pc[n] = "packages"
  /\ todo[n] = <<>>
  /\ TakePosition(n)
  /\ UNCHANGED <<job, todo, kickAge, attempts, daemons, store, settled,
                 sinceFirst, faults>>

-----------------------------------------------------------------------------
(* wait_on_previous_node.  Both ways out of a wait lead to the upgrade.    *)

\* WatchDog.wait_until
AwaitStart(n) ==
  /\ pc[n] = "awaitStart"
  /\ \/ n - 1 \in started /\ Goto(n, "awaitDone") /\ StartClock(n)
     \/ /\ n - 1 \notin started
        /\ waited[n] > StartTimeout
        /\ Goto(n, "lock")
        /\ StartClock(n)
     \/ /\ n - 1 \notin started
        /\ waited[n] <= StartTimeout
        /\ Poll(n)
        /\ UNCHANGED <<pc, waited>>
  /\ UNCHANGED <<job, todo, kickAge, attempts, daemons, store, settled,
                 sinceFirst, faults>>

\* WatchDog.timed_wait, the look at the _done key
AwaitDone(n) ==
  /\ pc[n] = "awaitDone"
  /\ Goto(n, IF n - 1 \in done THEN "lock" ELSE "awaitAlive")
  /\ Poll(n)
  /\ UNCHANGED <<job, todo, waited, kickAge, attempts, daemons, store,
                 settled, sinceFirst, faults>>

\* What the waiting host computes from the other one's clock and its own.
SinceKick(n) == aliveAge[n - 1] + Skew[n] - Skew[n - 1]
\* Mutated: >= for >.
Bug_GivesUpEarly(n, kicked) ==
  \/ ~kicked /\ waited[n] >= CompatTime
  \/ kicked /\ SinceKick(n) >= MaxKickInterval
  \/ waited[n] >= WaitTime
GivesUp(n, kicked) ==
  \/ ~kicked /\ waited[n] > CompatTime
  \/ kicked /\ SinceKick(n) > MaxKickInterval
  \/ waited[n] > WaitTime

\* ... and at the _alive key.  A get that fails looks like a key that is
\* not there.
AwaitAlive(n) ==
  /\ pc[n] = "awaitAlive"
  /\ \E kicked \in BOOLEAN :
       /\ \/ kicked = (aliveAge[n - 1] # Never) /\ UNCHANGED faults
          \/ ~kicked /\ aliveAge[n - 1] # Never /\ Happens("miss")
       /\ Goto(n, IF GivesUp(n, kicked) THEN "lock" ELSE "awaitDone")
  /\ Poll(n)
  /\ UNCHANGED <<job, todo, waited, kickAge, attempts, daemons, store,
                 settled, sinceFirst>>

-----------------------------------------------------------------------------
(* lock_and_roll *)

SetStart(n) ==
  /\ pc[n] = "lock"
  /\ started' = started \union {n}
  /\ kickAge' = [kickAge EXCEPT ![n] = Never]  \* a WatchDog of its own
  /\ todo' = [todo EXCEPT ![n] = Plan]
  /\ Goto(n, "roll")
  /\ Poll(n)
  /\ UNCHANGED <<job, waited, attempts, daemons, done, aliveAge, settled,
                 sinceFirst, faults>>

\* WatchDog.kick_the_dog
Kick(n) ==
  /\ Takes(n, "kick")
  /\ Advance(n)
  /\ IF kickAge[n] = Never \/ kickAge[n] > KickInterval
     THEN /\ kickAge' = [kickAge EXCEPT ![n] = 0]
          /\ aliveAge' = [aliveAge EXCEPT ![n] = 0]
     ELSE UNCHANGED <<kickAge, aliveAge>>
  /\ UNCHANGED <<job, pc, waited, attempts, daemons, started, done, settled,
                 sinceFirst, faults>>

\* Mutated: off by one in the list of hosts.
Bug_MarksNext(n) ==
  /\ pc[n] = "roll"
  /\ todo[n] = <<>>
  /\ done' = done \union {n + 1}
  /\ End(n, IF job = "mon" THEN "waitAll" ELSE "ended")
  /\ UNCHANGED <<job, attempts, daemons, started, aliveAge,
                 settled, sinceFirst, faults>>

SetDone(n) ==
  /\ pc[n] = "roll"
  /\ todo[n] = <<>>
  /\ done' = done \union {n}
  /\ End(n, IF job = "mon" THEN "waitAll" ELSE "ended")
  /\ UNCHANGED <<job, attempts, daemons, started, aliveAge,
                 settled, sinceFirst, faults>>

\* Mutated: any() for all().
Bug_WaitAny(n) ==
  /\ pc[n] = "waitAll"
  /\ done # {}
  /\ End(n, "settle")
  /\ UNCHANGED <<job, attempts, daemons, store, settled, sinceFirst, faults>>

\* Mutated: no timeout.
Bug_WaitForever(n) ==
  /\ pc[n] = "waitAll"
  /\ done = Hosts
  /\ End(n, "settle")
  /\ UNCHANGED <<job, attempts, daemons, store, settled, sinceFirst, faults>>

\* wait_for_all_monitors_to_upgrade
WaitAll(n) ==
  /\ pc[n] = "waitAll"
  /\ \/ waited[n] > AllTimeout /\ End(n, "raised")
     \/ waited[n] <= AllTimeout /\ done = Hosts /\ End(n, "settle")
     \/ /\ waited[n] <= AllTimeout /\ done # Hosts
        /\ Poll(n)
        /\ UNCHANGED <<pc, todo, waited, kickAge>>
  /\ UNCHANGED <<job, attempts, daemons, store, settled, sinceFirst, faults>>

\* bootstrap_manager or enable_msgr2
Settle(n) ==
  /\ pc[n] = "settle"
  /\ settled' = TRUE
  /\ Goto(n, "ended")
  /\ UNCHANGED <<job, todo, waited, stepAge, kickAge, attempts, daemons,
                 store, sinceFirst, faults>>

-----------------------------------------------------------------------------
(* upgrade_monitor, upgrade_osd and the OSDs' states. *)

others == <<job, pc, waited, kickAge, attempts, store, settled, sinceFirst>>

\* add_source and apt_update, chownr and update_owner: they take time.
Work(n) ==
  /\ Takes(n, "source") \/ Takes(n, "chown")
  /\ Advance(n)
  /\ UNCHANGED <<others, daemons, faults>>

Install(n) ==
  /\ Takes(n, "install")
  /\ Advance(n)
  /\ installed' = installed \union {n}
  /\ UNCHANGED <<others, state, goal, enabled, fresh, faults>>

SetState(n, S, s) ==
  state' = [state EXCEPT ![n] = [d \in Daemons |-> IF d \in S THEN s ELSE @[d]]]

StopDaemon(n) ==
  /\ Takes(n, "stop")
  /\ Advance(n)
  /\ SetState(n, On(n), "down")
  /\ fresh' = [fresh EXCEPT ![n] = @ \ On(n)]
  /\ UNCHANGED <<others, goal, enabled, installed, faults>>

\* Mutated: OSDs are not enabled again.
Bug_OnlyDisables(n) ==
  /\ Takes(n, "disable") \/ Takes(n, "enable")
  /\ Advance(n)
  /\ enabled' = [enabled EXCEPT ![n] = @ \ On(n)]
  /\ UNCHANGED <<others, state, goal, fresh, installed, faults>>

EnableOsd(n) ==
  /\ Takes(n, "disable") \/ Takes(n, "enable")
  /\ Advance(n)
  /\ enabled' = [enabled EXCEPT ![n] =
                   IF Takes(n, "enable") THEN @ \union On(n) ELSE @ \ On(n)]
  /\ UNCHANGED <<others, state, goal, fresh, installed, faults>>

\* service_start or service_restart; what fails to start stays down, and
\* the caller does not look at the result.
Restart(n) ==
  /\ Takes(n, "restart")
  /\ Advance(n)
  /\ \E bad \in SUBSET On(n) :
       /\ IF bad = {} THEN UNCHANGED faults ELSE Happens("badStart")
       /\ state' = [state EXCEPT ![n] = [d \in Daemons |->
                      CASE d \in bad         -> "down"
                        [] d \in On(n) \ bad -> IF job = "mon" THEN "active"
                                                ELSE "booting"
                        [] OTHER             -> @[d]]]
       /\ fresh' = [fresh EXCEPT ![n] = (@ \ bad) \union (On(n) \ bad)]
  /\ UNCHANGED <<others, goal, enabled, installed>>

\* An OSD that was started takes its place in the cluster.
Boot(n, d) ==
  /\ state[n][d] = "booting"
  /\ state' = [state EXCEPT ![n][d] = "active"]
  /\ UNCHANGED <<others, todo, stepAge, goal, enabled, fresh, installed,
                 faults>>

\* maintain_osd_state, before and after
RememberState(n) ==
  /\ Takes(n, "state")
  /\ \A d \in On(n) : state[n][d] # "down"
  /\ Advance(n)
  /\ goal' = [goal EXCEPT ![n] =
                [d \in Daemons |-> IF d \in On(n) THEN state[n][d] ELSE @[d]]]
  /\ UNCHANGED <<others, state, enabled, fresh, installed, faults>>

AwaitGoal(n) ==
  /\ Takes(n, "goal")
  /\ \A d \in On(n) : state[n][d] = goal[n][d]
  /\ Advance(n)
  /\ UNCHANGED <<others, daemons, faults>>

NextOsd(n) ==
  /\ Takes(n, "each")
  /\ Poll(n)
  /\ \/ /\ On(n) = {}
        /\ todo' = [todo EXCEPT ![n] = Tail(@)]
     \/ \E d \in On(n) :
          todo' = [todo EXCEPT ![n] =
                     UpgradeSingleOsd(d) \o
                       <<[do |-> "each", on |-> On(n) \ {d}]>>]
  /\ UNCHANGED <<others, daemons, faults>>

-----------------------------------------------------------------------------
(* Faults, and time. *)

\* A command raises.  In the with block of maintain_osd_state the exception
\* is held until the state that was remembered has come back.  All commands
\* there that can raise come after the OSD was stopped, so that it never does
\* and no action takes the exit: EveryRollEnds would not hold if a host got
\* that far.
Fail(n) ==
  /\ pc[n] \in FaultPlaces \ Idle
  /\ pc[n] \in {"packages", "roll"} => NextStep(n) \in Raising \union {"none"}
  /\ Happens("failure")
  /\ IF pc[n] = "roll" /\ InBlock(n)
     THEN /\ todo' = [todo EXCEPT ![n] =
                        <<[do |-> "goal", on |-> On(n)], Step("exit")>>]
          /\ Poll(n)
          /\ UNCHANGED <<pc, waited, kickAge>>
     ELSE End(n, "failed")
  /\ UNCHANGED <<job, attempts, daemons, store, settled, sinceFirst>>

\* The host goes down with a hook half done, and comes back with the
\* daemons that are enabled.
Reboot(n) ==
  /\ pc[n] \in FaultPlaces \ Idle
  /\ Happens("reboot")
  /\ End(n, "failed")
  /\ state' = [state EXCEPT ![n] = [d \in Daemons |->
                 IF d \notin enabled[n] THEN "down"
                 ELSE IF job = "mon" THEN "active" ELSE "booting"]]
  /\ fresh' = [fresh EXCEPT ![n] = IF n \in installed THEN enabled[n] ELSE {}]
  /\ UNCHANGED <<job, attempts, goal, enabled, installed, store, settled,
                 sinceFirst>>

\* Nobody is late: a short step is taken at once, a long one and the sleep
\* between two looks end in time, and all hosts begin within Spread.
InTime(n) ==
  /\ pc[n] \notin {"lock", "settle"}
  /\ pc[n] \in {"packages", "roll"} /\ ~Stuck(n) =>
       /\ NextStep(n) \in LongSteps
       /\ stepAge[n] < StepTime
  /\ pc[n] \in Waiting \union {"waitAll"} => stepAge[n] < PollTime
  /\ attempts[n] = 0 => sinceFirst < Spread

\* Ages stop growing where nobody can tell them apart any more.
Older(age, limit) == IF age = Never \/ age > limit THEN age ELSE age + 1
LongestWait == CHOOSE t \in {StartTimeout, WaitTime, CompatTime, AllTimeout} :
  \A u \in {StartTimeout, WaitTime, CompatTime, AllTimeout} : u <= t
LargestSkew == CHOOSE t \in {Skew[n] - Skew[m] : m, n \in Hosts} :
  \A u \in {Skew[n] - Skew[m] : m, n \in Hosts} : u <= t

Tick ==
  /\ sinceFirst # Never
  /\ \A n \in Hosts : InTime(n)
  /\ waited' = [n \in Hosts |->
       IF pc[n] \in Waiting \union {"waitAll"}
       THEN Older(waited[n], LongestWait) ELSE waited[n]]
  /\ stepAge' = [n \in Hosts |->
       IF pc[n] \in Idle \/ Stuck(n) THEN stepAge[n] ELSE stepAge[n] + 1]
  /\ kickAge' = [n \in Hosts |-> Older(kickAge[n], KickInterval)]
  /\ aliveAge' = [n \in Hosts |->
       Older(aliveAge[n], MaxKickInterval + LargestSkew)]
  /\ sinceFirst' = Older(sinceFirst, Spread)
  /\ UNCHANGED <<job, pc, todo, attempts, daemons, started, done, settled,
                 faults>>

-----------------------------------------------------------------------------
\* What the host does by itself.
Run(n) ==
  \/ Begin(n) \/ PackagesDone(n)
  \/ AwaitStart(n) \/ AwaitDone(n) \/ AwaitAlive(n)
  \/ SetStart(n) \/ Kick(n) \/ SetDone(n) \/ WaitAll(n) \/ Settle(n)
  \/ Work(n) \/ Install(n) \/ StopDaemon(n) \/ EnableOsd(n) \/ Restart(n)
  \/ RememberState(n) \/ AwaitGoal(n) \/ NextOsd(n)

Next ==
  \/ \E n \in Hosts : Run(n) \/ Fail(n) \/ Reboot(n)
  \/ \E n \in Hosts, d \in Daemons : Boot(n, d)
  \/ Tick

Spec == Init /\ [][Next]_vars

\* Hooks run, time passes, OSDs boot.  Nothing is assumed of faults.
FairSpec ==
  /\ Spec
  /\ \A n \in Hosts : WF_vars(Run(n))
  /\ \A n \in Hosts, d \in Daemons : WF_vars(Boot(n, d))
  /\ WF_vars(Tick)

-----------------------------------------------------------------------------
\* A host's first turn, as Turns has it.  A hook that is stuck has none: it
\* waits for an OSD that nothing will bring back.
Phase(n) ==
  CASE attempts[n] = 0                                          -> "before"
    [] attempts[n] = 1 /\ pc[n] \in Waiting \union {"packages"} -> "before"
    [] attempts[n] = 1 /\ pc[n] \in {"lock", "roll"} /\ ~Stuck(n) -> "in"
    [] OTHER                                                    -> "over"

InOrder == INSTANCE Turns WITH phase <- [n \in Hosts |-> Phase(n)]

\* The rolling upgrade implements Turns ("It rolls an entire server at a time",
\* 2605): whatever fails once a host's turn has come, the next one takes its
\* turn only after that, and none takes it twice.
TurnsAreTaken == InOrder!Spec

\* A host whose _done key is set has the new packages, and each OSD of an OSD
\* host was started from them and starts with the host.  It says nothing of
\* the monitor of a host: lock_and_roll sets the key whatever became of its
\* restart (utils.py 2337).
DoneMeansUpgraded ==
  \A n \in done :
    /\ n \in installed
    /\ job # "mon" => fresh[n] = Daemons /\ enabled[n] = Daemons

\* When the cluster is told that all monitors are upgraded, none that is up
\* still runs the old version.  One that did not start again is not up, and
\* the cluster is told all the same.
SettledMeansUpgraded ==
  settled => \A n \in Hosts, d \in Daemons : state[n][d] # "down" => d \in fresh[n]

\* Every hook ends, or is stuck.
EveryRollEnds == \A n \in Hosts : <>[](pc[n] \in Idle \/ Stuck(n))
=============================================================================
