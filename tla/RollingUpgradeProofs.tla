------------------------ MODULE RollingUpgradeProofs ------------------------
(***************************************************************************)
(* Theorems about RollingUpgrade, for any number of hosts and daemons, any *)
(* clocks and bounds, and any faults at any place: types, what a _done key *)
(* says, what is true when the cluster is told that all monitors are       *)
(* upgraded, that hosts which take turns never take them at once, and that *)
(* hosts take turns unless the clock ends a wait too early.                *)
(***************************************************************************)
EXTENDS RollingUpgrade, SequenceTheorems, TLAPS

-----------------------------------------------------------------------------
(* Types. *)

Ages == Nat \union {Never}

Types ==
  /\ job \in Jobs
  /\ pc \in [Hosts -> PCs]
  /\ todo \in [Hosts -> Seq(Steps)]
  /\ waited \in [Hosts -> Nat]
  /\ stepAge \in [Hosts -> Nat]
  /\ attempts \in [Hosts -> Nat]
  /\ kickAge \in [Hosts -> Ages]
  /\ aliveAge \in [Hosts -> Ages]
  /\ state \in [Hosts -> [Daemons -> DaemonStates]]
  /\ goal \in [Hosts -> [Daemons -> DaemonStates]]
  /\ enabled \in [Hosts -> SUBSET Daemons]
  /\ fresh \in [Hosts -> SUBSET Daemons]
  /\ installed \subseteq Hosts
  /\ started \subseteq Hosts
  /\ done \subseteq Hosts
  /\ settled \in BOOLEAN
  /\ sinceFirst \in Ages
  /\ faults \in Nat

LEMMA TypesMeanTypeOK == Types => TypeOK
BY DEF Types, TypeOK, Ages

LEMMA StepTypes ==
  ASSUME NEW name \in StepNames
  PROVE  /\ Step(name) \in Steps
         /\ \A d \in Daemons : StepOn(name, d) \in Steps
         /\ \A S \in SUBSET Daemons : [do |-> name, on |-> S] \in Steps
BY DEF Step, StepOn, Steps

LEMMA PlanTypes ==
  /\ Packages \in Seq(Steps)
  /\ UpgradeMonitor \in Seq(Steps)
  /\ \A own \in BOOLEAN : UpgradeOsd(own) \in Seq(Steps)
  /\ \A d \in Daemons : UpgradeSingleOsd(d) \in Seq(Steps)
<1> USE StepTypes DEF StepNames
<1>1. Packages \in Seq(Steps)
  BY DEF Packages
<1>2. UpgradeMonitor \in Seq(Steps)
  BY DEF UpgradeMonitor
<1>3. ASSUME NEW own \in BOOLEAN PROVE UpgradeOsd(own) \in Seq(Steps)
  <2>1. <<Step("source"), Step("kick"), Step("install"), Step("kick")>> \in Seq(Steps)
    OBVIOUS
  <2>2. <<Step("kick"), Step("chown"), Step("each")>> \in Seq(Steps)
    OBVIOUS
  <2>3. <<Step("state"), Step("restart"), Step("goal")>> \in Seq(Steps)
    OBVIOUS
  <2> HIDE StepTypes
  <2> QED
    BY <2>1, <2>2, <2>3, ConcatProperties DEF UpgradeOsd
<1>4. ASSUME NEW d \in Daemons PROVE UpgradeSingleOsd(d) \in Seq(Steps)
  BY DEF UpgradeSingleOsd
<1> QED
  BY <1>1, <1>2, <1>3, <1>4

LEMMA PlanOf ==
  /\ job = "mon" => Plan = UpgradeMonitor
  /\ job = "osd" => Plan = UpgradeOsd(FALSE)
  /\ job = "osdChown" => Plan = UpgradeOsd(TRUE)
<1>1. ASSUME job = "mon" PROVE Plan = UpgradeMonitor
  BY <1>1, Zenon DEF Plan
<1>2. ASSUME job = "osd" PROVE Plan = UpgradeOsd(FALSE)
  <2>1. job # "mon" /\ job # "osdChown"
    BY <1>2
  <2> QED
    BY <1>2, <2>1, Zenon DEF Plan
<1>3. ASSUME job = "osdChown" PROVE Plan = UpgradeOsd(TRUE)
  <2>1. job # "mon" /\ job # "osd"
    BY <1>3
  <2> QED
    BY <1>3, <2>1, Zenon DEF Plan
<1> QED
  BY <1>1, <1>2, <1>3

LEMMA OlderAges ==
  ASSUME NEW limit
  PROVE  /\ \A age \in Ages : Older(age, limit) \in Ages
         /\ \A age \in Nat : Older(age, limit) \in Nat
BY DEF Older, Ages, Never

LEMMA InitTypes == Init => Types
<1> SUFFICES ASSUME Init PROVE Types
  OBVIOUS
<1> USE DEF Init
<1>1. pc \in [Hosts -> PCs]
  BY DEF PCs, Idle
<1>2. kickAge \in [Hosts -> Ages] /\ aliveAge \in [Hosts -> Ages] /\ sinceFirst \in Ages
  BY DEF Ages
<1>3. todo \in [Hosts -> Seq(Steps)]
  <2>1. <<>> \in Seq(Steps)
    OBVIOUS
  <2> QED
    BY <2>1
<1> QED
  BY <1>1, <1>2, <1>3 DEF Types

\* The steps of a plan, one by one.
LEMMA AdvanceTypes ==
  ASSUME Types, NEW n \in Hosts, NEW name, Takes(n, name), name # "none",
         Advance(n)
  PROVE  todo' \in [Hosts -> Seq(Steps)] /\ stepAge' \in [Hosts -> Nat]
<1>1. todo[n] \in Seq(Steps) /\ todo[n] # <<>>
  BY DEF Types, Takes, NextStep
<1>2. Tail(todo[n]) \in Seq(Steps)
  BY <1>1, HeadTailProperties
<1> QED
  BY <1>2 DEF Advance, Types

LEMMA OnTypes ==
  ASSUME Types, NEW n \in Hosts, NEW name, Takes(n, name), name # "none"
  PROVE  On(n) \in SUBSET Daemons
<1>1. todo[n] \in Seq(Steps) /\ todo[n] # <<>>
  BY DEF Types, Takes, NextStep
<1>2. Head(todo[n]) \in Steps
  BY <1>1, HeadTailProperties
<1> QED
  BY <1>2 DEF On, Steps

LEMMA GotoTypes ==
  ASSUME Types, NEW n \in Hosts, NEW label \in PCs, Goto(n, label)
  PROVE  pc' \in [Hosts -> PCs]
BY DEF Types, Goto

LEMMA ClockTypes ==
  ASSUME Types, NEW n \in Hosts
  PROVE  /\ StartClock(n) => waited' \in [Hosts -> Nat]
         /\ StartClock(n) \/ Poll(n) => stepAge' \in [Hosts -> Nat]
BY DEF Types, StartClock, Poll

LEMMA EndTypes ==
  ASSUME Types, NEW n \in Hosts, NEW label \in PCs, End(n, label)
  PROVE  /\ pc' \in [Hosts -> PCs]
         /\ todo' \in [Hosts -> Seq(Steps)]
         /\ kickAge' \in [Hosts -> Ages]
         /\ waited' \in [Hosts -> Nat]
         /\ stepAge' \in [Hosts -> Nat]
BY DEF Types, End, Goto, StartClock, Poll, Ages

LEMMA HappensTypes ==
  ASSUME Types, NEW kind, Happens(kind) PROVE faults' \in Nat
BY DEF Types, Happens

\* The hook between its upgrades.
LEMMA WaitingTypes ==
  ASSUME Types, NEW n \in Hosts,
         Begin(n) \/ PackagesDone(n) \/ AwaitStart(n) \/ AwaitDone(n)
           \/ AwaitAlive(n) \/ SetStart(n) \/ SetDone(n) \/ WaitAll(n)
           \/ Settle(n)
  PROVE  Types'
<1> USE DEF Types, daemons, store
<1>1. CASE Begin(n)
  <2>1. Packages \in Seq(Steps) /\ <<>> \in Seq(Steps)
    BY PlanTypes
  <2>2. attempts' \in [Hosts -> Nat] /\ sinceFirst' \in Ages
    BY <1>1 DEF Begin, Ages
  <2>3. pc' \in [Hosts -> PCs]
    BY <1>1 DEF Begin, TakePosition, Goto, PCs, Waiting
  <2>4. waited' \in [Hosts -> Nat] /\ stepAge' \in [Hosts -> Nat]
    <3>1. StartClock(n)
      BY <1>1 DEF Begin, TakePosition
    <3> QED
      BY <3>1, ClockTypes
  <2>5. todo' \in [Hosts -> Seq(Steps)]
    BY <1>1, <2>1 DEF Begin
  <2> QED
    BY <1>1, <2>2, <2>3, <2>4, <2>5 DEF Begin
<1>2. CASE PackagesDone(n)
  <2>1. "lock" \in PCs /\ "awaitStart" \in PCs
    BY DEF PCs, Waiting
  <2>2. pc' \in [Hosts -> PCs]
    BY <1>2, <2>1, GotoTypes DEF PackagesDone, TakePosition
  <2>3. waited' \in [Hosts -> Nat] /\ stepAge' \in [Hosts -> Nat]
    BY <1>2, ClockTypes DEF PackagesDone, TakePosition
  <2> QED
    BY <1>2, <2>2, <2>3 DEF PackagesDone
<1>3. CASE AwaitStart(n)
  <2>1. pc' \in [Hosts -> PCs]
    BY <1>3 DEF AwaitStart, Goto, PCs, Waiting
  <2>2. waited' \in [Hosts -> Nat] /\ stepAge' \in [Hosts -> Nat]
    BY <1>3, ClockTypes DEF AwaitStart
  <2>3. UNCHANGED <<job, todo, kickAge, attempts, daemons, store, settled,
                    sinceFirst, faults>>
    BY <1>3 DEF AwaitStart
  <2> QED
    BY <2>1, <2>2, <2>3
<1>4. CASE AwaitDone(n)
  BY <1>4 DEF AwaitDone, Goto, Poll, PCs, Waiting
<1>5. CASE AwaitAlive(n)
  BY <1>5, HappensTypes DEF AwaitAlive, Goto, Poll, PCs, Waiting
<1>6. CASE SetStart(n)
  <2>1. Plan \in Seq(Steps)
    <3>1. job \in {"mon", "osd", "osdChown"}
      BY RollingAssumption
    <3> QED
      BY <3>1, PlanTypes, PlanOf
  <2>2. kickAge' \in [Hosts -> Ages]
    BY <1>6 DEF SetStart, Ages
  <2>3. pc' \in [Hosts -> PCs]
    BY <1>6 DEF SetStart, Goto, PCs
  <2>4. todo' \in [Hosts -> Seq(Steps)]
    BY <1>6, <2>1 DEF SetStart
  <2>5. stepAge' \in [Hosts -> Nat]
    BY <1>6, ClockTypes DEF SetStart
  <2>6. started' \subseteq Hosts
    BY <1>6 DEF SetStart
  <2>7. UNCHANGED <<job, waited, attempts, daemons, done, aliveAge, settled,
                    sinceFirst, faults>>
    BY <1>6 DEF SetStart
  <2> HIDE <1>6
  <2> QED
    BY <2>2, <2>3, <2>4, <2>5, <2>6, <2>7
<1>7. CASE SetDone(n)
  <2>1. "waitAll" \in PCs /\ "ended" \in PCs
    BY DEF PCs, Idle
  <2> QED
    BY <1>7, <2>1, EndTypes DEF SetDone
<1>8. CASE WaitAll(n)
  <2>1. "raised" \in PCs /\ "settle" \in PCs
    BY DEF PCs, Idle
  <2>2. UNCHANGED <<job, attempts, daemons, store, settled, sinceFirst, faults>>
    BY <1>8 DEF WaitAll
  <2>3. CASE End(n, "raised") \/ End(n, "settle")
    BY <2>1, <2>2, <2>3, EndTypes
  <2>4. CASE Poll(n) /\ UNCHANGED <<pc, todo, waited, kickAge>>
    BY <2>2, <2>4, ClockTypes
  <2> QED
    BY <1>8, <2>3, <2>4 DEF WaitAll
<1>9. CASE Settle(n)
  BY <1>9 DEF Settle, Goto, PCs, Idle
<1> QED
  BY <1>1, <1>2, <1>3, <1>4, <1>5, <1>6, <1>7, <1>8, <1>9

\* The steps of an upgrade.
LEMMA WorkingTypes ==
  ASSUME Types, NEW n \in Hosts,
         Kick(n) \/ Work(n) \/ Install(n) \/ StopDaemon(n) \/ EnableOsd(n)
           \/ Restart(n) \/ RememberState(n) \/ AwaitGoal(n) \/ NextOsd(n)
  PROVE  Types'
<1> USE DEF Types, daemons, store, others
<1>1. CASE Kick(n)
  <2>1. todo' \in [Hosts -> Seq(Steps)] /\ stepAge' \in [Hosts -> Nat]
    BY <1>1, AdvanceTypes DEF Kick
  <2>2. kickAge' \in [Hosts -> Ages] /\ aliveAge' \in [Hosts -> Ages]
    <3>1. 0 \in Ages
      BY DEF Ages
    <3>2. CASE UNCHANGED <<kickAge, aliveAge>>
      BY <3>2
    <3>3. CASE kickAge' = [kickAge EXCEPT ![n] = 0] /\ aliveAge' = [aliveAge EXCEPT ![n] = 0]
      BY <3>1, <3>3
    <3> QED
      BY <1>1, <3>2, <3>3 DEF Kick
  <2>3. UNCHANGED <<job, pc, waited, attempts, daemons, started, done, settled,
                    sinceFirst, faults>>
    BY <1>1 DEF Kick
  <2> QED
    BY <2>1, <2>2, <2>3
<1>2. CASE Work(n)
  <2>1. todo' \in [Hosts -> Seq(Steps)] /\ stepAge' \in [Hosts -> Nat]
    BY <1>2, AdvanceTypes DEF Work
  <2> QED
    BY <1>2, <2>1 DEF Work
<1>3. CASE Install(n)
  <2>1. todo' \in [Hosts -> Seq(Steps)] /\ stepAge' \in [Hosts -> Nat]
    BY <1>3, AdvanceTypes DEF Install
  <2> QED
    BY <1>3, <2>1 DEF Install
<1>4. CASE StopDaemon(n)
  <2>1. todo' \in [Hosts -> Seq(Steps)] /\ stepAge' \in [Hosts -> Nat]
    BY <1>4, AdvanceTypes DEF StopDaemon
  <2>2. state' \in [Hosts -> [Daemons -> DaemonStates]]
    BY <1>4 DEF StopDaemon, SetState, DaemonStates
  <2>3. fresh' \in [Hosts -> SUBSET Daemons]
    BY <1>4 DEF StopDaemon
  <2>4. UNCHANGED <<others, goal, enabled, installed, faults>>
    BY <1>4 DEF StopDaemon
  <2> QED
    BY <2>1, <2>2, <2>3, <2>4
<1>5. CASE EnableOsd(n)
  <2>1. todo' \in [Hosts -> Seq(Steps)] /\ stepAge' \in [Hosts -> Nat]
    BY <1>5, AdvanceTypes DEF EnableOsd
  <2>2. On(n) \in SUBSET Daemons
    BY <1>5, OnTypes DEF EnableOsd
  <2>3. enabled' \in [Hosts -> SUBSET Daemons]
    BY <1>5, <2>2 DEF EnableOsd
  <2>4. UNCHANGED <<others, state, goal, fresh, installed, faults>>
    BY <1>5 DEF EnableOsd
  <2> QED
    BY <2>1, <2>3, <2>4
<1>6. CASE Restart(n)
  <2>1. todo' \in [Hosts -> Seq(Steps)] /\ stepAge' \in [Hosts -> Nat]
    BY <1>6, AdvanceTypes DEF Restart
  <2>2. On(n) \in SUBSET Daemons
    BY <1>6, OnTypes DEF Restart
  <2>3. PICK bad \in SUBSET On(n) :
          /\ IF bad = {} THEN UNCHANGED faults ELSE Happens("badStart")
          /\ state' = [state EXCEPT ![n] = [d \in Daemons |->
                         CASE d \in bad         -> "down"
                           [] d \in On(n) \ bad -> IF job = "mon" THEN "active"
                                                   ELSE "booting"
                           [] OTHER             -> @[d]]]
          /\ fresh' = [fresh EXCEPT ![n] = (@ \ bad) \union (On(n) \ bad)]
    BY <1>6 DEF Restart
  <2>4. faults' \in Nat
    BY <2>3, HappensTypes
  <2>5. fresh' \in [Hosts -> SUBSET Daemons]
    BY <2>2, <2>3
  <2>6. state' \in [Hosts -> [Daemons -> DaemonStates]]
    BY <2>3 DEF DaemonStates
  <2>7. UNCHANGED <<others, goal, enabled, installed>>
    BY <1>6 DEF Restart
  <2> QED
    BY <2>1, <2>4, <2>5, <2>6, <2>7
<1>7. CASE RememberState(n)
  <2>1. todo' \in [Hosts -> Seq(Steps)] /\ stepAge' \in [Hosts -> Nat]
    BY <1>7, AdvanceTypes DEF RememberState
  <2>2. goal' \in [Hosts -> [Daemons -> DaemonStates]]
    BY <1>7 DEF RememberState
  <2>3. UNCHANGED <<others, state, enabled, fresh, installed, faults>>
    BY <1>7 DEF RememberState
  <2> QED
    BY <2>1, <2>2, <2>3
<1>8. CASE AwaitGoal(n)
  <2>1. todo' \in [Hosts -> Seq(Steps)] /\ stepAge' \in [Hosts -> Nat]
    BY <1>8, AdvanceTypes DEF AwaitGoal
  <2> QED
    BY <1>8, <2>1 DEF AwaitGoal
<1>9. CASE NextOsd(n)
  <2>1. todo[n] \in Seq(Steps) /\ todo[n] # <<>> /\ On(n) \in SUBSET Daemons
    BY <1>9, OnTypes DEF NextOsd, Takes, NextStep
  <2>2. Tail(todo[n]) \in Seq(Steps)
    BY <2>1, HeadTailProperties
  <2>3. ASSUME NEW d \in On(n)
        PROVE  UpgradeSingleOsd(d) \o <<[do |-> "each", on |-> On(n) \ {d}]>>
                 \in Seq(Steps)
    <3>1. [do |-> "each", on |-> On(n) \ {d}] \in Steps
      BY <2>1, StepTypes DEF StepNames
    <3>2. <<[do |-> "each", on |-> On(n) \ {d}]>> \in Seq(Steps)
      BY <3>1
    <3> QED
      BY <2>1, <3>2, PlanTypes, ConcatProperties
  <2>4. todo' \in [Hosts -> Seq(Steps)]
    <3>1. CASE todo' = [todo EXCEPT ![n] = Tail(@)]
      BY <2>2, <3>1
    <3>2. ASSUME NEW d \in On(n),
                 todo' = [todo EXCEPT ![n] = UpgradeSingleOsd(d) \o
                            <<[do |-> "each", on |-> On(n) \ {d}]>>]
          PROVE  todo' \in [Hosts -> Seq(Steps)]
      BY <2>3, <3>2
    <3> QED
      BY <1>9, <3>1, <3>2 DEF NextOsd
  <2>5. stepAge' \in [Hosts -> Nat]
    BY <1>9, ClockTypes DEF NextOsd
  <2>6. UNCHANGED <<others, daemons, faults>>
    BY <1>9 DEF NextOsd
  <2> QED
    BY <2>4, <2>5, <2>6
<1> QED
  BY <1>1, <1>2, <1>3, <1>4, <1>5, <1>6, <1>7, <1>8, <1>9

\* Faults, and time.
LEMMA WorldTypes ==
  ASSUME Types,
         \/ \E n \in Hosts : Fail(n) \/ Reboot(n)
         \/ \E n \in Hosts, d \in Daemons : Boot(n, d)
         \/ Tick
  PROVE  Types'
<1> USE DEF Types, daemons, store, others
<1>1. ASSUME NEW n \in Hosts, Fail(n) PROVE Types'
  <2>1. UNCHANGED <<job, attempts, daemons, store, settled, sinceFirst>> /\ faults' \in Nat
    BY <1>1, HappensTypes DEF Fail
  <2>2. CASE End(n, "failed")
    <3>1. "failed" \in PCs
      BY DEF PCs, Idle
    <3> QED
      BY <2>1, <2>2, <3>1, EndTypes
  <2>3. CASE pc[n] = "roll" /\ InBlock(n)
    <3>1. todo[n] # <<>>
      BY <2>3 DEF InBlock
    <3>2. On(n) \in SUBSET Daemons
      <4>1. Head(todo[n]) \in Steps
        BY <3>1, HeadTailProperties
      <4> QED
        BY <4>1 DEF On, Steps
    <3>3. <<[do |-> "goal", on |-> On(n)], Step("exit")>> \in Seq(Steps)
      <4>1. [do |-> "goal", on |-> On(n)] \in Steps /\ Step("exit") \in Steps
        BY <3>2, StepTypes DEF StepNames
      <4> QED
        BY <4>1
    <3>4. todo' = [todo EXCEPT ![n] = <<[do |-> "goal", on |-> On(n)], Step("exit")>>]
            /\ Poll(n) /\ UNCHANGED <<pc, waited, kickAge>>
      BY <1>1, <2>3 DEF Fail
    <3>5. todo' \in [Hosts -> Seq(Steps)]
      BY <3>3, <3>4
    <3>6. stepAge' \in [Hosts -> Nat]
      BY <3>4, ClockTypes
    <3> QED
      BY <2>1, <3>4, <3>5, <3>6
  <2> QED
    BY <1>1, <2>2, <2>3 DEF Fail
<1>2. ASSUME NEW n \in Hosts, Reboot(n) PROVE Types'
  <2>1. "failed" \in PCs
    BY DEF PCs, Idle
  <2>2. End(n, "failed") /\ faults' \in Nat
    BY <1>2, HappensTypes DEF Reboot
  <2>3. state' \in [Hosts -> [Daemons -> DaemonStates]]
    BY <1>2 DEF Reboot, DaemonStates
  <2>4. fresh' \in [Hosts -> SUBSET Daemons]
    BY <1>2 DEF Reboot
  <2>5. UNCHANGED <<job, attempts, goal, enabled, installed, store, settled, sinceFirst>>
    BY <1>2 DEF Reboot
  <2> QED
    BY <2>1, <2>2, <2>3, <2>4, <2>5, EndTypes
<1>3. ASSUME NEW n \in Hosts, NEW d \in Daemons, Boot(n, d) PROVE Types'
  <2>1. state' \in [Hosts -> [Daemons -> DaemonStates]]
    BY <1>3 DEF Boot, DaemonStates
  <2>2. UNCHANGED <<others, todo, stepAge, goal, enabled, fresh, installed, faults>>
    BY <1>3 DEF Boot
  <2> QED
    BY <2>1, <2>2
<1>4. ASSUME Tick PROVE Types'
  <2>1. waited' \in [Hosts -> Nat]
    BY <1>4, OlderAges DEF Tick
  <2>2. stepAge' \in [Hosts -> Nat]
    BY <1>4 DEF Tick
  <2>3. kickAge' \in [Hosts -> Ages] /\ aliveAge' \in [Hosts -> Ages] /\ sinceFirst' \in Ages
    BY <1>4, OlderAges DEF Tick
  <2>4. UNCHANGED <<job, pc, todo, attempts, daemons, started, done, settled, faults>>
    BY <1>4 DEF Tick
  <2> QED
    BY <2>1, <2>2, <2>3, <2>4
<1> QED
  BY <1>1, <1>2, <1>3, <1>4

LEMMA NextTypes == Types /\ [Next]_vars => Types'
<1> SUFFICES ASSUME Types, [Next]_vars PROVE Types'
  OBVIOUS
<1>1. CASE UNCHANGED vars
  BY <1>1 DEF Types, vars, daemons, store
<1>2. CASE Next
  BY <1>2, WaitingTypes, WorkingTypes, WorldTypes DEF Next, Run
<1> QED
  BY <1>1, <1>2

\* The state of a roll keeps its types, for any clocks, bounds and faults.
THEOREM TypeCorrect == Spec => []TypeOK
<1> QED
  BY InitTypes, NextTypes, TypesMeanTypeOK, PTL DEF Spec

-----------------------------------------------------------------------------
(* What the steps that a host has left still do.  T is such a list of      *)
(* steps, d a daemon, st and gl the states of the host's daemons and those *)
(* that are remembered, en and fr the daemons that are enabled and fresh.  *)

Is(step, name, d) == step.do = name /\ d \in step.on

Has(T, name) == \E i \in 1 .. Len(T) : T[i].do = name

Ahead(T, name, d) == \E i \in 1 .. Len(T) : Is(T[i], name, d)

\* Every a of the daemon has a b after it.
Followed(T, a, b, d) ==
  \A j \in 1 .. Len(T) : Is(T[j], a, d) =>
    \E i \in 1 .. Len(T) : j < i /\ Is(T[i], b, d)

\* The wait for the remembered state comes before the state is remembered anew.
GoalAhead(T, d) ==
  \E i \in 1 .. Len(T) :
    Is(T[i], "goal", d) /\ \A k \in 1 .. i : ~Is(T[k], "state", d)

\* After every restart of the daemon comes such a wait, for a state in which
\* it is not down.
Awaited(T, d, gl) ==
  \A j \in 1 .. Len(T) : Is(T[j], "restart", d) =>
    /\ \E i \in 1 .. Len(T) :
         /\ j < i /\ Is(T[i], "goal", d)
         /\ \A k \in j .. i : ~Is(T[k], "state", d)
    /\ \/ gl[d] # "down"
       \/ \E k \in 1 .. Len(T) : k < j /\ Is(T[k], "state", d)

OsdSteps(T, d, st, gl, en, fr) ==
  /\ d \in en \/ Ahead(T, "enable", d) \/ Ahead(T, "each", d)
  /\ Followed(T, "disable", "enable", d)
  /\ \/ d \in fr
     \/ Ahead(T, "restart", d)
     \/ Ahead(T, "each", d)
     \/ st[d] = "down" /\ gl[d] # "down" /\ GoalAhead(T, d)
  /\ Followed(T, "stop", "restart", d)
  /\ Awaited(T, d, gl)

MonSteps(T, d, st, fr) == st[d] = "down" \/ d \in fr \/ Ahead(T, "restart", d)

\* What can raise in a with block of maintain_osd_state comes when one of its
\* OSDs is down that was not.
InnerSteps(T, st, gl) ==
  \A i \in 1 .. Len(T) :
    /\ T[i].do \in Raising
    /\ \E k \in i .. Len(T) : T[k].do = "goal" /\ \A j \in i .. k : T[j].do # "state"
    => \E d \in T[i].on :
         /\ gl[d] # "down" \/ \E j \in 1 .. Len(T) : j < i /\ Is(T[j], "state", d)
         /\ st[d] = "down" \/ \E j \in 1 .. Len(T) : j < i /\ Is(T[j], "stop", d)
         /\ \A j \in 1 .. Len(T) : j < i => ~Is(T[j], "restart", d)

EachIsLast(T) == \A i \in 1 .. Len(T) : T[i].do = "each" => i = Len(T)

LEMMA TailSteps ==
  ASSUME NEW T \in Seq(Steps), T # <<>>
  PROVE  /\ Len(T) \in Nat /\ Len(T) > 0
         /\ Head(T) = T[1]
         /\ Tail(T) \in Seq(Steps)
         /\ Len(Tail(T)) = Len(T) - 1
         /\ \A i \in 1 .. Len(T) - 1 : Tail(T)[i] = T[i + 1]
         /\ \A i \in 1 .. Len(T) : i # 1 =>
              i - 1 \in 1 .. Len(T) - 1 /\ Tail(T)[i - 1] = T[i]
<1>1. /\ Len(T) \in Nat /\ Len(T) > 0 /\ Head(T) = T[1]
  OBVIOUS
<1>2. /\ Tail(T) \in Seq(Steps) /\ Len(Tail(T)) = Len(T) - 1
      /\ \A i \in 1 .. Len(T) - 1 : Tail(T)[i] = T[i + 1]
  BY HeadTailProperties
<1>3. ASSUME NEW i \in 1 .. Len(T), i # 1
      PROVE  i - 1 \in 1 .. Len(T) - 1 /\ Tail(T)[i - 1] = T[i]
  <2>1. i - 1 \in 1 .. Len(T) - 1 /\ (i - 1) + 1 = i
    BY <1>1, <1>3
  <2> QED
    BY <1>2, <2>1
<1> QED
  BY <1>1, <1>2, <1>3

LEMMA HasTail ==
  ASSUME NEW T \in Seq(Steps), T # <<>>, NEW name
  PROVE  Has(T, name) <=> (Head(T).do = name \/ Has(Tail(T), name))
<1> USE TailSteps
<1>1. ASSUME Has(T, name), Head(T).do # name PROVE Has(Tail(T), name)
  <2>1. PICK i \in 1 .. Len(T) : T[i].do = name
    BY <1>1 DEF Has
  <2>2. i # 1
    BY <1>1, <2>1
  <2> QED
    BY <2>1, <2>2 DEF Has
<1>2. ASSUME Has(Tail(T), name) PROVE Has(T, name)
  <2>1. PICK i \in 1 .. Len(T) - 1 : T[i + 1].do = name
    BY <1>2 DEF Has
  <2>2. i + 1 \in 1 .. Len(T)
    OBVIOUS
  <2> QED
    BY <2>1, <2>2 DEF Has
<1>3. ASSUME Head(T).do = name PROVE Has(T, name)
  <2>1. 1 \in 1 .. Len(T)
    OBVIOUS
  <2> QED
    BY <1>3, <2>1 DEF Has
<1> QED
  BY <1>1, <1>2, <1>3

LEMMA AheadTail ==
  ASSUME NEW T \in Seq(Steps), T # <<>>, NEW name, NEW d, Ahead(T, name, d)
  PROVE  Is(Head(T), name, d) \/ Ahead(Tail(T), name, d)
<1> SUFFICES ASSUME ~Is(Head(T), name, d) PROVE Ahead(Tail(T), name, d)
  OBVIOUS
<1> USE TailSteps
<1>1. PICK i \in 1 .. Len(T) : Is(T[i], name, d)
  BY DEF Ahead
<1>2. i # 1
  BY <1>1
<1>3. i - 1 \in 1 .. Len(Tail(T)) /\ Is(Tail(T)[i - 1], name, d)
  BY <1>1, <1>2
<1> HIDE TailSteps
<1> QED
  BY <1>3 DEF Ahead

LEMMA FollowedTail ==
  ASSUME NEW T \in Seq(Steps), T # <<>>, NEW a, NEW b, NEW d, Followed(T, a, b, d)
  PROVE  /\ Followed(Tail(T), a, b, d)
         /\ Is(Head(T), a, d) => Ahead(Tail(T), b, d)
<1> USE TailSteps
<1>1. ASSUME NEW j \in 1 .. Len(T), Is(T[j], a, d)
      PROVE  \E i \in 1 .. Len(T) - 1 : j <= i /\ Is(Tail(T)[i], b, d)
  <2>1. PICK i \in 1 .. Len(T) : j < i /\ Is(T[i], b, d)
    BY <1>1 DEF Followed
  <2>2. i # 1 /\ j <= i - 1
    BY <2>1
  <2> QED
    BY <2>1, <2>2
<1>2. Is(Head(T), a, d) => Ahead(Tail(T), b, d)
  BY <1>1 DEF Ahead
<1>3. ASSUME NEW j \in 1 .. Len(T) - 1, Is(Tail(T)[j], a, d)
      PROVE  \E i \in 1 .. Len(T) - 1 : j < i /\ Is(Tail(T)[i], b, d)
  <2>1. j + 1 \in 1 .. Len(T) /\ Is(T[j + 1], a, d)
    BY <1>3
  <2>2. PICK i \in 1 .. Len(T) - 1 : j + 1 <= i /\ Is(Tail(T)[i], b, d)
    BY <1>1, <2>1
  <2> QED
    BY <2>2
<1> QED
  BY <1>2, <1>3 DEF Followed

LEMMA GoalAheadTail ==
  ASSUME NEW T \in Seq(Steps), T # <<>>, NEW d, GoalAhead(T, d)
  PROVE  Is(Head(T), "goal", d) \/ GoalAhead(Tail(T), d)
<1> SUFFICES ASSUME ~Is(Head(T), "goal", d) PROVE GoalAhead(Tail(T), d)
  OBVIOUS
<1> USE TailSteps
<1>1. PICK i \in 1 .. Len(T) :
        Is(T[i], "goal", d) /\ \A k \in 1 .. i : ~Is(T[k], "state", d)
  BY DEF GoalAhead
<1>2. i # 1
  BY <1>1
<1>3. i - 1 \in 1 .. Len(Tail(T)) /\ Is(Tail(T)[i - 1], "goal", d)
  BY <1>1, <1>2
<1>4. ASSUME NEW k \in 1 .. (i - 1) PROVE ~Is(Tail(T)[k], "state", d)
  <2>1. k \in 1 .. Len(T) - 1 /\ k + 1 \in 1 .. i
    OBVIOUS
  <2> QED
    BY <1>1, <2>1
<1> HIDE TailSteps
<1> QED
  BY <1>3, <1>4 DEF GoalAhead

LEMMA AwaitedTail ==
  ASSUME NEW T \in Seq(Steps), T # <<>>, NEW d, NEW gl, NEW gl2, Awaited(T, d, gl),
         IF Is(Head(T), "state", d) THEN gl2[d] # "down" ELSE gl2[d] = gl[d]
  PROVE  /\ Awaited(Tail(T), d, gl2)
         /\ Is(Head(T), "restart", d) => gl[d] # "down" /\ GoalAhead(Tail(T), d)
<1> USE TailSteps
<1>1. ASSUME NEW j \in 1 .. Len(T), Is(T[j], "restart", d)
      PROVE  \E i \in 1 .. Len(T) - 1 :
               /\ j <= i /\ Is(Tail(T)[i], "goal", d)
               /\ \A k \in 1 .. Len(T) - 1 :
                    j <= k + 1 /\ k <= i => ~Is(Tail(T)[k], "state", d)
  <2>1. PICK i \in 1 .. Len(T) :
          /\ j < i /\ Is(T[i], "goal", d)
          /\ \A k \in j .. i : ~Is(T[k], "state", d)
    BY <1>1 DEF Awaited
  <2>2. i # 1 /\ j <= i - 1
    BY <2>1
  <2>3. i - 1 \in 1 .. Len(T) - 1 /\ Is(Tail(T)[i - 1], "goal", d)
    BY <2>1, <2>2
  <2>4. ASSUME NEW k \in 1 .. Len(T) - 1, j <= k + 1 /\ k <= i - 1
        PROVE  ~Is(Tail(T)[k], "state", d)
    <3>1. k + 1 \in j .. i
      BY <2>4
    <3> QED
      BY <2>1, <3>1
  <2> HIDE TailSteps
  <2> QED
    BY <2>2, <2>3, <2>4
<1>2. ASSUME Is(Head(T), "restart", d)
      PROVE  gl[d] # "down" /\ GoalAhead(Tail(T), d)
  <2>1. 1 \in 1 .. Len(T) /\ Is(T[1], "restart", d)
    BY <1>2
  <2>2. gl[d] # "down"
    BY <2>1 DEF Awaited
  <2>3. PICK i \in 1 .. Len(T) - 1 :
               /\ 1 <= i /\ Is(Tail(T)[i], "goal", d)
               /\ \A k \in 1 .. Len(T) - 1 :
                    1 <= k + 1 /\ k <= i => ~Is(Tail(T)[k], "state", d)
    BY <1>1, <2>1
  <2>4. ASSUME NEW k \in 1 .. i PROVE ~Is(Tail(T)[k], "state", d)
    <3>1. k \in 1 .. Len(T) - 1 /\ 1 <= k + 1 /\ k <= i
      OBVIOUS
    <3> QED
      BY <2>3, <3>1
  <2> QED
    BY <2>2, <2>3, <2>4 DEF GoalAhead
<1>3. ASSUME NEW j \in 1 .. Len(T) - 1, Is(Tail(T)[j], "restart", d)
      PROVE  /\ \E i \in 1 .. Len(T) - 1 :
                  /\ j < i /\ Is(Tail(T)[i], "goal", d)
                  /\ \A k \in j .. i : ~Is(Tail(T)[k], "state", d)
             /\ \/ gl2[d] # "down"
                \/ \E k \in 1 .. Len(T) - 1 : k < j /\ Is(Tail(T)[k], "state", d)
  <2>1. j + 1 \in 1 .. Len(T) /\ Is(T[j + 1], "restart", d)
    BY <1>3
  <2>2. PICK i \in 1 .. Len(T) - 1 :
               /\ j + 1 <= i /\ Is(Tail(T)[i], "goal", d)
               /\ \A k \in 1 .. Len(T) - 1 :
                    j + 1 <= k + 1 /\ k <= i => ~Is(Tail(T)[k], "state", d)
    BY <1>1, <2>1
  <2>3. \A k \in j .. i : ~Is(Tail(T)[k], "state", d)
    BY <2>2
  <2>4. gl2[d] # "down"
        \/ \E k \in 1 .. Len(T) - 1 : k < j /\ Is(Tail(T)[k], "state", d)
    <3>1. CASE gl[d] # "down" \/ Is(Head(T), "state", d)
      BY <3>1
    <3>2. CASE ~(gl[d] # "down") /\ ~Is(Head(T), "state", d)
      <4>1. PICK k \in 1 .. Len(T) : k < j + 1 /\ Is(T[k], "state", d)
        BY <2>1, <3>2 DEF Awaited
      <4>2. k # 1
        BY <3>2, <4>1
      <4>3. k - 1 \in 1 .. Len(T) - 1 /\ k - 1 < j /\ Is(Tail(T)[k - 1], "state", d)
        BY <4>1, <4>2
      <4> HIDE TailSteps
      <4> QED
        BY <4>3
    <3> QED
      BY <3>1, <3>2
  <2> QED
    BY <2>2, <2>3, <2>4
<1> QED
  BY <1>2, <1>3 DEF Awaited

LEMMA InnerTail ==
  ASSUME NEW T \in Seq(Steps), T # <<>>, NEW st, NEW gl, NEW st2, NEW gl2,
         InnerSteps(T, st, gl),
         \A d \in Daemons :
           /\ IF Is(Head(T), "state", d) THEN gl2[d] # "down" ELSE gl2[d] = gl[d]
           /\ Is(Head(T), "stop", d) => st2[d] = "down"
           /\ st[d] = "down" /\ ~Is(Head(T), "restart", d) => st2[d] = "down"
  PROVE  InnerSteps(Tail(T), st2, gl2)
<1> USE TailSteps
<1> SUFFICES ASSUME NEW i \in 1 .. Len(T) - 1, Tail(T)[i].do \in Raising,
                    NEW k \in i .. Len(T) - 1, Tail(T)[k].do = "goal",
                    \A j \in i .. k : Tail(T)[j].do # "state"
             PROVE  \E d \in Tail(T)[i].on :
                      /\ gl2[d] # "down" \/ \E j \in 1 .. Len(T) - 1 :
                           j < i /\ Is(Tail(T)[j], "state", d)
                      /\ st2[d] = "down" \/ \E j \in 1 .. Len(T) - 1 :
                           j < i /\ Is(Tail(T)[j], "stop", d)
                      /\ \A j \in 1 .. Len(T) - 1 : j < i => ~Is(Tail(T)[j], "restart", d)
  BY DEF InnerSteps
<1>1. i + 1 \in 1 .. Len(T) /\ k + 1 \in i + 1 .. Len(T) /\ k \in 1 .. Len(T) - 1
  OBVIOUS
<1>2. T[i + 1] = Tail(T)[i] /\ T[k + 1].do = "goal"
  BY <1>1
<1>3. ASSUME NEW j \in i + 1 .. k + 1 PROVE T[j].do # "state"
  <2>1. j - 1 \in i .. k /\ j \in 1 .. Len(T) /\ j # 1
    BY <1>1
  <2> QED
    BY <2>1
<1>4. PICK d \in T[i + 1].on :
        /\ gl[d] # "down" \/ \E j \in 1 .. Len(T) : j < i + 1 /\ Is(T[j], "state", d)
        /\ st[d] = "down" \/ \E j \in 1 .. Len(T) : j < i + 1 /\ Is(T[j], "stop", d)
        /\ \A j \in 1 .. Len(T) : j < i + 1 => ~Is(T[j], "restart", d)
  BY <1>1, <1>2, <1>3 DEF InnerSteps
<1>5. d \in Daemons /\ d \in Tail(T)[i].on
  <2>1. T[i + 1] \in Steps
    BY <1>1
  <2> QED
    BY <1>2, <1>4, <2>1 DEF Steps
<1>6. ~Is(Head(T), "restart", d)
  <2>1. 1 \in 1 .. Len(T) /\ 1 < i + 1
    OBVIOUS
  <2> QED
    BY <1>4, <2>1
<1>7. gl2[d] # "down" \/ \E j \in 1 .. Len(T) - 1 : j < i /\ Is(Tail(T)[j], "state", d)
  <2>1. CASE gl[d] # "down" \/ Is(Head(T), "state", d)
    BY <1>5, <2>1
  <2>2. CASE ~(gl[d] # "down") /\ ~Is(Head(T), "state", d)
    <3>1. PICK j \in 1 .. Len(T) : j < i + 1 /\ Is(T[j], "state", d)
      BY <1>4, <2>2
    <3>2. j # 1
      BY <2>2, <3>1
    <3>3. j - 1 \in 1 .. Len(T) - 1 /\ j - 1 < i /\ Is(Tail(T)[j - 1], "state", d)
      BY <3>1, <3>2
    <3> HIDE TailSteps
    <3> QED
      BY <3>3
  <2> QED
    BY <2>1, <2>2
<1>8. st2[d] = "down" \/ \E j \in 1 .. Len(T) - 1 : j < i /\ Is(Tail(T)[j], "stop", d)
  <2>1. CASE st[d] = "down" \/ Is(Head(T), "stop", d)
    BY <1>5, <1>6, <2>1
  <2>2. CASE ~(st[d] = "down") /\ ~Is(Head(T), "stop", d)
    <3>1. PICK j \in 1 .. Len(T) : j < i + 1 /\ Is(T[j], "stop", d)
      BY <1>4, <2>2
    <3>2. j # 1
      BY <2>2, <3>1
    <3>3. j - 1 \in 1 .. Len(T) - 1 /\ j - 1 < i /\ Is(Tail(T)[j - 1], "stop", d)
      BY <3>1, <3>2
    <3> HIDE TailSteps
    <3> QED
      BY <3>3
  <2> QED
    BY <2>1, <2>2
<1>9. ASSUME NEW j \in 1 .. Len(T) - 1, j < i PROVE ~Is(Tail(T)[j], "restart", d)
  <2>1. j + 1 \in 1 .. Len(T) /\ j + 1 < i + 1
    BY <1>9
  <2> QED
    BY <1>4, <2>1
<1> HIDE TailSteps
<1> QED
  BY <1>5, <1>7, <1>8, <1>9

LEMMA EachTail ==
  ASSUME NEW T \in Seq(Steps), T # <<>>, EachIsLast(T)
  PROVE  EachIsLast(Tail(T))
<1> USE TailSteps
<1> SUFFICES ASSUME NEW i \in 1 .. Len(T) - 1, Tail(T)[i].do = "each"
             PROVE  i = Len(T) - 1
  BY DEF EachIsLast
<1>1. i + 1 \in 1 .. Len(T) /\ T[i + 1].do = "each"
  OBVIOUS
<1> QED
  BY <1>1 DEF EachIsLast

-----------------------------------------------------------------------------
(* A step of an upgrade is carried out.                                    *)

\* What it does to the daemons, as far as the properties depend on it.
Effect(h, st, gl, en, fr, st2, gl2, en2, fr2) ==
  \A d \in Daemons :
    /\ h.do = "each" => h.on = {}
    /\ Is(h, "goal", d) => st[d] = gl[d]
    /\ IF Is(h, "state", d) THEN gl2[d] # "down" ELSE gl2[d] = gl[d]
    /\ Is(h, "stop", d) => st2[d] = "down"
    /\ st[d] = "down" /\ ~Is(h, "restart", d) => st2[d] = "down"
    /\ Is(h, "restart", d) => d \in fr2 \/ st2[d] = "down"
    /\ d \in fr /\ ~Is(h, "stop", d) /\ ~Is(h, "restart", d) => d \in fr2
    /\ Is(h, "enable", d) => d \in en2
    /\ d \in en /\ ~Is(h, "disable", d) => d \in en2

LEMMA OsdTail ==
  ASSUME NEW T \in Seq(Steps), T # <<>>, NEW d \in Daemons,
         NEW st, NEW gl, NEW en, NEW fr, NEW st2, NEW gl2, NEW en2, NEW fr2,
         Effect(Head(T), st, gl, en, fr, st2, gl2, en2, fr2),
         OsdSteps(T, d, st, gl, en, fr)
  PROVE  OsdSteps(Tail(T), d, st2, gl2, en2, fr2)
<1> DEFINE h == Head(T)
           R == Tail(T)
<1>1. Followed(R, "disable", "enable", d) /\ Followed(R, "stop", "restart", d)
  BY FollowedTail DEF OsdSteps
<1>2. /\ Awaited(R, d, gl2)
      /\ Is(h, "restart", d) => gl[d] # "down" /\ GoalAhead(R, d)
  BY AwaitedTail DEF OsdSteps, Effect
<1>3. d \in en2 \/ Ahead(R, "enable", d) \/ Ahead(R, "each", d)
  <2>1. Is(h, "disable", d) => Ahead(R, "enable", d)
    BY FollowedTail DEF OsdSteps
  <2>2. Ahead(T, "enable", d) => Is(h, "enable", d) \/ Ahead(R, "enable", d)
    BY AheadTail
  <2>3. Ahead(T, "each", d) => Ahead(R, "each", d)
    BY AheadTail DEF Effect, Is
  <2> QED
    BY <2>1, <2>2, <2>3 DEF OsdSteps, Effect
<1>4. \/ d \in fr2
      \/ Ahead(R, "restart", d)
      \/ Ahead(R, "each", d)
      \/ st2[d] = "down" /\ gl2[d] # "down" /\ GoalAhead(R, d)
  <2>1. CASE Is(h, "restart", d)
    <3>1. ~Is(h, "state", d)
      BY <2>1 DEF Is
    <3> QED
      BY <1>2, <2>1, <3>1 DEF Effect
  <2>2. CASE ~Is(h, "restart", d) /\ d \in fr
    <3>1. Is(h, "stop", d) => Ahead(R, "restart", d)
      BY FollowedTail DEF OsdSteps
    <3> QED
      BY <2>2, <3>1 DEF Effect
  <2>3. CASE ~Is(h, "restart", d) /\ Ahead(T, "restart", d)
    BY <2>3, AheadTail
  <2>4. CASE Ahead(T, "each", d)
    <3>1. ~Is(h, "each", d)
      BY DEF Effect, Is
    <3> QED
      BY <2>4, <3>1, AheadTail
  <2>5. CASE ~Is(h, "restart", d) /\ st[d] = "down" /\ gl[d] # "down" /\ GoalAhead(T, d)
    <3>1. st2[d] = "down" /\ ~Is(h, "goal", d)
      BY <2>5 DEF Effect
    <3>2. GoalAhead(R, d)
      BY <2>5, <3>1, GoalAheadTail
    <3>3. gl2[d] # "down"
      BY <2>5 DEF Effect
    <3> QED
      BY <3>1, <3>2, <3>3
  <2> QED
    BY <2>1, <2>2, <2>3, <2>4, <2>5 DEF OsdSteps
<1> QED
  BY <1>1, <1>2, <1>3, <1>4 DEF OsdSteps

LEMMA MonTail ==
  ASSUME NEW T \in Seq(Steps), T # <<>>, NEW d \in Daemons,
         NEW st, NEW gl, NEW en, NEW fr, NEW st2, NEW gl2, NEW en2, NEW fr2,
         Effect(Head(T), st, gl, en, fr, st2, gl2, en2, fr2),
         MonSteps(T, d, st, fr)
  PROVE  MonSteps(Tail(T), d, st2, fr2)
<1>1. CASE Is(Head(T), "restart", d)
  BY <1>1 DEF MonSteps, Effect
<1>2. CASE ~Is(Head(T), "restart", d) /\ Ahead(T, "restart", d)
  BY <1>2, AheadTail DEF MonSteps
<1>3. CASE ~Is(Head(T), "restart", d) /\ ~Ahead(T, "restart", d)
  BY <1>3 DEF MonSteps, Effect
<1> QED
  BY <1>1, <1>2, <1>3

-----------------------------------------------------------------------------
(* The plans.                                                              *)

LEMMA MonPlan ==
  LET T == UpgradeMonitor IN
  /\ Has(T, "install") /\ ~Has(T, "goal") /\ ~Has(T, "each")
  /\ \A d \in Daemons : Ahead(T, "restart", d)
<1> DEFINE T == UpgradeMonitor
<1>1. /\ Len(T) = 9
      /\ T[1] = Step("kick") /\ T[2] = Step("source") /\ T[3] = Step("kick")
      /\ T[4] = Step("install") /\ T[5] = Step("stop") /\ T[6] = Step("kick")
      /\ T[7] = Step("chown") /\ T[8] = Step("kick") /\ T[9] = Step("restart")
  BY DEF UpgradeMonitor
<1> HIDE DEF T
<1>2. /\ 4 \in 1 .. Len(T) /\ T[4].do = "install"
      /\ 9 \in 1 .. Len(T) /\ \A d \in Daemons : Is(T[9], "restart", d)
  BY <1>1 DEF Step, Is
<1>3. Has(T, "install") /\ \A d \in Daemons : Ahead(T, "restart", d)
  BY <1>2 DEF Has, Ahead
<1>4. ASSUME NEW i \in 1 .. Len(T) PROVE T[i].do \notin {"goal", "each"}
  <2>1. i \in {1, 2, 3, 4, 5, 6, 7, 8, 9}
    BY <1>1
  <2> QED
    BY <1>1, <2>1 DEF Step
<1>5. ~Has(T, "goal") /\ ~Has(T, "each")
  BY <1>4 DEF Has
<1> QED
  BY <1>3, <1>5 DEF T

\* The steps of the plans, one by one.
LEMMA OsdPlanSteps ==
  LET T == UpgradeOsd(FALSE) IN
  /\ Len(T) = 7
  /\ T[1] = Step("source") /\ T[2] = Step("kick") /\ T[3] = Step("install")
  /\ T[4] = Step("kick") /\ T[5] = Step("state") /\ T[6] = Step("restart")
  /\ T[7] = Step("goal")
<1> DEFINE T == UpgradeOsd(FALSE)
           A == <<Step("source"), Step("kick"), Step("install"), Step("kick")>>
           B == <<Step("state"), Step("restart"), Step("goal")>>
<1>1. A \in Seq(Steps) /\ B \in Seq(Steps) /\ Len(A) = 4 /\ Len(B) = 3
  BY StepTypes DEF StepNames
<1>2. /\ A[1] = Step("source") /\ A[2] = Step("kick") /\ A[3] = Step("install")
      /\ A[4] = Step("kick")
      /\ B[1] = Step("state") /\ B[2] = Step("restart") /\ B[3] = Step("goal")
  OBVIOUS
<1>3. T = A \o B
  BY DEF UpgradeOsd
<1> HIDE DEF T, A, B
<1>4. /\ Len(T) = 7
      /\ \A i \in 1 .. 7 : T[i] = IF i <= 4 THEN A[i] ELSE B[i - 4]
  <2>1. /\ Len(A \o B) = Len(A) + Len(B)
        /\ \A i \in 1 .. Len(A) + Len(B) :
             (A \o B)[i] = IF i <= Len(A) THEN A[i] ELSE B[i - Len(A)]
    BY <1>1, ConcatProperties
  <2>2. Len(A) + Len(B) = 7
    BY <1>1
  <2> QED
    BY <1>1, <1>3, <2>1, <2>2
<1>5. /\ Len(T) = 7
      /\ T[1] = Step("source") /\ T[2] = Step("kick") /\ T[3] = Step("install")
      /\ T[4] = Step("kick") /\ T[5] = Step("state") /\ T[6] = Step("restart")
      /\ T[7] = Step("goal")
  BY <1>2, <1>4
<1> QED
  BY <1>5, Zenon DEF T

\* Without a change of owners.
LEMMA OsdPlan ==
  ASSUME NEW st, NEW gl, NEW en, NEW fr, Daemons \subseteq en
  PROVE  LET T == UpgradeOsd(FALSE) IN
         /\ Has(T, "install") /\ ~Has(T, "disable") /\ ~Has(T, "each")
         /\ \A d \in Daemons : OsdSteps(T, d, st, gl, en, fr)
         /\ InnerSteps(T, st, gl) /\ EachIsLast(T)
<1> DEFINE T == UpgradeOsd(FALSE)
<1>2. /\ Len(T) = 7
      /\ T[1] = Step("source") /\ T[2] = Step("kick") /\ T[3] = Step("install")
      /\ T[4] = Step("kick") /\ T[5] = Step("state") /\ T[6] = Step("restart")
      /\ T[7] = Step("goal")
  BY OsdPlanSteps
<1> HIDE DEF T
<1>3. \A i \in 1 .. Len(T) : i \in {1, 2, 3, 4, 5, 6, 7}
  BY <1>2
<1>4. Has(T, "install") /\ ~Has(T, "disable") /\ ~Has(T, "each")
  <2>1. 3 \in 1 .. Len(T) /\ T[3].do = "install"
    BY <1>2 DEF Step
  <2>2. \A i \in 1 .. Len(T) : T[i].do \notin {"disable", "each"}
    BY <1>2, <1>3 DEF Step
  <2> QED
    BY <2>1, <2>2 DEF Has
<1>5. ASSUME NEW d \in Daemons PROVE OsdSteps(T, d, st, gl, en, fr)
  <2>1. \A i \in 1 .. Len(T) : ~Is(T[i], "disable", d) /\ ~Is(T[i], "stop", d)
    BY <1>2, <1>3 DEF Step, Is
  <2>2. \A i \in 1 .. Len(T) : Is(T[i], "restart", d) => i = 6
    BY <1>2, <1>3 DEF Step, Is
  <2>3. /\ 5 \in 1 .. Len(T) /\ Is(T[5], "state", d)
        /\ 6 \in 1 .. Len(T) /\ Is(T[6], "restart", d)
        /\ 7 \in 1 .. Len(T) /\ Is(T[7], "goal", d)
    BY <1>2 DEF Step, Is
  <2>4. \A k \in 6 .. 7 : ~Is(T[k], "state", d)
    <3>1. \A k \in 6 .. 7 : k = 6 \/ k = 7
      OBVIOUS
    <3> QED
      BY <1>2, <3>1 DEF Step, Is
  <2>5. Awaited(T, d, gl)
    BY <2>2, <2>3, <2>4 DEF Awaited
  <2>6. Ahead(T, "restart", d)
    BY <2>3 DEF Ahead
  <2> QED
    BY <2>1, <2>5, <2>6 DEF OsdSteps, Followed
<1>6. InnerSteps(T, st, gl)
  <2> SUFFICES ASSUME NEW i \in 1 .. Len(T), T[i].do \in Raising,
                      NEW k \in i .. Len(T), T[k].do = "goal",
                      \A j \in i .. k : T[j].do # "state"
               PROVE  FALSE
    BY DEF InnerSteps
  <2>1. i \in {1, 2, 3, 4}
    BY <1>2, <1>3 DEF Step, Raising
  <2>2. k = 7
    <3>1. k \in 1 .. Len(T)
      BY <1>2
    <3> QED
      BY <1>2, <1>3, <3>1 DEF Step
  <2>3. 5 \in i .. k
    BY <2>1, <2>2
  <2> QED
    BY <1>2, <2>3 DEF Step
<1>7. EachIsLast(T)
  BY <1>4 DEF EachIsLast, Has
<1> QED
  BY <1>4, <1>5, <1>6, <1>7 DEF T

LEMMA ChownPlanSteps ==
  LET T == UpgradeOsd(TRUE) IN
  /\ Len(T) = 7
  /\ T[1] = Step("source") /\ T[2] = Step("kick") /\ T[3] = Step("install")
  /\ T[4] = Step("kick") /\ T[5] = Step("kick") /\ T[6] = Step("chown")
  /\ T[7] = Step("each")
<1> DEFINE T == UpgradeOsd(TRUE)
           A == <<Step("source"), Step("kick"), Step("install"), Step("kick")>>
           B == <<Step("kick"), Step("chown"), Step("each")>>
<1>1. A \in Seq(Steps) /\ B \in Seq(Steps) /\ Len(A) = 4 /\ Len(B) = 3
  BY StepTypes DEF StepNames
<1>2. /\ A[1] = Step("source") /\ A[2] = Step("kick") /\ A[3] = Step("install")
      /\ A[4] = Step("kick")
      /\ B[1] = Step("kick") /\ B[2] = Step("chown") /\ B[3] = Step("each")
  OBVIOUS
<1>3. T = A \o B
  BY DEF UpgradeOsd
<1> HIDE DEF T, A, B
<1>4. /\ Len(T) = 7
      /\ \A i \in 1 .. 7 : T[i] = IF i <= 4 THEN A[i] ELSE B[i - 4]
  <2>1. /\ Len(A \o B) = Len(A) + Len(B)
        /\ \A i \in 1 .. Len(A) + Len(B) :
             (A \o B)[i] = IF i <= Len(A) THEN A[i] ELSE B[i - Len(A)]
    BY <1>1, ConcatProperties
  <2>2. Len(A) + Len(B) = 7
    BY <1>1
  <2> QED
    BY <1>1, <1>3, <2>1, <2>2
<1>5. /\ Len(T) = 7
      /\ T[1] = Step("source") /\ T[2] = Step("kick") /\ T[3] = Step("install")
      /\ T[4] = Step("kick") /\ T[5] = Step("kick") /\ T[6] = Step("chown")
      /\ T[7] = Step("each")
  BY <1>2, <1>4
<1> QED
  BY <1>5, Zenon DEF T

\* With one.
LEMMA ChownPlan ==
  ASSUME NEW st, NEW gl, NEW en, NEW fr
  PROVE  LET T == UpgradeOsd(TRUE) IN
         /\ Has(T, "install")
         /\ \A d \in Daemons : OsdSteps(T, d, st, gl, en, fr)
         /\ InnerSteps(T, st, gl) /\ EachIsLast(T)
<1> DEFINE T == UpgradeOsd(TRUE)
<1>2. /\ Len(T) = 7
      /\ T[1] = Step("source") /\ T[2] = Step("kick") /\ T[3] = Step("install")
      /\ T[4] = Step("kick") /\ T[5] = Step("kick") /\ T[6] = Step("chown")
      /\ T[7] = Step("each")
  BY ChownPlanSteps
<1> HIDE DEF T
<1>3. \A i \in 1 .. Len(T) : i \in {1, 2, 3, 4, 5, 6, 7}
  BY <1>2
<1>4. Has(T, "install")
  <2>1. 3 \in 1 .. Len(T) /\ T[3].do = "install"
    BY <1>2 DEF Step
  <2> QED
    BY <2>1 DEF Has
<1>5. ASSUME NEW d \in Daemons PROVE OsdSteps(T, d, st, gl, en, fr)
  <2>1. \A i \in 1 .. Len(T) :
          ~Is(T[i], "disable", d) /\ ~Is(T[i], "stop", d) /\ ~Is(T[i], "restart", d)
    BY <1>2, <1>3 DEF Step, Is
  <2>2. 7 \in 1 .. Len(T) /\ Is(T[7], "each", d)
    BY <1>2 DEF Step, Is
  <2>3. Ahead(T, "each", d)
    BY <2>2 DEF Ahead
  <2> QED
    BY <2>1, <2>3 DEF OsdSteps, Followed, Awaited
<1>6. InnerSteps(T, st, gl)
  <2>1. \A i \in 1 .. Len(T) : T[i].do # "goal"
    BY <1>2, <1>3 DEF Step
  <2>2. \A i \in 1 .. Len(T) : \A k \in i .. Len(T) : k \in 1 .. Len(T)
    BY <1>2
  <2> QED
    BY <2>1, <2>2 DEF InnerSteps
<1>7. EachIsLast(T)
  BY <1>2, <1>3 DEF EachIsLast, Step
<1> QED
  BY <1>4, <1>5, <1>6, <1>7 DEF T

LEMMA SinglePlanSteps ==
  ASSUME NEW c \in Daemons, NEW R \in SUBSET Daemons
  PROVE  LET each == [do |-> "each", on |-> R]
             T == UpgradeSingleOsd(c) \o <<each>>
         IN
         /\ Len(T) = 9
         /\ T[1] = StepOn("kick", c) /\ T[2] = StepOn("state", c)
         /\ T[3] = StepOn("stop", c) /\ T[4] = StepOn("disable", c)
         /\ T[5] = StepOn("chown", c) /\ T[6] = StepOn("enable", c)
         /\ T[7] = StepOn("restart", c) /\ T[8] = StepOn("goal", c)
         /\ T[9] = each
<1> DEFINE each == [do |-> "each", on |-> R]
           A == UpgradeSingleOsd(c)
           T == A \o <<each>>
<1>1. each \in Steps
  BY StepTypes DEF StepNames
<1>2. A \in Seq(Steps) /\ <<each>> \in Seq(Steps)
  BY <1>1, PlanTypes
<1>3. /\ Len(A) = 8 /\ Len(<<each>>) = 1 /\ <<each>>[1] = each
      /\ A[1] = StepOn("kick", c) /\ A[2] = StepOn("state", c)
      /\ A[3] = StepOn("stop", c) /\ A[4] = StepOn("disable", c)
      /\ A[5] = StepOn("chown", c) /\ A[6] = StepOn("enable", c)
      /\ A[7] = StepOn("restart", c) /\ A[8] = StepOn("goal", c)
  BY DEF UpgradeSingleOsd
<1> HIDE DEF A, each
<1>4. /\ Len(A \o <<each>>) = Len(A) + Len(<<each>>)
      /\ \A i \in 1 .. Len(A) + Len(<<each>>) :
           (A \o <<each>>)[i] = IF i <= Len(A) THEN A[i] ELSE <<each>>[i - Len(A)]
  BY <1>2, ConcatProperties
<1>5. Len(A) + Len(<<each>>) = 9
  BY <1>3
<1>6. /\ Len(T) = 9
      /\ \A i \in 1 .. 9 : T[i] = IF i <= 8 THEN A[i] ELSE <<each>>[i - 8]
  BY <1>3, <1>4, <1>5
<1> HIDE DEF T
<1> QED
  BY <1>3, <1>6 DEF T, A, each

\* Of one OSD, with the loop over the others behind it.
LEMMA SinglePlan ==
  ASSUME NEW st, NEW gl, NEW en, NEW fr, NEW c \in Daemons, NEW R \in SUBSET Daemons,
         \A d \in Daemons \ (R \union {c}) : d \in en /\ d \in fr
  PROVE  LET T == UpgradeSingleOsd(c) \o <<[do |-> "each", on |-> R]>> IN
         /\ \A d \in Daemons : OsdSteps(T, d, st, gl, en, fr)
         /\ InnerSteps(T, st, gl) /\ EachIsLast(T)
<1> DEFINE each == [do |-> "each", on |-> R]
           A == UpgradeSingleOsd(c)
           T == A \o <<each>>
<1>1. /\ Len(T) = 9
      /\ T[1] = StepOn("kick", c) /\ T[2] = StepOn("state", c)
      /\ T[3] = StepOn("stop", c) /\ T[4] = StepOn("disable", c)
      /\ T[5] = StepOn("chown", c) /\ T[6] = StepOn("enable", c)
      /\ T[7] = StepOn("restart", c) /\ T[8] = StepOn("goal", c)
      /\ T[9] = each
  BY SinglePlanSteps
<1> HIDE DEF T, A
<1>2. \A i \in 1 .. Len(T) : i \in {1, 2, 3, 4, 5, 6, 7, 8, 9}
  BY <1>1
<1>3. ASSUME NEW d \in Daemons PROVE OsdSteps(T, d, st, gl, en, fr)
  <2>1. /\ \A i \in 1 .. Len(T) : Is(T[i], "disable", d) => i = 4 /\ d = c
        /\ \A i \in 1 .. Len(T) : Is(T[i], "stop", d) => i = 3 /\ d = c
        /\ \A i \in 1 .. Len(T) : Is(T[i], "restart", d) => i = 7 /\ d = c
    BY <1>1, <1>2 DEF StepOn, Is
  <2>2. /\ 2 \in 1 .. Len(T) /\ Is(T[2], "state", c)
        /\ 6 \in 1 .. Len(T) /\ Is(T[6], "enable", c)
        /\ 7 \in 1 .. Len(T) /\ Is(T[7], "restart", c)
        /\ 8 \in 1 .. Len(T) /\ Is(T[8], "goal", c)
        /\ 9 \in 1 .. Len(T) /\ (d \in R => Is(T[9], "each", d))
    BY <1>1 DEF StepOn, Is
  <2>3. Followed(T, "disable", "enable", d) /\ Followed(T, "stop", "restart", d)
    BY <2>1, <2>2 DEF Followed
  <2>4. Awaited(T, d, gl)
    <3>1. \A k \in 7 .. 8 : ~Is(T[k], "state", c)
      <4>1. \A k \in 7 .. 8 : k = 7 \/ k = 8
        OBVIOUS
      <4> QED
        BY <1>1, <4>1 DEF StepOn, Is
    <3> QED
      BY <2>1, <2>2, <3>1 DEF Awaited
  <2>5. CASE d = c
    <3>1. Ahead(T, "enable", d) /\ Ahead(T, "restart", d)
      BY <2>2, <2>5 DEF Ahead
    <3> QED
      BY <2>3, <2>4, <3>1 DEF OsdSteps
  <2>6. CASE d \in R
    <3>1. Ahead(T, "each", d)
      BY <2>2, <2>6 DEF Ahead
    <3> QED
      BY <2>3, <2>4, <3>1 DEF OsdSteps
  <2>7. CASE d \notin R \union {c}
    BY <2>3, <2>4, <2>7 DEF OsdSteps
  <2> QED
    BY <2>5, <2>6, <2>7
<1>4. InnerSteps(T, st, gl)
  <2> SUFFICES ASSUME NEW i \in 1 .. Len(T), T[i].do \in Raising,
                      NEW k \in i .. Len(T), T[k].do = "goal",
                      \A j \in i .. k : T[j].do # "state"
               PROVE  \E d \in T[i].on :
           /\ \E j \in 1 .. Len(T) : j < i /\ Is(T[j], "state", d)
           /\ \E j \in 1 .. Len(T) : j < i /\ Is(T[j], "stop", d)
           /\ \A j \in 1 .. Len(T) : j < i => ~Is(T[j], "restart", d)
    BY DEF InnerSteps
  <2>1. k = 8
    <3>1. k \in 1 .. Len(T)
      BY <1>1
    <3> QED
      BY <1>1, <1>2, <3>1 DEF StepOn
  <2>2. i \in {1, 4, 5, 6}
    BY <1>1, <1>2 DEF StepOn, Raising
  <2>3. i # 1
    <3>1. i = 1 => 2 \in i .. k
      BY <2>1
    <3> QED
      BY <1>1, <3>1 DEF StepOn
  <2>4. c \in T[i].on
    BY <1>1, <2>2, <2>3 DEF StepOn
  <2>5. /\ 2 \in 1 .. Len(T) /\ 2 < i /\ Is(T[2], "state", c)
        /\ 3 \in 1 .. Len(T) /\ 3 < i /\ Is(T[3], "stop", c)
    BY <1>1, <2>2, <2>3 DEF StepOn, Is
  <2>6. \A j \in 1 .. Len(T) : Is(T[j], "restart", c) => j = 7
    BY <1>1, <1>2 DEF StepOn, Is
  <2>7. \A j \in 1 .. Len(T) : j < i => ~Is(T[j], "restart", c)
    BY <2>2, <2>6
  <2> QED
    BY <2>4, <2>5, <2>7
<1>5. EachIsLast(T)
  BY <1>1, <1>2 DEF EachIsLast, StepOn
<1> QED
  BY <1>3, <1>4, <1>5 DEF T, A

-----------------------------------------------------------------------------
(* The invariant.                                                          *)

\* The host waits for an OSD that is down to come back: a command raised
\* inside maintain_osd_state.
Hung(n) ==
  /\ todo[n] # <<>> /\ NextStep(n) = "goal"
  /\ \E d \in On(n) : state[n][d] = "down" /\ goal[n][d] # "down"

StepsLeft(n) ==
  /\ n \in installed \/ Has(todo[n], "install")
  /\ job = "mon" => \A d \in Daemons : MonSteps(todo[n], d, state[n], fresh[n])
  /\ job = "mon" => ~Has(todo[n], "goal") /\ ~Has(todo[n], "each")
  /\ job = "osd" => ~Has(todo[n], "disable") /\ ~Has(todo[n], "each")
  /\ job # "mon" =>
       /\ \A d \in Daemons : OsdSteps(todo[n], d, state[n], goal[n], enabled[n], fresh[n])
       /\ InnerSteps(todo[n], state[n], goal[n])
       /\ EachIsLast(todo[n])

RollInv(n) == pc[n] = "roll" => (job # "mon" /\ Hung(n)) \/ StepsLeft(n)

Upgraded(n) ==
  /\ n \in installed
  /\ job = "mon" => \A d \in Daemons : state[n][d] = "down" \/ d \in fresh[n]
  /\ job # "mon" => Daemons \subseteq fresh[n] /\ Daemons \subseteq enabled[n]

HostInv(n) ==
  /\ RollInv(n)
  /\ n \in done => Upgraded(n) /\ (job # "mon" => pc[n] = "ended")
  /\ pc[n] \in {"packages", "waitAll", "settle"} => job = "mon"
  /\ pc[n] = "settle" => done = Hosts
  /\ job = "osd" => Daemons \subseteq enabled[n]

UpgradeInv ==
  /\ Types
  /\ \A n \in Hosts : HostInv(n)
  /\ settled => done = Hosts /\ job = "mon"

LEMMA InitUpgrade == Init => UpgradeInv
<1> SUFFICES ASSUME Init PROVE UpgradeInv
  OBVIOUS
<1>1. Types
  BY InitTypes
<1>2. ASSUME NEW n \in Hosts PROVE HostInv(n)
  BY DEF Init, HostInv, RollInv
<1>3. ~settled
  BY DEF Init
<1> QED
  BY <1>1, <1>2, <1>3 DEF UpgradeInv

\* Hosts that nothing happens to.
LEMMA OtherHost ==
  ASSUME NEW n, HostInv(n), done' = done, UNCHANGED job,
         pc'[n] = pc[n], todo'[n] = todo[n], state'[n] = state[n], goal'[n] = goal[n],
         enabled'[n] = enabled[n], fresh'[n] = fresh[n], n \in installed => n \in installed'
  PROVE  HostInv(n)'
<1>1. RollInv(n)'
  BY DEF HostInv, RollInv, StepsLeft, Hung, On, NextStep
<1>2. Upgraded(n) => Upgraded(n)'
  BY DEF Upgraded
<1> QED
  BY <1>1, <1>2 DEF HostInv

-----------------------------------------------------------------------------
(* The steps of an upgrade keep it.                                        *)

\* Host n carries out the first of its steps.
Stepped(n) ==
  /\ pc[n] \in {"packages", "roll"} /\ todo[n] # <<>>
  /\ todo' = [todo EXCEPT ![n] = Tail(@)]
  /\ Effect(Head(todo[n]), state[n], goal[n], enabled[n], fresh[n],
            state'[n], goal'[n], enabled'[n], fresh'[n])
  /\ \A m \in Hosts \ {n} :
       /\ state'[m] = state[m] /\ goal'[m] = goal[m]
       /\ enabled'[m] = enabled[m] /\ fresh'[m] = fresh[m]
  /\ installed \subseteq installed'
  /\ NextStep(n) = "install" => n \in installed'
  /\ UNCHANGED <<job, pc, done, settled>>

LEMMA SteppedKeeps ==
  ASSUME UpgradeInv, Types', NEW n \in Hosts, Stepped(n)
  PROVE  UpgradeInv'
<1> DEFINE T == todo[n]
           h == Head(todo[n])
<1>1. T \in Seq(Steps) /\ T # <<>> /\ todo'[n] = Tail(T)
  BY DEF Stepped, UpgradeInv, Types
<1>2. h = T[1] /\ h.do = NextStep(n) /\ h.on = On(n)
  BY <1>1 DEF Stepped, NextStep, On
<1>3. ASSUME NEW m \in Hosts \ {n} PROVE HostInv(m)'
  BY <1>3, OtherHost DEF Stepped, UpgradeInv, Types
<1>4. HostInv(n)
  BY DEF UpgradeInv
<1>5. Effect(h, state[n], goal[n], enabled[n], fresh[n],
             state'[n], goal'[n], enabled'[n], fresh'[n])
  BY DEF Stepped
<1>6. /\ UNCHANGED <<job, pc, done, settled>>
      /\ installed \subseteq installed' /\ (h.do = "install" => n \in installed')
      /\ pc[n] \in {"packages", "roll"}
  BY <1>2 DEF Stepped
<1>7. ASSUME pc[n] = "roll" PROVE StepsLeft(n)'
  <2>1. ~(job # "mon" /\ Hung(n))
    <3> SUFFICES ASSUME Hung(n) PROVE FALSE
      OBVIOUS
    <3>1. PICK d \in On(n) : state[n][d] = "down" /\ goal[n][d] # "down"
      BY DEF Hung
    <3>2. d \in Daemons
      <4>1. h \in Steps
        BY <1>1, HeadTailProperties
      <4> QED
        BY <1>2, <3>1, <4>1 DEF Steps
    <3>3. Is(h, "goal", d)
      BY <1>2, <3>1 DEF Hung, Is
    <3> QED
      BY <1>5, <3>1, <3>2, <3>3 DEF Effect
  <2>2. StepsLeft(n)
    BY <1>4, <1>7, <2>1 DEF HostInv, RollInv
  <2>3. n \in installed' \/ Has(Tail(T), "install")
    BY <1>1, <1>6, <2>2, HasTail DEF StepsLeft
  <2>4. ASSUME job = "mon", NEW d \in Daemons
        PROVE  MonSteps(Tail(T), d, state'[n], fresh'[n])
    <3>1. MonSteps(T, d, state[n], fresh[n])
      BY <2>2, <2>4 DEF StepsLeft
    <3> HIDE DEF T, h
    <3> QED
      BY <1>1, <1>5, <3>1, MonTail DEF h, T
  <2>5. /\ job = "mon" => ~Has(Tail(T), "goal") /\ ~Has(Tail(T), "each")
        /\ job = "osd" => ~Has(Tail(T), "disable") /\ ~Has(Tail(T), "each")
    BY <1>1, <2>2, HasTail DEF StepsLeft
  <2>6. ASSUME job # "mon", NEW d \in Daemons
        PROVE  OsdSteps(Tail(T), d, state'[n], goal'[n], enabled'[n], fresh'[n])
    <3>1. OsdSteps(T, d, state[n], goal[n], enabled[n], fresh[n])
      BY <2>2, <2>6 DEF StepsLeft
    <3> QED
      BY <1>1, <1>5, <3>1, OsdTail
  <2>7. ASSUME job # "mon" PROVE InnerSteps(Tail(T), state'[n], goal'[n])
    <3>1. InnerSteps(T, state[n], goal[n])
      BY <2>2, <2>7 DEF StepsLeft
    <3>2. \A d \in Daemons :
           /\ IF Is(h, "state", d) THEN goal'[n][d] # "down"
                                   ELSE goal'[n][d] = goal[n][d]
           /\ Is(h, "stop", d) => state'[n][d] = "down"
           /\ state[n][d] = "down" /\ ~Is(h, "restart", d) => state'[n][d] = "down"
      BY <1>5 DEF Effect
    <3> QED
      BY <1>1, <3>1, <3>2, InnerTail
  <2>8. job # "mon" => EachIsLast(Tail(T))
    BY <1>1, <2>2, EachTail DEF StepsLeft
  <2> QED
    BY <1>1, <1>6, <2>3, <2>4, <2>5, <2>6, <2>7, <2>8 DEF StepsLeft
<1>8. RollInv(n)'
  BY <1>6, <1>7 DEF RollInv
<1>9. n \in done' => Upgraded(n)' /\ (job' # "mon" => pc'[n] = "ended")
  <2> SUFFICES ASSUME n \in done
               PROVE  Upgraded(n)' /\ job = "mon"
    BY <1>6
  <2>1. Upgraded(n) /\ job = "mon"
    BY <1>4, <1>6 DEF HostInv
  <2>2. ASSUME NEW d \in Daemons PROVE state'[n][d] = "down" \/ d \in fresh'[n]
    BY <1>5, <2>1 DEF Upgraded, Effect
  <2> QED
    BY <1>6, <2>1, <2>2 DEF Upgraded
<1>10. job' = "osd" => Daemons \subseteq enabled'[n]
  <2> SUFFICES ASSUME job = "osd" PROVE Daemons \subseteq enabled'[n]
    BY <1>6
  <2>1. pc[n] = "roll" /\ Daemons \subseteq enabled[n]
    BY <1>4, <1>6 DEF HostInv
  <2>2. h.do # "disable"
    <3>1. CASE Hung(n)
      BY <1>2, <3>1 DEF Hung
    <3>2. CASE StepsLeft(n)
      BY <1>1, <3>2, HasTail DEF StepsLeft
    <3> QED
      BY <1>4, <2>1, <3>1, <3>2 DEF HostInv, RollInv
  <2> QED
    BY <1>5, <2>1, <2>2 DEF Effect, Is
<1>11. HostInv(n)'
  BY <1>4, <1>6, <1>8, <1>9, <1>10 DEF HostInv
<1> QED
  BY <1>3, <1>6, <1>11 DEF UpgradeInv

LEMMA WorkingStep ==
  ASSUME Types, NEW n \in Hosts,
         \/ Kick(n) \/ Work(n) \/ Install(n) \/ StopDaemon(n) \/ EnableOsd(n)
         \/ Restart(n) \/ RememberState(n) \/ AwaitGoal(n)
         \/ NextOsd(n) /\ On(n) = {}
  PROVE  Stepped(n)
<1> DEFINE h == Head(todo[n])
           Same == UNCHANGED <<state, goal, enabled, fresh>>
           Does == h.do = NextStep(n) /\ h.on = On(n) /\ NextStep(n) # "none"
<1> USE DEF daemons, store, others, Types
<1>1. ASSUME NEW name, name # "none", Takes(n, name)
      PROVE  pc[n] \in {"packages", "roll"} /\ todo[n] # <<>> /\ NextStep(n) = name /\ Does
  BY <1>1 DEF Takes, NextStep, On
<1>2. Advance(n) => todo' = [todo EXCEPT ![n] = Tail(@)]
  BY DEF Advance
<1>3. CASE Kick(n) \/ Work(n) \/ AwaitGoal(n)
  <2>1. /\ pc[n] \in {"packages", "roll"} /\ todo[n] # <<>> /\ Does /\ Same
        /\ NextStep(n) \in {"kick", "source", "chown", "goal"}
        /\ Advance(n) /\ UNCHANGED <<job, pc, installed, done, settled>>
    BY <1>1, <1>3 DEF Kick, Work, AwaitGoal
  <2>2. ASSUME NEW d \in Daemons, Is(h, "goal", d) PROVE state[n][d] = goal[n][d]
    <3>1. Takes(n, "goal") /\ d \in On(n)
      BY <2>1, <2>2 DEF Is, Takes
    <3>2. AwaitGoal(n)
      BY <1>3, <3>1 DEF Kick, Work, Takes
    <3> QED
      BY <3>1, <3>2 DEF AwaitGoal
  <2>3. Effect(h, state[n], goal[n], enabled[n], fresh[n],
               state'[n], goal'[n], enabled'[n], fresh'[n])
    <3> HIDE DEF h
    <3> QED
      BY <2>1, <2>2 DEF Effect, Is
  <2> QED
    BY <1>2, <2>1, <2>3 DEF Stepped
<1>4. CASE Install(n)
  <2>1. /\ pc[n] \in {"packages", "roll"} /\ todo[n] # <<>> /\ Does /\ Same
        /\ NextStep(n) = "install" /\ Advance(n)
        /\ installed' = installed \union {n} /\ UNCHANGED <<job, pc, done, settled>>
    BY <1>1, <1>4 DEF Install
  <2>2. Effect(h, state[n], goal[n], enabled[n], fresh[n],
               state'[n], goal'[n], enabled'[n], fresh'[n])
    <3> HIDE DEF h
    <3> QED
      BY <2>1 DEF Effect, Is
  <2> QED
    BY <1>2, <2>1, <2>2 DEF Stepped
<1>5. CASE StopDaemon(n)
  <2>1. /\ pc[n] \in {"packages", "roll"} /\ todo[n] # <<>> /\ Does
        /\ NextStep(n) = "stop" /\ Advance(n)
        /\ UNCHANGED <<job, pc, done, settled, goal, enabled, installed>>
    BY <1>1, <1>5 DEF StopDaemon
  <2>2. /\ state'[n] = [d \in Daemons |-> IF d \in On(n) THEN "down" ELSE state[n][d]]
        /\ fresh'[n] = fresh[n] \ On(n)
        /\ \A m \in Hosts \ {n} : state'[m] = state[m] /\ fresh'[m] = fresh[m]
    BY <1>5 DEF StopDaemon, SetState
  <2>3. Effect(h, state[n], goal[n], enabled[n], fresh[n],
               state'[n], goal'[n], enabled'[n], fresh'[n])
    <3> HIDE DEF h
    <3> QED
      BY <2>1, <2>2 DEF Effect, Is
  <2> QED
    BY <1>2, <2>1, <2>2, <2>3 DEF Stepped
<1>6. CASE EnableOsd(n)
  <2>1. /\ pc[n] \in {"packages", "roll"} /\ todo[n] # <<>> /\ Does
        /\ NextStep(n) \in {"disable", "enable"} /\ Advance(n)
        /\ UNCHANGED <<job, pc, done, settled, state, goal, fresh, installed>>
    BY <1>1, <1>6 DEF EnableOsd
  <2>2. /\ enabled'[n] = IF NextStep(n) = "enable" THEN enabled[n] \union On(n)
                         ELSE enabled[n] \ On(n)
        /\ \A m \in Hosts \ {n} : enabled'[m] = enabled[m]
    BY <1>6 DEF EnableOsd, Takes
  <2>3. Effect(h, state[n], goal[n], enabled[n], fresh[n],
               state'[n], goal'[n], enabled'[n], fresh'[n])
    <3> HIDE DEF h
    <3> QED
      BY <2>1, <2>2 DEF Effect, Is
  <2> QED
    BY <1>2, <2>1, <2>2, <2>3 DEF Stepped
<1>7. CASE Restart(n)
  <2>1. /\ pc[n] \in {"packages", "roll"} /\ todo[n] # <<>> /\ Does
        /\ NextStep(n) = "restart" /\ Advance(n)
        /\ UNCHANGED <<job, pc, done, settled, goal, enabled, installed>>
    BY <1>1, <1>7 DEF Restart
  <2>2. PICK bad \in SUBSET On(n) :
          /\ state' = [state EXCEPT ![n] = [d \in Daemons |->
                         CASE d \in bad         -> "down"
                           [] d \in On(n) \ bad -> IF job = "mon" THEN "active"
                                                   ELSE "booting"
                           [] OTHER             -> @[d]]]
          /\ fresh' = [fresh EXCEPT ![n] = (@ \ bad) \union (On(n) \ bad)]
    BY <1>7 DEF Restart
  <2>3. /\ \A d \in Daemons : d \in bad => state'[n][d] = "down"
        /\ \A d \in Daemons : d \notin On(n) => state'[n][d] = state[n][d]
        /\ fresh'[n] = (fresh[n] \ bad) \union (On(n) \ bad)
        /\ \A m \in Hosts \ {n} : state'[m] = state[m] /\ fresh'[m] = fresh[m]
    BY <2>2
  <2>4. Effect(h, state[n], goal[n], enabled[n], fresh[n],
               state'[n], goal'[n], enabled'[n], fresh'[n])
    <3> HIDE DEF h
    <3> QED
      BY <2>1, <2>3 DEF Effect, Is
  <2> QED
    BY <1>2, <2>1, <2>3, <2>4 DEF Stepped
<1>8. CASE RememberState(n)
  <2>1. /\ pc[n] \in {"packages", "roll"} /\ todo[n] # <<>> /\ Does
        /\ NextStep(n) = "state" /\ Advance(n)
        /\ UNCHANGED <<job, pc, done, settled, state, enabled, fresh, installed>>
        /\ \A d \in On(n) : state[n][d] # "down"
    BY <1>1, <1>8 DEF RememberState
  <2>2. /\ goal'[n] = [d \in Daemons |-> IF d \in On(n) THEN state[n][d] ELSE goal[n][d]]
        /\ \A m \in Hosts \ {n} : goal'[m] = goal[m]
    BY <1>8 DEF RememberState
  <2>3. Effect(h, state[n], goal[n], enabled[n], fresh[n],
               state'[n], goal'[n], enabled'[n], fresh'[n])
    <3> HIDE DEF h
    <3> QED
      BY <2>1, <2>2 DEF Effect, Is
  <2> QED
    BY <1>2, <2>1, <2>2, <2>3 DEF Stepped
<1>9. CASE NextOsd(n) /\ On(n) = {}
  <2>1. /\ pc[n] \in {"packages", "roll"} /\ todo[n] # <<>> /\ Does /\ Same
        /\ NextStep(n) = "each" /\ todo' = [todo EXCEPT ![n] = Tail(@)]
        /\ UNCHANGED <<job, pc, done, settled, installed>>
    BY <1>1, <1>9 DEF NextOsd
  <2>2. Effect(h, state[n], goal[n], enabled[n], fresh[n],
               state'[n], goal'[n], enabled'[n], fresh'[n])
    <3> HIDE DEF h
    <3> QED
      BY <1>9, <2>1 DEF Effect, Is
  <2> QED
    BY <2>1, <2>2 DEF Stepped
<1> QED
  BY <1>3, <1>4, <1>5, <1>6, <1>7, <1>8, <1>9

LEMMA NextOsdKeeps ==
  ASSUME UpgradeInv, Types', NEW n \in Hosts, NextOsd(n), On(n) # {}
  PROVE  UpgradeInv'
<1> USE DEF daemons, store, others
<1>1. /\ pc[n] \in {"packages", "roll"} /\ NextStep(n) = "each" /\ todo[n] # <<>>
      /\ todo[n] \in Seq(Steps)
      /\ UNCHANGED <<job, pc, done, settled, state, goal, enabled, fresh, installed>>
  BY DEF NextOsd, Takes, NextStep, UpgradeInv, Types
<1>2. PICK c \in On(n) :
        todo' = [todo EXCEPT ![n] = UpgradeSingleOsd(c) \o
                   <<[do |-> "each", on |-> On(n) \ {c}]>>]
  BY DEF NextOsd
<1>3. On(n) \in SUBSET Daemons
  BY OnTypes DEF NextOsd, UpgradeInv
<1>4. ASSUME NEW m \in Hosts \ {n} PROVE HostInv(m)'
  BY <1>1, <1>2, <1>4, OtherHost DEF UpgradeInv, Types
<1>5. HostInv(n) /\ ~Hung(n)
  BY <1>1 DEF UpgradeInv, Hung
<1>6. ASSUME pc[n] = "roll" PROVE StepsLeft(n)'
  <2> DEFINE T == todo[n]
             T2 == UpgradeSingleOsd(c) \o <<[do |-> "each", on |-> On(n) \ {c}]>>
  <2>1. StepsLeft(n)
    BY <1>5, <1>6 DEF HostInv, RollInv
  <2>2. Head(T) = T[1] /\ Len(T) \in Nat /\ Len(T) > 0 /\ T[1].do = "each" /\ T[1].on = On(n)
    BY <1>1 DEF NextStep, On
  <2>3. Has(T, "each")
    <3>1. 1 \in 1 .. Len(T)
      BY <2>2
    <3> QED
      BY <2>2, <3>1 DEF Has
  <2>4. job # "mon" /\ job # "osd"
    BY <2>1, <2>3 DEF StepsLeft
  <2>5. Len(T) = 1
    <3>1. 1 \in 1 .. Len(T)
      BY <2>2
    <3> QED
      BY <2>1, <2>2, <2>4, <3>1 DEF StepsLeft, EachIsLast
  <2>6. n \in installed
    <3>1. \A i \in 1 .. Len(T) : T[i].do = "each"
      <4>1. \A i \in 1 .. Len(T) : i = 1
        BY <2>5
      <4> QED
        BY <2>2, <4>1
    <3> QED
      BY <2>1, <3>1 DEF StepsLeft, Has
  <2>7. ASSUME NEW d \in Daemons \ ((On(n) \ {c}) \union {c})
        PROVE  d \in enabled[n] /\ d \in fresh[n]
    <3>1. OsdSteps(T, d, state[n], goal[n], enabled[n], fresh[n])
      BY <2>1, <2>4 DEF StepsLeft
    <3>2. \A i \in 1 .. Len(T) : T[i].do = "each" /\ d \notin T[i].on
      <4>1. \A i \in 1 .. Len(T) : i = 1
        BY <2>5
      <4> QED
        BY <1>2, <2>2, <2>7, <4>1
    <3>3. ~Ahead(T, "enable", d) /\ ~Ahead(T, "each", d) /\ ~Ahead(T, "restart", d)
      BY <3>2 DEF Ahead, Is
    <3>4. ~GoalAhead(T, d)
      BY <3>2 DEF GoalAhead, Is
    <3> QED
      BY <3>1, <3>3, <3>4 DEF OsdSteps
  <2>8. /\ \A d \in Daemons : OsdSteps(T2, d, state[n], goal[n], enabled[n], fresh[n])
        /\ InnerSteps(T2, state[n], goal[n]) /\ EachIsLast(T2)
    <3>1. c \in Daemons /\ On(n) \ {c} \in SUBSET Daemons
      BY <1>2, <1>3
    <3> HIDE DEF T, T2
    <3> QED
      BY <2>7, <3>1, SinglePlan DEF T2
  <2>9. todo'[n] = T2
    BY <1>1, <1>2 DEF UpgradeInv, Types
  <2> HIDE DEF T, T2
  <2> QED
    BY <1>1, <2>4, <2>6, <2>8, <2>9 DEF StepsLeft
<1>7. HostInv(n)'
  <2>1. RollInv(n)'
    BY <1>1, <1>6 DEF RollInv
  <2> QED
    BY <1>1, <1>5, <2>1 DEF HostInv, Upgraded
<1> QED
  BY <1>1, <1>4, <1>7 DEF UpgradeInv

-----------------------------------------------------------------------------
(* What else happens to a host keeps it, and so does the world.            *)

\* What is left of a plan when it begins.
LEMMA PlanKeeps ==
  ASSUME job \in {"mon", "osd", "osdChown"}, NEW n,
         job = "osd" => Daemons \subseteq enabled[n],
         NEW T, T = Plan
  PROVE  /\ Has(T, "install")
         /\ job = "mon" => \A d \in Daemons : MonSteps(T, d, state[n], fresh[n])
         /\ job = "mon" => ~Has(T, "goal") /\ ~Has(T, "each")
         /\ job = "osd" => ~Has(T, "disable") /\ ~Has(T, "each")
         /\ job # "mon" =>
              /\ \A d \in Daemons : OsdSteps(T, d, state[n], goal[n], enabled[n], fresh[n])
              /\ InnerSteps(T, state[n], goal[n])
              /\ EachIsLast(T)
<1>1. CASE job = "mon"
  BY <1>1, PlanOf, MonPlan DEF MonSteps
<1>2. CASE job = "osd"
  BY <1>2, PlanOf, OsdPlan
<1>3. CASE job = "osdChown"
  BY <1>3, PlanOf, ChownPlan
<1> QED
  BY <1>1, <1>2, <1>3

\* A host whose hook goes elsewhere than to an upgrade.
LEMMA HookKeeps ==
  ASSUME NEW n \in Hosts, HostInv(n), job' = job, done' = done, n \in installed => n \in installed',
         pc'[n] \notin {"roll", "waitAll", "settle"},
         pc'[n] = "packages" => job = "mon",
         pc[n] # "ended",
         UNCHANGED <<state, goal, enabled, fresh>>
  PROVE  HostInv(n)'
BY DEF HostInv, RollInv, Upgraded

LEMMA WaitingKeeps ==
  ASSUME UpgradeInv, Types', NEW n \in Hosts,
         Begin(n) \/ PackagesDone(n) \/ AwaitStart(n) \/ AwaitDone(n)
           \/ AwaitAlive(n) \/ SetStart(n) \/ SetDone(n) \/ WaitAll(n)
           \/ Settle(n)
  PROVE  UpgradeInv'
<1> USE DEF daemons, store
<1>1. Types /\ HostInv(n)
  BY DEF UpgradeInv
<1>2. CASE Begin(n) \/ PackagesDone(n) \/ AwaitStart(n) \/ AwaitDone(n) \/ AwaitAlive(n)
  <2>1. /\ UNCHANGED <<job, done, settled, state, goal, enabled, fresh, installed>>
        /\ pc'[n] \in {"packages", "lock", "awaitStart", "awaitDone", "awaitAlive"}
        /\ pc'[n] = "packages" => job = "mon"
        /\ pc[n] # "ended"
        /\ \A m \in Hosts \ {n} : pc'[m] = pc[m] /\ todo'[m] = todo[m]
    <3>1. CASE Begin(n)
      BY <1>1, <3>1 DEF Begin, TakePosition, Goto, Idle, Types
    <3>2. CASE PackagesDone(n)
      BY <1>1, <3>2 DEF PackagesDone, TakePosition, Goto, Types
    <3>3. CASE AwaitStart(n)
      BY <1>1, <3>3 DEF AwaitStart, Goto, Types
    <3>4. CASE AwaitDone(n)
      BY <1>1, <3>4 DEF AwaitDone, Goto, Types
    <3>5. CASE AwaitAlive(n)
      BY <1>1, <3>5 DEF AwaitAlive, Goto, Types
    <3> QED
      BY <1>2, <3>1, <3>2, <3>3, <3>4, <3>5
  <2>2. HostInv(n)'
    BY <1>1, <2>1, HookKeeps
  <2>3. ASSUME NEW m \in Hosts \ {n} PROVE HostInv(m)'
    BY <2>1, <2>3, OtherHost DEF UpgradeInv
  <2> QED
    BY <2>1, <2>2, <2>3 DEF UpgradeInv
<1>3. CASE SetStart(n)
  <2>1. /\ UNCHANGED <<job, done, settled, state, goal, enabled, fresh, installed>>
        /\ pc[n] = "lock" /\ pc'[n] = "roll" /\ todo'[n] = Plan
        /\ \A m \in Hosts \ {n} : pc'[m] = pc[m] /\ todo'[m] = todo[m]
    BY <1>1, <1>3 DEF SetStart, Goto, Types
  <2>2. job \in {"mon", "osd", "osdChown"}
    BY <1>1, RollingAssumption DEF Types
  <2>3. StepsLeft(n)'
    <3>1. job = "osd" => Daemons \subseteq enabled[n]
      BY <1>1 DEF HostInv
    <3> QED
      BY <2>1, <2>2, <3>1, PlanKeeps DEF StepsLeft
  <2>4. HostInv(n)'
    BY <1>1, <2>1, <2>3 DEF HostInv, RollInv, Upgraded
  <2>5. ASSUME NEW m \in Hosts \ {n} PROVE HostInv(m)'
    BY <2>1, <2>5, OtherHost DEF UpgradeInv
  <2> QED
    BY <2>1, <2>4, <2>5 DEF UpgradeInv
<1>4. CASE SetDone(n)
  <2>1. /\ UNCHANGED <<job, settled, state, goal, enabled, fresh, installed>>
        /\ pc[n] = "roll" /\ todo[n] = <<>> /\ done' = done \union {n}
        /\ pc'[n] = IF job = "mon" THEN "waitAll" ELSE "ended"
        /\ \A m \in Hosts \ {n} : pc'[m] = pc[m] /\ todo'[m] = todo[m]
    BY <1>1, <1>4 DEF SetDone, End, Goto, Types
  <2>2. StepsLeft(n)
    BY <1>1, <2>1 DEF HostInv, RollInv, Hung
  <2>3. \A i \in 1 .. Len(todo[n]) : FALSE
    BY <2>1
  <2>4. Upgraded(n)
    <3>1. n \in installed
      BY <2>2, <2>3 DEF StepsLeft, Has
    <3>2. ASSUME job = "mon", NEW d \in Daemons PROVE state[n][d] = "down" \/ d \in fresh[n]
      BY <2>2, <2>3, <3>2 DEF StepsLeft, MonSteps, Ahead
    <3>3. ASSUME job # "mon", NEW d \in Daemons PROVE d \in fresh[n] /\ d \in enabled[n]
      BY <2>2, <2>3, <3>3 DEF StepsLeft, OsdSteps, Ahead, GoalAhead
    <3> QED
      BY <3>1, <3>2, <3>3 DEF Upgraded
  <2>5. HostInv(n)'
    BY <1>1, <2>1, <2>4 DEF HostInv, RollInv, Upgraded
  <2>6. ASSUME NEW m \in Hosts \ {n} PROVE HostInv(m)'
    <3>1. HostInv(m)
      BY DEF UpgradeInv
    <3>2. RollInv(m)'
      BY <2>1, <2>6, <3>1 DEF HostInv, RollInv, StepsLeft, Hung, On, NextStep
    <3>3. done = Hosts => done' = Hosts
      BY <2>1
    <3> QED
      BY <2>1, <2>6, <3>1, <3>2, <3>3 DEF HostInv, Upgraded
  <2>7. done = Hosts => done' = Hosts
    BY <2>1
  <2> QED
    BY <2>1, <2>5, <2>6, <2>7 DEF UpgradeInv
<1>5. CASE WaitAll(n) \/ Settle(n)
  <2>1. /\ UNCHANGED <<job, done, state, goal, enabled, fresh, installed>>
        /\ pc[n] \in {"waitAll", "settle"}
        /\ pc'[n] \in {"waitAll", "settle", "ended", "raised"}
        /\ pc'[n] = "settle" => done = Hosts
        /\ settled' => settled \/ pc[n] = "settle"
        /\ \A m \in Hosts \ {n} : pc'[m] = pc[m] /\ todo'[m] = todo[m]
    <3>1. CASE WaitAll(n)
      <4>1. UNCHANGED <<job, done, state, goal, enabled, fresh, installed, settled>>
              /\ pc[n] = "waitAll"
        BY <3>1 DEF WaitAll
      <4>2. CASE End(n, "raised")
        BY <1>1, <4>1, <4>2 DEF End, Goto, Types
      <4>3. CASE done = Hosts /\ End(n, "settle")
        BY <1>1, <4>1, <4>3 DEF End, Goto, Types
      <4>4. CASE UNCHANGED <<pc, todo, waited, kickAge>>
        BY <4>1, <4>4
      <4> QED
        BY <3>1, <4>2, <4>3, <4>4 DEF WaitAll
    <3>2. CASE Settle(n)
      BY <1>1, <3>2 DEF Settle, Goto, Types
    <3> QED
      BY <1>5, <3>1, <3>2
  <2>2. job = "mon" /\ (pc[n] = "settle" => done = Hosts)
    BY <1>1, <2>1 DEF HostInv
  <2>3. HostInv(n)'
    BY <1>1, <2>1, <2>2 DEF HostInv, RollInv, Upgraded
  <2>4. ASSUME NEW m \in Hosts \ {n} PROVE HostInv(m)'
    BY <2>1, <2>4, OtherHost DEF UpgradeInv
  <2> QED
    BY <2>1, <2>2, <2>3, <2>4 DEF UpgradeInv
<1> QED
  BY <1>2, <1>3, <1>4, <1>5

\* A command that raises inside maintain_osd_state leaves the host waiting.
LEMMA FailHangs ==
  ASSUME UpgradeInv, NEW n \in Hosts, Fail(n), pc[n] = "roll", InBlock(n)
  PROVE  job # "mon" /\ Hung(n)'
<1> DEFINE T == todo[n]
<1>1. /\ Types /\ HostInv(n) /\ UNCHANGED <<state, goal>>
      /\ pc[n] = "roll" /\ InBlock(n) /\ Fail(n)
      /\ todo'[n] = <<[do |-> "goal", on |-> On(n)], Step("exit")>>
  BY DEF UpgradeInv, Types, Fail, daemons
<1>2. T \in Seq(Steps) /\ T # <<>>
  BY <1>1 DEF InBlock, Types
<1>3. PICK k \in 1 .. Len(T) : T[k].do = "goal" /\ \A j \in 1 .. k : T[j].do # "state"
  BY <1>1, <1>2 DEF InBlock
<1>4. T[1].do \in Raising /\ T[1].on = On(n) /\ 1 \in 1 .. Len(T)
  <2>1. NextStep(n) = T[1].do
    BY <1>2 DEF NextStep
  <2>2. T[1] \in Steps
    BY <1>2
  <2>3. T[1].do # "none"
    BY <2>2 DEF Steps, StepNames
  <2> QED
    BY <1>1, <1>2, <2>1, <2>3 DEF Fail, On
<1>5. ~Hung(n)
  BY <1>2, <1>4 DEF Hung, NextStep, Raising
<1>6. StepsLeft(n)
  BY <1>1, <1>5 DEF HostInv, RollInv
<1>7. job # "mon"
  <2>1. Has(T, "goal")
    BY <1>3 DEF Has
  <2> QED
    BY <1>6, <2>1 DEF StepsLeft
<1>8. InnerSteps(T, state[n], goal[n])
  BY <1>6, <1>7 DEF StepsLeft
<1>9. \A j \in 1 .. Len(T) : ~(j < 1)
  BY <1>2
<1>10. PICK d \in On(n) : goal[n][d] # "down" /\ state[n][d] = "down"
  BY <1>3, <1>4, <1>8, <1>9 DEF InnerSteps
<1>11. Hung(n)'
  <2>1. /\ todo'[n] # <<>>
        /\ Head(todo'[n]) = [do |-> "goal", on |-> On(n)]
    BY <1>1
  <2>2. NextStep(n)' = "goal" /\ On(n)' = On(n)
    BY <2>1 DEF NextStep, On
  <2> QED
    BY <1>1, <1>10, <2>1, <2>2 DEF Hung
<1> QED
  BY <1>7, <1>11

LEMMA FailKeeps ==
  ASSUME UpgradeInv, Types', NEW n \in Hosts, Fail(n) PROVE UpgradeInv'
<1> USE DEF daemons, store
<1>1. /\ UNCHANGED <<job, done, settled, state, goal, enabled, fresh, installed>>
      /\ pc[n] \notin Idle /\ Types /\ HostInv(n)
  BY DEF Fail, UpgradeInv
<1>2. /\ \A m \in Hosts \ {n} : pc'[m] = pc[m] /\ todo'[m] = todo[m]
      /\ \/ pc'[n] = "failed"
         \/ /\ pc[n] = "roll" /\ InBlock(n) /\ pc'[n] = pc[n]
            /\ todo'[n] = <<[do |-> "goal", on |-> On(n)], Step("exit")>>
  <2>1. CASE End(n, "failed")
    BY <1>1, <2>1 DEF End, Goto, Types
  <2>2. CASE pc[n] = "roll" /\ InBlock(n)
    BY <1>1, <2>2 DEF Fail, Types
  <2> QED
    BY <2>1, <2>2 DEF Fail
<1>3. ASSUME NEW m \in Hosts \ {n} PROVE HostInv(m)'
  BY <1>1, <1>2, <1>3, OtherHost DEF UpgradeInv
<1>4. HostInv(n)'
  <2>1. CASE pc'[n] = "failed"
    <3>1. pc[n] # "ended"
      BY <1>1 DEF Idle
    <3> QED
      BY <1>1, <2>1, <3>1, HookKeeps
  <2>2. CASE pc[n] = "roll" /\ InBlock(n) /\ pc'[n] = pc[n]
              /\ todo'[n] = <<[do |-> "goal", on |-> On(n)], Step("exit")>>
    <3>1. job # "mon" /\ Hung(n)'
      BY <2>2, FailHangs
    <3> QED
      BY <1>1, <2>2, <3>1 DEF HostInv, RollInv, Upgraded
  <2> QED
    BY <1>2, <2>1, <2>2
<1> QED
  BY <1>1, <1>3, <1>4 DEF UpgradeInv

LEMMA RebootKeeps ==
  ASSUME UpgradeInv, Types', NEW n \in Hosts, Reboot(n) PROVE UpgradeInv'
<1> USE DEF daemons, store
<1>1. /\ UNCHANGED <<job, done, settled, goal, enabled, installed>>
      /\ pc[n] \notin Idle /\ Types /\ HostInv(n)
  BY DEF Reboot, UpgradeInv
<1>2. /\ pc'[n] = "failed"
      /\ \A d \in Daemons : d \notin enabled[n] => state'[n][d] = "down"
      /\ fresh'[n] = IF n \in installed THEN enabled[n] ELSE {}
      /\ \A m \in Hosts \ {n} : /\ pc'[m] = pc[m] /\ todo'[m] = todo[m]
                               /\ state'[m] = state[m] /\ fresh'[m] = fresh[m]
  <2>1. /\ pc'[n] = "failed"
        /\ \A m \in Hosts \ {n} : pc'[m] = pc[m] /\ todo'[m] = todo[m]
    BY <1>1 DEF Reboot, End, Goto, Types
  <2>2. /\ fresh'[n] = IF n \in installed THEN enabled[n] ELSE {}
        /\ \A m \in Hosts \ {n} : state'[m] = state[m] /\ fresh'[m] = fresh[m]
    BY <1>1 DEF Reboot, Types
  <2>3. \A d \in Daemons : d \notin enabled[n] => state'[n][d] = "down"
    BY <1>1 DEF Reboot, Types
  <2> QED
    BY <2>1, <2>2, <2>3
<1>3. ASSUME NEW m \in Hosts \ {n} PROVE HostInv(m)'
  BY <1>1, <1>2, <1>3, OtherHost DEF UpgradeInv
<1>4. HostInv(n)'
  <2>1. pc[n] # "ended"
    BY <1>1 DEF Idle
  <2>2. n \in done => Upgraded(n)' /\ job = "mon"
    BY <1>1, <1>2, <2>1 DEF HostInv, Upgraded
  <2> QED
    BY <1>1, <1>2, <2>2 DEF HostInv, RollInv
<1> QED
  BY <1>1, <1>3, <1>4 DEF UpgradeInv

\* What the invariant says of states is only whether a daemon is down.
LEMMA SameDown ==
  ASSUME NEW T \in Seq(Steps), NEW st, NEW st2, NEW gl, NEW en, NEW fr,
         \A d \in Daemons : st2[d] = "down" <=> st[d] = "down"
  PROVE  /\ \A d \in Daemons : MonSteps(T, d, st, fr) => MonSteps(T, d, st2, fr)
         /\ \A d \in Daemons :
              OsdSteps(T, d, st, gl, en, fr) => OsdSteps(T, d, st2, gl, en, fr)
         /\ InnerSteps(T, st, gl) => InnerSteps(T, st2, gl)
<1>1. ASSUME NEW d \in Daemons
      PROVE  /\ MonSteps(T, d, st, fr) => MonSteps(T, d, st2, fr)
             /\ OsdSteps(T, d, st, gl, en, fr) => OsdSteps(T, d, st2, gl, en, fr)
  BY DEF MonSteps, OsdSteps
<1>2. ASSUME InnerSteps(T, st, gl) PROVE InnerSteps(T, st2, gl)
  <2>1. ASSUME NEW i \in 1 .. Len(T) PROVE T[i].on \subseteq Daemons
    <3>1. T[i] \in Steps
      OBVIOUS
    <3> QED
      BY <3>1 DEF Steps
  <2> QED
    BY <1>2, <2>1 DEF InnerSteps
<1> QED
  BY <1>1, <1>2

LEMMA BootKeeps ==
  ASSUME UpgradeInv, Types', NEW n \in Hosts, NEW d \in Daemons, Boot(n, d)
  PROVE  UpgradeInv'
<1>1. /\ UNCHANGED <<job, pc, todo, done, settled, goal, enabled, fresh, installed>>
      /\ Types
  BY DEF Boot, others, store, UpgradeInv
<1>2. ASSUME NEW m \in Hosts, NEW e \in Daemons
      PROVE  state'[m][e] = "down" <=> state[m][e] = "down"
  BY <1>1 DEF Boot, Types
<1>3. ASSUME NEW m \in Hosts PROVE HostInv(m)'
  <2>1. HostInv(m)
    BY DEF UpgradeInv
  <2>2. todo[m] \in Seq(Steps) /\ todo'[m] = todo[m]
    BY <1>1 DEF Types
  <2>3. Hung(m) => Hung(m)'
    <3>1. ASSUME Hung(m) PROVE On(m) \subseteq Daemons
      <4>1. Head(todo[m]) \in Steps
        BY <2>2, <3>1, HeadTailProperties DEF Hung
      <4> QED
        BY <4>1 DEF On, Steps
    <3> QED
      BY <1>1, <1>2, <3>1 DEF Hung, NextStep, On
  <2>4. StepsLeft(m) => StepsLeft(m)'
    <3>1. \A e \in Daemons : state'[m][e] = "down" <=> state[m][e] = "down"
      BY <1>2
    <3>2. /\ \A e \in Daemons : MonSteps(todo[m], e, state[m], fresh[m])
                                => MonSteps(todo[m], e, state'[m], fresh[m])
          /\ \A e \in Daemons :
               OsdSteps(todo[m], e, state[m], goal[m], enabled[m], fresh[m])
               => OsdSteps(todo[m], e, state'[m], goal[m], enabled[m], fresh[m])
          /\ InnerSteps(todo[m], state[m], goal[m]) => InnerSteps(todo[m], state'[m], goal[m])
      BY <2>2, <3>1, SameDown
    <3> QED
      BY <1>1, <3>2 DEF StepsLeft
  <2>5. Upgraded(m) => Upgraded(m)'
    BY <1>1, <1>2 DEF Upgraded
  <2> QED
    BY <1>1, <2>1, <2>3, <2>4, <2>5 DEF HostInv, RollInv
<1> QED
  BY <1>1, <1>3 DEF UpgradeInv

LEMMA NextUpgrade == UpgradeInv /\ [Next]_vars => UpgradeInv'
<1> SUFFICES ASSUME UpgradeInv, [Next]_vars PROVE UpgradeInv'
  OBVIOUS
<1>1. Types'
  BY NextTypes DEF UpgradeInv
<1>2. ASSUME NEW n \in Hosts, Run(n) PROVE UpgradeInv'
  <2>1. CASE NextOsd(n) /\ On(n) # {}
    BY <1>1, <2>1, NextOsdKeeps
  <2>2. CASE \/ Kick(n) \/ Work(n) \/ Install(n) \/ StopDaemon(n) \/ EnableOsd(n)
             \/ Restart(n) \/ RememberState(n) \/ AwaitGoal(n)
             \/ NextOsd(n) /\ On(n) = {}
    <3>1. Types
      BY DEF UpgradeInv
    <3> QED
      BY <1>1, <2>2, <3>1, WorkingStep, SteppedKeeps
  <2> QED
    BY <1>1, <1>2, <2>1, <2>2, WaitingKeeps DEF Run
<1>3. CASE Tick \/ UNCHANGED vars
  <2>1. UNCHANGED <<job, pc, todo, done, settled, state, goal, enabled, fresh, installed>>
    BY <1>3 DEF Tick, vars, daemons
  <2>2. ASSUME NEW n \in Hosts PROVE HostInv(n)'
    BY <2>1, OtherHost DEF UpgradeInv
  <2> QED
    BY <1>1, <2>1, <2>2 DEF UpgradeInv
<1> QED
  BY <1>1, <1>2, <1>3, FailKeeps, RebootKeeps, BootKeeps DEF Next

-----------------------------------------------------------------------------
(* What it shows.                                                          *)

\* A _done key tells the truth, whatever failed, went down or was run again
\* before it was set, for any number of hosts and daemons and any clocks.
THEOREM DoneIsUpgraded == Spec => []DoneMeansUpgraded
<1>1. UpgradeInv => DoneMeansUpgraded
  <2> SUFFICES ASSUME UpgradeInv, NEW n \in done
               PROVE  /\ n \in installed
                      /\ job # "mon" => fresh[n] = Daemons /\ enabled[n] = Daemons
    BY DEF DoneMeansUpgraded
  <2>1. n \in Hosts /\ fresh[n] \in SUBSET Daemons /\ enabled[n] \in SUBSET Daemons
    BY DEF UpgradeInv, Types
  <2>2. Upgraded(n)
    BY <2>1 DEF UpgradeInv, HostInv
  <2> QED
    BY <2>1, <2>2 DEF Upgraded
<1> QED
  BY <1>1, InitUpgrade, NextUpgrade, PTL DEF Spec

\* The cluster is told that all monitors are upgraded only when they are.
THEOREM SettledIsUpgraded == Spec => []SettledMeansUpgraded
<1>1. UpgradeInv => SettledMeansUpgraded
  BY DEF UpgradeInv, HostInv, Upgraded, SettledMeansUpgraded
<1> QED
  BY <1>1, InitUpgrade, NextUpgrade, PTL DEF Spec

-----------------------------------------------------------------------------
(* Whose turn it is.  First, what the steps of an upgrade wait for.         *)

\* Every wait for a remembered state is for one in which no daemon is down.
GoalsUp(T, gl) ==
  \A i \in 1 .. Len(T), d \in Daemons : Is(T[i], "goal", d) =>
    gl[d] # "down" \/ \E k \in 1 .. Len(T) : k < i /\ Is(T[k], "state", d)

LEMMA GoalsTail ==
  ASSUME NEW T \in Seq(Steps), T # <<>>, NEW gl, NEW gl2, GoalsUp(T, gl),
         \A d \in Daemons :
           IF Is(Head(T), "state", d) THEN gl2[d] # "down" ELSE gl2[d] = gl[d]
  PROVE  GoalsUp(Tail(T), gl2)
<1> USE TailSteps
<1> SUFFICES ASSUME NEW i \in 1 .. Len(T) - 1, NEW d \in Daemons,
                    Is(Tail(T)[i], "goal", d)
             PROVE  \/ gl2[d] # "down"
                    \/ \E k \in 1 .. Len(T) - 1 : k < i /\ Is(Tail(T)[k], "state", d)
  BY DEF GoalsUp
<1>1. i + 1 \in 1 .. Len(T) /\ Is(T[i + 1], "goal", d)
  OBVIOUS
<1>2. CASE gl[d] # "down" \/ Is(Head(T), "state", d)
  BY <1>2
<1>3. CASE ~(gl[d] # "down") /\ ~Is(Head(T), "state", d)
  <2>1. PICK k \in 1 .. Len(T) : k < i + 1 /\ Is(T[k], "state", d)
    BY <1>1, <1>3 DEF GoalsUp
  <2>2. k # 1
    BY <1>3, <2>1
  <2>3. k - 1 \in 1 .. Len(T) - 1 /\ k - 1 < i /\ Is(Tail(T)[k - 1], "state", d)
    BY <2>1, <2>2
  <2> HIDE TailSteps
  <2> QED
    BY <2>3
<1> QED
  BY <1>2, <1>3

\* In the plans.
LEMMA NoGoals ==
  ASSUME NEW T, NEW gl, ~Has(T, "goal") PROVE GoalsUp(T, gl)
BY DEF GoalsUp, Has, Is

LEMMA GoalsPlan ==
  ASSUME job \in {"mon", "osd", "osdChown"}, NEW gl, NEW T, T = Plan
  PROVE  GoalsUp(T, gl)
<1>1. CASE job = "mon"
  BY <1>1, PlanOf, MonPlan, NoGoals
<1>2. CASE job = "osd"
  <2>1. T = UpgradeOsd(FALSE)
    BY <1>2, PlanOf
  <2>2. /\ Len(T) = 7
        /\ T[1] = Step("source") /\ T[2] = Step("kick") /\ T[3] = Step("install")
        /\ T[4] = Step("kick") /\ T[5] = Step("state") /\ T[6] = Step("restart")
        /\ T[7] = Step("goal")
    BY <2>1, OsdPlanSteps
  <2>3. ASSUME NEW i \in 1 .. Len(T), NEW d \in Daemons, Is(T[i], "goal", d)
        PROVE  \E k \in 1 .. Len(T) : k < i /\ Is(T[k], "state", d)
    <3>1. i \in {1, 2, 3, 4, 5, 6, 7}
      BY <2>2
    <3>2. i = 7
      BY <2>2, <2>3, <3>1 DEF Step, Is
    <3>3. 5 \in 1 .. Len(T) /\ 5 < i /\ Is(T[5], "state", d)
      BY <2>2, <3>2 DEF Step, Is
    <3> QED
      BY <3>3
  <2> QED
    BY <2>3 DEF GoalsUp
<1>3. CASE job = "osdChown"
  <2>1. T = UpgradeOsd(TRUE)
    BY <1>3, PlanOf
  <2>2. /\ Len(T) = 7
        /\ T[1] = Step("source") /\ T[2] = Step("kick") /\ T[3] = Step("install")
        /\ T[4] = Step("kick") /\ T[5] = Step("kick") /\ T[6] = Step("chown")
        /\ T[7] = Step("each")
    BY <2>1, ChownPlanSteps
  <2>3. \A i \in 1 .. Len(T) : T[i].do # "goal"
    <3>1. \A i \in 1 .. Len(T) : i \in {1, 2, 3, 4, 5, 6, 7}
      BY <2>2
    <3> QED
      BY <2>2, <3>1 DEF Step
  <2>4. ~Has(T, "goal")
    BY <2>3 DEF Has
  <2> QED
    BY <2>4, NoGoals
<1> QED
  BY <1>1, <1>2, <1>3

\* In the upgrade of one OSD.
LEMMA GoalsSingle ==
  ASSUME NEW gl, NEW c \in Daemons, NEW R \in SUBSET Daemons,
         NEW T, T = UpgradeSingleOsd(c) \o <<[do |-> "each", on |-> R]>>
  PROVE  GoalsUp(T, gl)
<1>1. /\ Len(T) = 9
      /\ T[1] = StepOn("kick", c) /\ T[2] = StepOn("state", c)
      /\ T[3] = StepOn("stop", c) /\ T[4] = StepOn("disable", c)
      /\ T[5] = StepOn("chown", c) /\ T[6] = StepOn("enable", c)
      /\ T[7] = StepOn("restart", c) /\ T[8] = StepOn("goal", c)
      /\ T[9] = [do |-> "each", on |-> R]
  BY SinglePlanSteps
<1>2. ASSUME NEW i \in 1 .. Len(T), NEW d \in Daemons, Is(T[i], "goal", d)
      PROVE  \E k \in 1 .. Len(T) : k < i /\ Is(T[k], "state", d)
  <2>1. i \in {1, 2, 3, 4, 5, 6, 7, 8, 9}
    BY <1>1
  <2>2. i = 8 /\ d = c
    BY <1>1, <1>2, <2>1 DEF StepOn, Is
  <2>3. 2 \in 1 .. Len(T) /\ 2 < i /\ Is(T[2], "state", d)
    BY <1>1, <2>2 DEF StepOn, Is
  <2> QED
    BY <2>3
<1> QED
  BY <1>2 DEF GoalsUp

-----------------------------------------------------------------------------
(* The order of the turns.                                                 *)

Turn == [n \in Hosts |-> Phase(n)]

\* A wait that ends by the clock, and not by a _done key, ends when every host
\* before has had its turn or given it up: the timing the code counts on.
InPatience ==
  \A n \in Hosts : pc[n] \in {"awaitStart", "awaitAlive"} /\ pc'[n] = "lock" =>
    \A m \in Hosts : m < n => Phase(m) = "over"
Patience == [][InPatience]_vars

\* The hosts before n have had their turns.
HadTurns(n) == \A m \in Hosts : m < n => Phase(m) = "over"

\* A host that rolls waits for no OSD that was down, or it is hung.
RememberInv(n) == pc[n] = "roll" => Hung(n) \/ GoalsUp(todo[n], goal[n])

\* A host begins its turn when those before it have had theirs, and a _done
\* key is only set by one that did.
TurnInv ==
  /\ UpgradeInv
  /\ \A n \in Hosts :
       /\ attempts[n] = 0 => pc[n] = "idle"
       /\ RememberInv(n)
       /\ pc[n] \in {"lock", "roll"} => HadTurns(n)
       /\ n \in done => HadTurns(n) /\ Phase(n) = "over"

LEMMA InitTurn == Init => TurnInv /\ InOrder!Init
<1> SUFFICES ASSUME Init PROVE TurnInv /\ InOrder!Init
  OBVIOUS
<1>1. UpgradeInv
  BY InitUpgrade
<1>2. ASSUME NEW n \in Hosts
      PROVE  attempts[n] = 0 /\ pc[n] = "idle" /\ n \notin done
  BY DEF Init
<1>3. \A n \in Hosts : Phase(n) = "before"
  BY <1>2 DEF Phase
<1>4. InOrder!Init
  BY <1>3 DEF InOrder!Init
<1> QED
  BY <1>1, <1>2, <1>4 DEF TurnInv, RememberInv

\* Hosts that nothing happens to stay in their phase, and in what they remember.
LEMMA SamePhase ==
  ASSUME NEW n, pc'[n] = pc[n], todo'[n] = todo[n], attempts'[n] = attempts[n],
         state'[n] = state[n], goal'[n] = goal[n]
  PROVE  Phase(n)' = Phase(n) /\ (RememberInv(n) => RememberInv(n)')
<1>1. Stuck(n)' <=> Stuck(n)
  BY DEF Stuck, Takes, On, NextStep
<1>2. Hung(n)' <=> Hung(n)
  BY DEF Hung, On, NextStep
<1> QED
  BY <1>1, <1>2 DEF Phase, RememberInv

\* Only host n takes a step.
OthersRest(n) ==
  \A m \in Hosts \ {n} :
    /\ pc'[m] = pc[m] /\ todo'[m] = todo[m] /\ attempts'[m] = attempts[m]
    /\ state'[m] = state[m] /\ goal'[m] = goal[m]

\* What a step of host n does to its turn.
Proceeds(n) ==
  \/ Phase(n)' = Phase(n)
  \/ Phase(n) = "before" /\ Phase(n)' = "in" /\ HadTurns(n)
  \/ Phase(n)' = "over"

LEMMA PhaseType == \A n : Phase(n) \in {"before", "in", "over"}
BY DEF Phase

\* A step of host n keeps the invariant, and is one of Turns or none.
LEMMA HostProceeds ==
  ASSUME TurnInv, UpgradeInv', NEW n \in Hosts, OthersRest(n), Proceeds(n),
         attempts'[n] = 0 => pc'[n] = "idle",
         RememberInv(n)',
         pc'[n] \in {"lock", "roll"} => HadTurns(n),
         done' \subseteq done \union {n},
         n \in done' => HadTurns(n) /\ Phase(n)' = "over"
  PROVE  TurnInv' /\ [InOrder!Next]_Turn
<1>1. ASSUME NEW m \in Hosts \ {n}
      PROVE  Phase(m)' = Phase(m) /\ RememberInv(m)'
  BY SamePhase DEF OthersRest, TurnInv
<1>2. ASSUME NEW m \in Hosts, Phase(m) = "over" PROVE Phase(m)' = "over"
  BY <1>1, <1>2 DEF Proceeds
<1>3. ASSUME NEW m \in Hosts, HadTurns(m) PROVE HadTurns(m)'
  BY <1>2, <1>3 DEF HadTurns
<1>4. TurnInv'
  <2>1. ASSUME NEW m \in Hosts
        PROVE  /\ attempts'[m] = 0 => pc'[m] = "idle"
               /\ RememberInv(m)'
               /\ pc'[m] \in {"lock", "roll"} => HadTurns(m)'
               /\ m \in done' => HadTurns(m)' /\ Phase(m)' = "over"
    <3>1. CASE m = n
      BY <1>3, <3>1
    <3>2. CASE m # n
      <4>1. m \in done' => m \in done
        BY <3>2
      <4> QED
        BY <1>1, <1>2, <1>3, <3>2, <4>1 DEF OthersRest, TurnInv
    <3> QED
      BY <3>1, <3>2
  <2> QED
    BY <2>1 DEF TurnInv
<1>5. [InOrder!Next]_Turn
  <2> DEFINE p == Phase(n)
             q == Phase(n)'
  <2>1. Turn' = [Turn EXCEPT ![n] = q]
    BY <1>1 DEF Turn
  <2>2. Turn[n] = p /\ Turn = [m \in Hosts |-> Phase(m)]
    BY DEF Turn
  <2>3. CASE q = p
    <3>1. Turn' = Turn
      BY <2>1, <2>2, <2>3
    <3> QED
      BY <3>1
  <2>4. CASE p = "before" /\ q = "in" /\ HadTurns(n)
    <3>1. InOrder!Enter(n)
      BY <2>1, <2>2, <2>4 DEF InOrder!Enter, Turn, HadTurns
    <3> QED
      BY <3>1 DEF InOrder!Next
  <2>5. CASE q = "over" /\ p # "over"
    <3>1. p = "before" \/ p = "in"
      BY <2>5, PhaseType
    <3>2. InOrder!Skip(n) \/ InOrder!Leave(n)
      BY <2>1, <2>2, <2>5, <3>1 DEF InOrder!Skip, InOrder!Leave, Turn
    <3> QED
      BY <3>2 DEF InOrder!Next
  <2> QED
    BY <2>3, <2>4, <2>5 DEF Proceeds
<1> QED
  BY <1>4, <1>5

\* A host that has begun and is past its upgrade, or that failed.
LEMMA PastPhase ==
  ASSUME NEW n, attempts'[n] # 0,
         pc'[n] \notin Waiting \union {"packages", "lock", "roll"}
  PROVE  Phase(n)' = "over"
BY DEF Phase, Waiting

\* A host that waits, and one that has just begun its turn.
LEMMA WaitingPhase ==
  ASSUME NEW n, pc'[n] \in Waiting \union {"packages", "lock"}, attempts'[n] # 0
  PROVE  Phase(n)' = IF attempts'[n] # 1 THEN "over"
                     ELSE IF pc'[n] = "lock" THEN "in" ELSE "before"
<1>1. pc'[n] = "lock" => ~Stuck(n)'
  BY DEF Stuck, Takes
<1>2. CASE attempts'[n] # 1
  BY <1>2 DEF Phase
<1>3. CASE attempts'[n] = 1 /\ pc'[n] = "lock"
  BY <1>1, <1>3 DEF Phase, Waiting
<1>4. CASE attempts'[n] = 1 /\ pc'[n] # "lock"
  BY <1>4 DEF Phase, Waiting
<1> QED
  BY <1>2, <1>3, <1>4

\* The hook waits for its turn.
LEMMA AwaitProceeds ==
  ASSUME TurnInv, UpgradeInv', InPatience, NEW n \in Hosts,
         Begin(n) \/ PackagesDone(n) \/ AwaitStart(n) \/ AwaitDone(n) \/ AwaitAlive(n)
  PROVE  TurnInv' /\ [InOrder!Next]_Turn
<1> USE DEF daemons, store
<1>1. Types /\ Types' /\ N \in Nat
  BY RollingAssumption DEF TurnInv, UpgradeInv
<1>2. /\ OthersRest(n) /\ done' = done /\ pc[n] \notin {"ended", "roll"}
      /\ pc'[n] \in Waiting \union {"packages", "lock"}
      /\ attempts'[n] \in Nat \ {0}
  <2>1. CASE Begin(n)
    <3>1. attempts'[n] = attempts[n] + 1 /\ attempts[n] \in Nat
      BY <1>1, <2>1 DEF Begin, Types
    <3>2. pc[n] \in Idle \ {"ended"} /\ pc'[n] \in {"packages", "lock", "awaitStart"}
      BY <1>1, <2>1 DEF Begin, TakePosition, Goto, Types
    <3>3. OthersRest(n) /\ done' = done
      BY <1>1, <2>1 DEF Begin, TakePosition, Goto, Types, OthersRest
    <3> QED
      BY <3>1, <3>2, <3>3 DEF Idle, Waiting
  <2>2. CASE ~Begin(n)
    <3>1. /\ UNCHANGED <<todo, attempts, state, goal, done>>
          /\ pc[n] \in Waiting \union {"packages"}
          /\ pc'[n] \in Waiting \union {"lock"}
          /\ \A m \in Hosts \ {n} : pc'[m] = pc[m]
      <4>1. CASE PackagesDone(n)
        BY <1>1, <4>1 DEF PackagesDone, TakePosition, Goto, Types, Waiting
      <4>2. CASE AwaitStart(n)
        BY <1>1, <4>2 DEF AwaitStart, Goto, Types, Waiting
      <4>3. CASE AwaitDone(n)
        BY <1>1, <4>3 DEF AwaitDone, Goto, Types, Waiting
      <4>4. CASE AwaitAlive(n)
        BY <1>1, <4>4 DEF AwaitAlive, Goto, Types, Waiting
      <4> QED
        BY <2>2, <4>1, <4>2, <4>3, <4>4
    <3>2. pc[n] # "idle" /\ pc[n] # "ended" /\ pc[n] # "roll"
      BY <3>1 DEF Waiting
    <3>3. attempts[n] # 0 /\ attempts[n] \in Nat
      BY <1>1, <3>2 DEF TurnInv, Types
    <3> QED
      BY <3>1, <3>2, <3>3 DEF OthersRest
  <2> QED
    BY <2>1, <2>2
<1>3. pc'[n] = "lock" => HadTurns(n)
  <2> SUFFICES ASSUME pc'[n] = "lock" PROVE HadTurns(n)
    OBVIOUS
  <2>1. CASE n = 1
    <3>1. \A m \in Hosts : ~(m < n)
      BY <1>1, <2>1 DEF Hosts
    <3> QED
      BY <3>1 DEF HadTurns
  <2>2. CASE n # 1 /\ (AwaitStart(n) \/ AwaitAlive(n))
    <3>1. pc[n] \in {"awaitStart", "awaitAlive"}
      BY <2>2 DEF AwaitStart, AwaitAlive
    <3> QED
      BY <3>1 DEF InPatience, HadTurns
  <2>3. CASE n # 1 /\ AwaitDone(n)
    <3>1. n - 1 \in done
      BY <1>1, <2>3 DEF AwaitDone, Goto, Types
    <3>2. n - 1 \in Hosts /\ HadTurns(n - 1) /\ Phase(n - 1) = "over"
      BY <1>1, <3>1 DEF TurnInv, Types
    <3>3. ASSUME NEW m \in Hosts, m < n PROVE m = n - 1 \/ m < n - 1
      BY <1>1, <3>3 DEF Hosts
    <3> QED
      BY <3>2, <3>3 DEF HadTurns
  <2>4. CASE n # 1 /\ (Begin(n) \/ PackagesDone(n))
    BY <1>1, <2>4 DEF Begin, PackagesDone, TakePosition, Goto, Types
  <2> QED
    BY <2>1, <2>2, <2>3, <2>4
<1>4. Phase(n)' = IF attempts'[n] # 1 THEN "over"
                  ELSE IF pc'[n] = "lock" THEN "in" ELSE "before"
  <2>1. attempts'[n] # 0
    BY <1>2
  <2> QED
    BY <1>2, <2>1, WaitingPhase
<1>5. attempts'[n] = 1 => Phase(n) = "before"
  <2>1. CASE Begin(n)
    <3>1. attempts'[n] = attempts[n] + 1 /\ attempts[n] \in Nat
      BY <1>1, <2>1 DEF Begin, Types
    <3> QED
      BY <3>1 DEF Phase
  <2>2. CASE ~Begin(n)
    <3>1. attempts'[n] = attempts[n] /\ pc[n] \in Waiting \union {"packages"}
      BY <2>2 DEF PackagesDone, AwaitStart, AwaitDone, AwaitAlive, Waiting
    <3> QED
      BY <3>1 DEF Phase, Waiting
  <2> QED
    BY <2>1, <2>2
<1>6. Proceeds(n)
  BY <1>3, <1>4, <1>5 DEF Proceeds
<1>7. n \in done' => HadTurns(n) /\ Phase(n)' = "over"
  <2>1. n \in done => HadTurns(n) /\ Phase(n) = "over"
    BY DEF TurnInv
  <2> QED
    BY <1>2, <1>4, <1>5, <2>1
<1>8. /\ attempts'[n] = 0 => pc'[n] = "idle"
      /\ RememberInv(n)' /\ (pc'[n] \in {"lock", "roll"} => HadTurns(n))
  BY <1>2, <1>3 DEF RememberInv, Waiting
<1> QED
  BY <1>2, <1>6, <1>7, <1>8, HostProceeds

\* The host begins its turn.
LEMMA StartProceeds ==
  ASSUME TurnInv, UpgradeInv', NEW n \in Hosts, SetStart(n)
  PROVE  TurnInv' /\ [InOrder!Next]_Turn
<1> USE DEF daemons, store
<1>1. Types /\ job \in {"mon", "osd", "osdChown"}
  BY RollingAssumption DEF TurnInv, UpgradeInv, Types
<1>2. /\ OthersRest(n) /\ done' = done /\ pc[n] = "lock" /\ pc'[n] = "roll"
      /\ todo'[n] = Plan /\ goal' = goal /\ attempts' = attempts
  BY <1>1 DEF SetStart, Goto, Types, OthersRest
<1>3. attempts[n] # 0 /\ HadTurns(n) /\ (n \in done => Phase(n) = "over")
  BY <1>2 DEF TurnInv
<1>4. RememberInv(n)'
  <2>1. \A T : T = Plan => GoalsUp(T, goal[n])
    BY <1>1, GoalsPlan
  <2> QED
    BY <1>2, <2>1 DEF RememberInv
<1>5. CASE attempts[n] # 1
  <2>1. Phase(n)' = "over"
    BY <1>2, <1>3, <1>5 DEF Phase
  <2> QED
    BY <1>2, <1>3, <1>4, <2>1, HostProceeds DEF Proceeds
<1>6. CASE attempts[n] = 1
  <2>1. Phase(n) = "in"
    <3>1. ~Stuck(n)
      BY <1>2 DEF Stuck, Takes
    <3> QED
      BY <1>2, <1>6, <3>1 DEF Phase, Waiting
  <2>2. Phase(n)' \in {"in", "over"}
    BY <1>2, <1>6 DEF Phase, Waiting
  <2> QED
    BY <1>2, <1>3, <1>4, <2>1, <2>2, HostProceeds DEF Proceeds
<1> QED
  BY <1>5, <1>6

\* The host is past its upgrade, or fails.
LEMMA EndProceeds ==
  ASSUME TurnInv, UpgradeInv', NEW n \in Hosts, OthersRest(n),
         attempts' = attempts, pc[n] # "idle",
         pc'[n] \notin Waiting \union {"packages", "lock", "roll"},
         done' = done \/ (pc[n] = "roll" /\ done' = done \union {n})
  PROVE  TurnInv' /\ [InOrder!Next]_Turn
<1>1. attempts'[n] # 0
  BY DEF TurnInv
<1>2. Phase(n)' = "over"
  BY <1>1, PastPhase
<1>3. n \in done' => HadTurns(n)
  BY DEF TurnInv
<1>4. RememberInv(n)' /\ pc'[n] \notin {"lock", "roll"}
  BY DEF RememberInv
<1> QED
  BY <1>1, <1>2, <1>3, <1>4, HostProceeds DEF Proceeds

LEMMA PastProceeds ==
  ASSUME TurnInv, UpgradeInv', NEW n \in Hosts,
         SetDone(n) \/ Settle(n) \/ Reboot(n)
           \/ (WaitAll(n) /\ pc' # pc)
           \/ (Fail(n) /\ ~(pc[n] = "roll" /\ InBlock(n)))
  PROVE  TurnInv' /\ [InOrder!Next]_Turn
<1> USE DEF daemons, store
<1>1. Types
  BY DEF TurnInv, UpgradeInv
<1>2. /\ OthersRest(n) /\ attempts' = attempts /\ pc[n] # "idle"
      /\ pc'[n] \in {"waitAll", "settle", "ended", "raised", "failed"}
      /\ done' = done \/ (pc[n] = "roll" /\ done' = done \union {n})
  <2>1. CASE SetDone(n)
    BY <1>1, <2>1 DEF SetDone, End, Goto, Types, OthersRest
  <2>2. CASE Settle(n)
    BY <1>1, <2>2 DEF Settle, Goto, Types, OthersRest
  <2>3. CASE Reboot(n)
    BY <1>1, <2>3 DEF Reboot, End, Goto, Types, OthersRest, Idle
  <2>4. CASE WaitAll(n) /\ pc' # pc
    <3>1. End(n, "raised") \/ End(n, "settle")
      BY <2>4 DEF WaitAll
    <3>2. OthersRest(n) /\ pc'[n] \in {"raised", "settle"}
      BY <1>1, <2>4, <3>1 DEF WaitAll, End, Goto, Types, OthersRest
    <3> QED
      BY <2>4, <3>2 DEF WaitAll
  <2>5. CASE Fail(n) /\ ~(pc[n] = "roll" /\ InBlock(n))
    BY <1>1, <2>5 DEF Fail, End, Goto, Types, OthersRest, Idle
  <2> QED
    BY <2>1, <2>2, <2>3, <2>4, <2>5
<1>3. pc'[n] \notin Waiting \union {"packages", "lock", "roll"}
  BY <1>2 DEF Waiting
<1> QED
  BY <1>2, <1>3, EndProceeds

\* A step of an upgrade, by a host that is not stuck.
LEMMA RollProceeds ==
  ASSUME TurnInv, UpgradeInv', NEW n \in Hosts, OthersRest(n),
         UNCHANGED <<pc, attempts, done>>,
         pc[n] = "packages" \/ (pc[n] = "roll" /\ ~Stuck(n)),
         RememberInv(n)'
  PROVE  TurnInv' /\ [InOrder!Next]_Turn
<1>1. attempts[n] # 0 /\ attempts'[n] = attempts[n] /\ pc'[n] = pc[n]
  BY DEF TurnInv
<1>2. /\ pc[n] = "roll" => HadTurns(n)
      /\ n \in done => HadTurns(n) /\ Phase(n) = "over"
  BY DEF TurnInv
<1>3. CASE attempts[n] # 1
  <2>1. Phase(n)' = "over"
    BY <1>1, <1>3 DEF Phase
  <2> QED
    BY <1>1, <1>2, <2>1, HostProceeds DEF Proceeds
<1>4. CASE attempts[n] = 1 /\ pc[n] = "packages"
  <2>1. Phase(n) = "before" /\ Phase(n)' = "before"
    BY <1>1, <1>4 DEF Phase
  <2> QED
    BY <1>1, <1>2, <1>4, <2>1, HostProceeds DEF Proceeds
<1>5. CASE attempts[n] = 1 /\ pc[n] = "roll"
  <2>1. Phase(n) = "in"
    BY <1>5 DEF Phase, Waiting
  <2>2. Phase(n)' \in {"in", "over"}
    BY <1>1, <1>5 DEF Phase, Waiting
  <2> QED
    BY <1>1, <1>2, <1>5, <2>1, <2>2, HostProceeds DEF Proceeds
<1> QED
  BY <1>3, <1>4, <1>5

\* A host that is stuck takes no step of its upgrade.
LEMMA StuckStays ==
  ASSUME TurnInv, NEW n \in Hosts, pc[n] = "roll",
         \/ Kick(n) \/ Work(n) \/ Install(n) \/ StopDaemon(n) \/ EnableOsd(n)
         \/ Restart(n) \/ RememberState(n) \/ AwaitGoal(n) \/ NextOsd(n)
         \/ (Fail(n) /\ InBlock(n))
  PROVE  ~Stuck(n)
<1>1. Types /\ RememberInv(n)
  BY DEF TurnInv, UpgradeInv
<1>2. CASE RememberState(n)
  BY <1>2 DEF RememberState, Stuck, Takes
<1>3. CASE AwaitGoal(n)
  <2>1. /\ todo[n] # <<>> /\ todo[n] \in Seq(Steps) /\ NextStep(n) = "goal"
        /\ \A d \in On(n) : state[n][d] = goal[n][d]
    BY <1>1, <1>3 DEF AwaitGoal, Takes, NextStep, Types
  <2>2. GoalsUp(todo[n], goal[n])
    BY <1>1, <2>1 DEF RememberInv, Hung
  <2>3. On(n) \in SUBSET Daemons
    BY <1>1, <1>3, OnTypes DEF AwaitGoal
  <2>4. ASSUME NEW d \in On(n) PROVE goal[n][d] # "down"
    <3>1. 1 \in 1 .. Len(todo[n]) /\ todo[n][1] = Head(todo[n])
      BY <2>1
    <3>2. Is(todo[n][1], "goal", d)
      BY <2>1, <2>4, <3>1 DEF Is, NextStep, On
    <3>3. \A k \in 1 .. Len(todo[n]) : ~(k < 1)
      BY <2>1
    <3> QED
      BY <2>2, <2>3, <2>4, <3>1, <3>2, <3>3 DEF GoalsUp
  <2> QED
    BY <2>1, <2>4 DEF Stuck, Takes
<1>4. CASE \/ Kick(n) \/ Work(n) \/ Install(n) \/ StopDaemon(n) \/ EnableOsd(n)
           \/ Restart(n) \/ NextOsd(n)
  <2>1. NextStep(n) \in {"kick", "source", "chown", "install", "stop", "disable",
                         "enable", "restart", "each"}
    BY <1>4 DEF Kick, Work, Install, StopDaemon, EnableOsd, Restart, NextOsd, Takes
  <2> QED
    BY <2>1 DEF Stuck, Takes
<1>5. CASE Fail(n) /\ InBlock(n)
  <2>1. NextStep(n) \in Raising \union {"none"}
    BY <1>5 DEF Fail
  <2> QED
    BY <2>1 DEF Stuck, Takes, Raising
<1> QED
  BY <1>2, <1>3, <1>4, <1>5

\* The steps of an upgrade.
LEMMA WorkProceeds ==
  ASSUME TurnInv, UpgradeInv', NEW n \in Hosts,
         \/ Kick(n) \/ Work(n) \/ Install(n) \/ StopDaemon(n) \/ EnableOsd(n)
         \/ Restart(n) \/ RememberState(n) \/ AwaitGoal(n)
         \/ (NextOsd(n) /\ On(n) = {})
  PROVE  TurnInv' /\ [InOrder!Next]_Turn
<1>1. Types /\ RememberInv(n)
  BY DEF TurnInv, UpgradeInv
<1>2. Stepped(n)
  BY <1>1, WorkingStep
<1>3. UNCHANGED <<pc, attempts, done>>
  BY DEF Kick, Work, Install, StopDaemon, EnableOsd, Restart, RememberState,
         AwaitGoal, NextOsd, others, store
<1>4. OthersRest(n)
  BY <1>1, <1>2, <1>3 DEF Stepped, OthersRest, Types
<1>5. pc[n] = "packages" \/ (pc[n] = "roll" /\ ~Stuck(n))
  BY <1>2, StuckStays DEF Stepped
<1>6. ASSUME pc[n] = "roll" PROVE GoalsUp(todo[n], goal[n])
  <2> SUFFICES ASSUME Hung(n) PROVE FALSE
    BY <1>1, <1>6 DEF RememberInv
  <2>1. Stuck(n)
    BY <1>6 DEF Hung, Stuck, Takes
  <2> QED
    BY <1>5, <1>6, <2>1
<1>7. RememberInv(n)'
  <2> SUFFICES ASSUME pc[n] = "roll" PROVE GoalsUp(todo[n], goal[n])'
    BY <1>3 DEF RememberInv
  <2>1. todo[n] \in Seq(Steps) /\ todo[n] # <<>> /\ todo'[n] = Tail(todo[n])
    BY <1>1, <1>2 DEF Stepped, Types
  <2>2. \A d \in Daemons : IF Is(Head(todo[n]), "state", d) THEN goal'[n][d] # "down"
                           ELSE goal'[n][d] = goal[n][d]
    BY <1>2 DEF Stepped, Effect
  <2>3. GoalsUp(Tail(todo[n]), goal'[n])
    BY <1>6, <2>1, <2>2, GoalsTail
  <2> QED
    BY <2>1, <2>3
<1> QED
  BY <1>3, <1>4, <1>5, <1>7, RollProceeds

\* The loop over the OSDs.
LEMMA NextOsdProceeds ==
  ASSUME TurnInv, UpgradeInv', NEW n \in Hosts, NextOsd(n), On(n) # {}
  PROVE  TurnInv' /\ [InOrder!Next]_Turn
<1> USE DEF daemons, store, others
<1>1. /\ UNCHANGED <<pc, attempts, done, state, goal>> /\ Types
      /\ pc[n] \in {"packages", "roll"}
  BY DEF NextOsd, Takes, TurnInv, UpgradeInv
<1>2. PICK c \in On(n) :
        todo' = [todo EXCEPT ![n] = UpgradeSingleOsd(c) \o
                   <<[do |-> "each", on |-> On(n) \ {c}]>>]
  BY DEF NextOsd
<1>3. On(n) \in SUBSET Daemons
  BY <1>1, OnTypes DEF NextOsd
<1>4. OthersRest(n)
  BY <1>1, <1>2 DEF OthersRest, Types
<1>5. GoalsUp(todo[n], goal[n])'
  <2>1. todo'[n] = UpgradeSingleOsd(c) \o <<[do |-> "each", on |-> On(n) \ {c}]>>
    BY <1>1, <1>2 DEF Types
  <2>2. c \in Daemons /\ On(n) \ {c} \in SUBSET Daemons
    BY <1>2, <1>3
  <2>3. \A T : T = UpgradeSingleOsd(c) \o <<[do |-> "each", on |-> On(n) \ {c}]>>
                 => GoalsUp(T, goal'[n])
    BY <2>2, GoalsSingle
  <2> QED
    BY <2>1, <2>3
<1>6. pc[n] = "roll" => ~Stuck(n)
  BY StuckStays
<1> QED
  BY <1>1, <1>4, <1>5, <1>6, RollProceeds DEF RememberInv

\* An exception that maintain_osd_state holds.
LEMMA HeldProceeds ==
  ASSUME TurnInv, UpgradeInv', NEW n \in Hosts, Fail(n), pc[n] = "roll", InBlock(n)
  PROVE  TurnInv' /\ [InOrder!Next]_Turn
<1>1. UNCHANGED <<pc, attempts, done>> /\ OthersRest(n)
  BY DEF Fail, daemons, store, OthersRest, TurnInv, UpgradeInv, Types
<1>2. Hung(n)'
  BY FailHangs DEF TurnInv
<1>3. ~Stuck(n)
  BY StuckStays
<1> QED
  BY <1>1, <1>2, <1>3, RollProceeds DEF RememberInv

\* An OSD that boots brings no host out of where it is stuck.
LEMMA BootProceeds ==
  ASSUME TurnInv, UpgradeInv', NEW n \in Hosts, NEW d \in Daemons, Boot(n, d)
  PROVE  TurnInv' /\ [InOrder!Next]_Turn
<1>1. /\ UNCHANGED <<pc, attempts, done, todo, goal>> /\ Types /\ Types'
      /\ \A m \in Hosts \ {n} : state'[m] = state[m]
      /\ state[n][d] = "booting"
      /\ \A e \in Daemons : state'[n][e] = IF e = d THEN "active" ELSE state[n][e]
  BY DEF Boot, others, store, TurnInv, UpgradeInv, Types
<1>2. OthersRest(n)
  BY <1>1 DEF OthersRest
<1>3. Takes(n, "state") \/ Takes(n, "goal") => On(n) \in SUBSET Daemons
  BY <1>1, OnTypes
<1>4. Stuck(n) => Stuck(n)'
  BY <1>1, <1>3 DEF Stuck, Takes, On, NextStep
<1>5. Proceeds(n)
  BY <1>1, <1>4 DEF Proceeds, Phase
<1>6. RememberInv(n)'
  <2> SUFFICES ASSUME pc[n] = "roll", RememberInv(n)
               PROVE  Hung(n)' \/ GoalsUp(todo[n], goal[n])'
    BY <1>1 DEF RememberInv, TurnInv
  <2>1. CASE Hung(n)
    <3>1. On(n) \in SUBSET Daemons
      BY <1>3, <2>1 DEF Hung, Takes
    <3>2. Hung(n)'
      BY <1>1, <2>1, <3>1 DEF Hung, On, NextStep
    <3> QED
      BY <3>2
  <2>2. CASE GoalsUp(todo[n], goal[n])
    BY <1>1, <2>2
  <2> QED
    BY <2>1, <2>2 DEF RememberInv
<1>7. /\ attempts'[n] = 0 => pc'[n] = "idle"
      /\ pc'[n] \in {"lock", "roll"} => HadTurns(n)
  BY <1>1 DEF TurnInv
<1>8. n \in done' => HadTurns(n) /\ Phase(n)' = "over"
  <2> SUFFICES ASSUME n \in done PROVE HadTurns(n) /\ Phase(n)' = "over"
    BY <1>1
  <2>1. HadTurns(n) /\ Phase(n) = "over"
    BY DEF TurnInv
  <2> QED
    BY <1>5, <2>1 DEF Proceeds
<1> QED
  BY <1>1, <1>2, <1>5, <1>6, <1>7, <1>8, HostProceeds

\* Time, and a host that looks and goes on waiting.
LEMMA SameTurns ==
  ASSUME TurnInv, UpgradeInv',
         UNCHANGED <<pc, todo, attempts, state, goal, done>>
  PROVE  TurnInv' /\ [InOrder!Next]_Turn
<1>1. \A n \in Hosts : Phase(n)' = Phase(n) /\ RememberInv(n)'
  BY SamePhase DEF TurnInv
<1>2. UNCHANGED Turn
  BY <1>1 DEF Turn
<1>3. TurnInv'
  BY <1>1 DEF TurnInv, HadTurns
<1> QED
  BY <1>2, <1>3

\* Every step is one of Turns or none.
LEMMA NextTurn ==
  ASSUME TurnInv, [Next]_vars, [InPatience]_vars
  PROVE  TurnInv' /\ [InOrder!Next]_Turn
<1>1. UpgradeInv'
  BY NextUpgrade DEF TurnInv
<1>2. CASE Tick \/ UNCHANGED vars
  <2>1. UNCHANGED <<pc, todo, attempts, state, goal, done>>
    BY <1>2 DEF Tick, vars, daemons
  <2> QED
    BY <1>1, <2>1, SameTurns
<1>3. CASE InPatience
  <2>1. ASSUME NEW n \in Hosts, Run(n) PROVE TurnInv' /\ [InOrder!Next]_Turn
    <3>1. CASE Begin(n) \/ PackagesDone(n) \/ AwaitStart(n) \/ AwaitDone(n) \/ AwaitAlive(n)
      BY <1>1, <1>3, <3>1, AwaitProceeds
    <3>2. CASE SetStart(n)
      BY <1>1, <3>2, StartProceeds
    <3>3. CASE SetDone(n) \/ Settle(n) \/ (WaitAll(n) /\ pc' # pc)
      BY <1>1, <3>3, PastProceeds
    <3>4. CASE WaitAll(n) /\ pc' = pc
      <4>1. pc[n] = "waitAll" /\ Types
        BY <3>4 DEF WaitAll, TurnInv, UpgradeInv
      <4>2. ~End(n, "raised") /\ ~End(n, "settle")
        BY <3>4, <4>1 DEF End, Goto, Types
      <4>3. UNCHANGED <<pc, todo, attempts, state, goal, done>>
        BY <3>4, <4>2 DEF WaitAll, daemons, store
      <4> QED
        BY <1>1, <4>3, SameTurns
    <3>5. CASE NextOsd(n) /\ On(n) # {}
      BY <1>1, <3>5, NextOsdProceeds
    <3>6. CASE \/ Kick(n) \/ Work(n) \/ Install(n) \/ StopDaemon(n) \/ EnableOsd(n)
               \/ Restart(n) \/ RememberState(n) \/ AwaitGoal(n)
               \/ (NextOsd(n) /\ On(n) = {})
      BY <1>1, <3>6, WorkProceeds
    <3> QED
      BY <2>1, <3>1, <3>2, <3>3, <3>4, <3>5, <3>6 DEF Run
  <2>2. ASSUME NEW n \in Hosts, Fail(n) \/ Reboot(n) PROVE TurnInv' /\ [InOrder!Next]_Turn
    <3>1. CASE Fail(n) /\ pc[n] = "roll" /\ InBlock(n)
      BY <1>1, <3>1, HeldProceeds
    <3>2. CASE Reboot(n) \/ (Fail(n) /\ ~(pc[n] = "roll" /\ InBlock(n)))
      BY <1>1, <3>2, PastProceeds
    <3> QED
      BY <2>2, <3>1, <3>2
  <2>3. ASSUME NEW n \in Hosts, NEW d \in Daemons, Boot(n, d)
        PROVE  TurnInv' /\ [InOrder!Next]_Turn
    BY <1>1, <2>3, BootProceeds
  <2>4. CASE Next
    BY <1>2, <2>1, <2>2, <2>3, <2>4 DEF Next
  <2> QED
    BY <1>2, <2>4
<1> QED
  BY <1>2, <1>3

\* The rolling upgrade implements Turns as long as the clock ends no wait too
\* early, for any number of hosts and daemons, and whatever fails, goes down,
\* is hung or is run again: the _done keys and the order of the hosts give
\* every turn to one host at a time.
THEOREM RollsInTurn == Spec /\ Patience => TurnsAreTaken
<1> QED
  BY InitTurn, NextTurn, PTL DEF Spec, Patience, TurnsAreTaken, InOrder!Spec, Turn

\* In lock_and_roll, and not waiting there for an OSD that stays down.
Rolling(n) == pc[n] \in {"lock", "roll"} /\ ~Stuck(n)

\* Said of the hooks, without Turns: of two hosts that are upgraded at the same
\* time the one first in the list has failed before, and its hook is run again
\* (roll_osd_cluster then waits for the hosts before it only, so that those
\* after it, which went on, may be at work).
THEOREM OneHostAtATime ==
  Spec /\ Patience =>
    [](\A m, n \in Hosts : m < n /\ Rolling(m) /\ Rolling(n) => attempts[m] > 1)
<1> DEFINE OnlyAgain ==
      \A m, n \in Hosts : m < n /\ Rolling(m) /\ Rolling(n) => attempts[m] > 1
<1>1. TurnInv => OnlyAgain
  <2> SUFFICES ASSUME TurnInv, NEW m \in Hosts, NEW n \in Hosts,
                      m < n, Rolling(m), Rolling(n)
               PROVE  attempts[m] > 1
    OBVIOUS
  <2>1. Phase(m) = "over"
    BY DEF TurnInv, HadTurns, Rolling
  <2>2. attempts[m] # 1
    BY <2>1 DEF Phase, Rolling, Waiting
  <2>3. attempts[m] # 0 /\ attempts[m] \in Nat
    BY DEF TurnInv, UpgradeInv, Types, Rolling
  <2> QED
    BY <2>2, <2>3
<1> QED
  BY <1>1, InitTurn, NextTurn, PTL DEF Spec, Patience
=============================================================================
