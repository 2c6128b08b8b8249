--------------------------- MODULE UnitHooksProofs ---------------------------
(***************************************************************************)
(* Proofs about UnitHooks, for any sources, clusters and bounds: the types, *)
(* that what a successful hook recorded as configured is installed, and    *)
(* that files and status are of now when nothing is left to run.           *)
(***************************************************************************)
EXTENDS UnitHooks, SequenceTheorems, TLAPS

-----------------------------------------------------------------------------
(* Plans: the steps a hook has left.                                       *)

Has(t, s) == \E i \in 1 .. Len(t) : t[i] = s

\* Every hook takes its steps in this order.
Rank(s) ==
  CASE s = "fetch" -> 1 [] s = "compare" -> 2 [] s = "add-keyring" -> 3
    [] s = "add-source" -> 4 [] s = "apt-update" -> 5 [] s = "apt-install" -> 6
    [] s = "ceph.conf" -> 7 [] s = "admin-keyring" -> 8 [] s = "mon-keyring" -> 9
    [] s = "paused" -> 10 [] s = "upgrading" -> 11 [] s = "save" -> 12
    [] OTHER -> 13

InOrder(t) == \A i, j \in 1 .. Len(t) : i < j => Rank(t[i]) < Rank(t[j])

Packaging == {"add-keyring", "add-source", "apt-update", "apt-install"}

\* Of the hook that runs, and the steps it has left.
Plan(h, t) ==
  /\ t \in Seq(Steps)
  /\ InOrder(t)
  /\ Has(t, "assess") \/ Has(t, "compare")
  /\ h = "update-status" => \A s : Has(t, s) => s = "assess"
  /\ Has(t, "compare") => h = "config-changed"
  /\ (\E s \in Packaging : Has(t, s)) => h \in {"install", "config-changed"}
  /\ (\E s \in Files : Has(t, s)) => h = "config-changed"
  /\ (\E s \in {"paused", "upgrading"} : Has(t, s)) => h \in Series

\* A plan goes on with its tail.
LEMMA TailOfPlan ==
  ASSUME NEW h, NEW t, Plan(h, t), NEW s, t # <<>>, Head(t) = s
  PROVE  /\ Has(t, s)
         /\ \A r : Has(Tail(t), r) => Has(t, r) /\ Rank(s) < Rank(r)
         /\ \A r : Has(t, r) /\ r # s => Has(Tail(t), r)
         /\ s \notin {"assess", "compare"} => Plan(h, Tail(t)) /\ Tail(t) # <<>>
<1> DEFINE u == Tail(t)
<1>1. t \in Seq(Steps) /\ Len(t) > 0 /\ t[1] = s
  BY DEF Plan
<1>2. /\ u \in Seq(Steps)
      /\ Len(u) = Len(t) - 1
      /\ \A i \in 1 .. Len(u) : u[i] = t[i + 1] /\ i + 1 \in 1 .. Len(t)
      /\ \A i \in 1 .. Len(t) : i # 1 => i - 1 \in 1 .. Len(u) /\ u[i - 1] = t[i]
  BY <1>1
<1> HIDE DEF u
<1>3. Has(t, s)
  BY <1>1 DEF Has
<1>4. ASSUME NEW r, Has(u, r) PROVE Has(t, r) /\ Rank(s) < Rank(r)
  <2>1. PICK i \in 1 .. Len(u) : u[i] = r
    BY <1>4 DEF Has
  <2>2. i + 1 \in 1 .. Len(t) /\ t[i + 1] = r /\ 1 \in 1 .. Len(t) /\ 1 < i + 1
    BY <2>1, <1>1, <1>2
  <2> QED
    BY <2>2, <1>1 DEF Has, Plan, InOrder
<1>5. ASSUME NEW r, Has(t, r), r # s PROVE Has(u, r)
  <2>1. PICK i \in 1 .. Len(t) : t[i] = r
    BY <1>5 DEF Has
  <2>2. i # 1
    BY <2>1, <1>1, <1>5
  <2> QED
    BY <2>1, <2>2, <1>2 DEF Has
<1>6. ASSUME s \notin {"assess", "compare"} PROVE Plan(h, u) /\ u # <<>>
  <2>1. InOrder(u)
    <3> SUFFICES ASSUME NEW i \in 1 .. Len(u), NEW j \in 1 .. Len(u), i < j
                 PROVE  Rank(u[i]) < Rank(u[j])
      BY DEF InOrder
    <3>1. i + 1 \in 1 .. Len(t) /\ j + 1 \in 1 .. Len(t) /\ i + 1 < j + 1
      BY <1>2
    <3> QED
      BY <3>1, <1>2 DEF Plan, InOrder
  <2>2. Has(u, "assess") \/ Has(u, "compare")
    BY <1>5, <1>6 DEF Plan
  <2>3. h = "update-status" => \A r : Has(u, r) => r = "assess"
    BY <1>4 DEF Plan
  <2>4. /\ Has(u, "compare") => h = "config-changed"
        /\ (\E r \in Packaging : Has(u, r)) => h \in {"install", "config-changed"}
    BY <1>4 DEF Plan
  <2>5. /\ (\E r \in Files : Has(u, r)) => h = "config-changed"
        /\ (\E r \in {"paused", "upgrading"} : Has(u, r)) => h \in Series
    BY <1>4 DEF Plan
  <2>6. u # <<>>
    BY <2>2 DEF Has
  <2> QED
    BY <1>2, <2>1, <2>2, <2>3, <2>4, <2>5, <2>6 DEF Plan
<1> QED
  BY <1>3, <1>4, <1>5, <1>6 DEF u

\* These steps, in order.
Piece(t, S) == t \in Seq(Steps) /\ InOrder(t) /\ \A s : Has(t, s) <=> s \in S

LEMMA Joined ==
  ASSUME NEW t, NEW S, NEW u, NEW U, Piece(t, S), Piece(u, U),
         \A r \in S, s \in U : Rank(r) < Rank(s)
  PROVE  Piece(t \o u, S \union U)
<1> DEFINE v == t \o u
<1>1. /\ v \in Seq(Steps)
      /\ Len(v) = Len(t) + Len(u)
      /\ Len(t) \in Nat /\ Len(u) \in Nat
      /\ \A i \in 1 .. Len(v) : v[i] = IF i <= Len(t) THEN t[i] ELSE u[i - Len(t)]
  BY ConcatProperties DEF Piece
<1> HIDE DEF v
<1>2. ASSUME NEW i \in 1 .. Len(t) PROVE i \in 1 .. Len(v) /\ v[i] = t[i] /\ t[i] \in S
  BY <1>1 DEF Piece, Has
<1>3. ASSUME NEW i \in 1 .. Len(u)
      PROVE  /\ i + Len(t) \in 1 .. Len(v)
             /\ v[i + Len(t)] = u[i] /\ u[i] \in U
  <2>1. i + Len(t) \in 1 .. Len(v) /\ ~(i + Len(t) <= Len(t)) /\ (i + Len(t)) - Len(t) = i
    BY <1>1
  <2> QED
    BY <2>1, <1>1 DEF Piece, Has
<1>4. ASSUME NEW i \in 1 .. Len(v), ~(i <= Len(t))
      PROVE  i - Len(t) \in 1 .. Len(u) /\ v[i] = u[i - Len(t)] /\ v[i] \in U
  BY <1>1, <1>4 DEF Piece, Has
<1>5. ASSUME NEW i \in 1 .. Len(v), i <= Len(t)
      PROVE  i \in 1 .. Len(t) /\ v[i] = t[i] /\ v[i] \in S
  BY <1>1, <1>5 DEF Piece, Has
<1>6. InOrder(v)
  <2> SUFFICES ASSUME NEW i \in 1 .. Len(v), NEW j \in 1 .. Len(v), i < j
               PROVE  Rank(v[i]) < Rank(v[j])
    BY DEF InOrder
  <2>1. CASE j <= Len(t)
    <3>1. i <= Len(t)
      BY <2>1, <1>1
    <3> QED
      BY <2>1, <3>1, <1>5 DEF Piece, InOrder
  <2>2. CASE i <= Len(t) /\ ~(j <= Len(t))
    BY <2>2, <1>4, <1>5
  <2>3. CASE ~(i <= Len(t))
    <3>1. ~(j <= Len(t)) /\ i - Len(t) < j - Len(t)
      BY <2>3, <1>1
    <3> QED
      BY <2>3, <3>1, <1>4 DEF Piece, InOrder
  <2> QED
    BY <2>1, <2>2, <2>3
<1>7. ASSUME NEW s PROVE Has(v, s) <=> s \in S \union U
  <2>1. Has(v, s) => s \in S \union U
    BY <1>4, <1>5 DEF Has
  <2>2. ASSUME s \in S PROVE Has(v, s)
    <3>1. PICK i \in 1 .. Len(t) : t[i] = s
      BY <2>2 DEF Piece, Has
    <3> QED
      BY <3>1, <1>2 DEF Has
  <2>3. ASSUME s \in U PROVE Has(v, s)
    <3>1. PICK i \in 1 .. Len(u) : u[i] = s
      BY <2>3 DEF Piece, Has
    <3> QED
      BY <3>1, <1>3 DEF Has
  <2> QED
    BY <2>1, <2>2, <2>3
<1> QED
  BY <1>1, <1>6, <1>7 DEF Piece, v

LEMMA Pieces ==
  /\ Piece(PackageInstall, Packaging)
  /\ Piece(EmitCephconf, Files)
  /\ Piece(Success, {"save", "assess"})
  /\ Piece(<<"fetch">>, {"fetch"})
  /\ Piece(<<"fetch", "compare">>, {"fetch", "compare"})
  /\ Piece(<<"assess">>, {"assess"})
  /\ Piece(<<"fetch", "paused", "upgrading">>, {"fetch", "paused", "upgrading"})
  /\ Piece(<<>>, {})
<1> USE DEF Piece, InOrder, Has, Rank, Steps, Files, Packaging
<1>1. Piece(PackageInstall, Packaging)
  BY DEF PackageInstall
<1>2. Piece(EmitCephconf, Files)
  BY DEF EmitCephconf
<1>3. Piece(Success, {"save", "assess"})
  BY DEF Success
<1>4. Piece(<<"fetch">>, {"fetch"})
  OBVIOUS
<1>5. Piece(<<"fetch", "compare">>, {"fetch", "compare"})
  OBVIOUS
<1>6. Piece(<<"assess">>, {"assess"})
  OBVIOUS
<1>7. Piece(<<"fetch", "paused", "upgrading">>, {"fetch", "paused", "upgrading"})
  OBVIOUS
<1>8. Piece(<<>>, {})
  OBVIOUS
<1> QED
  BY <1>1, <1>2, <1>3, <1>4, <1>5, <1>6, <1>7, <1>8

LEMMA PlanIsNotEmpty ==
  ASSUME NEW h, NEW t, Plan(h, t)
  PROVE  t # <<>>
BY DEF Plan, Has

\* A hook begins with one of these.
LEMMA BodyIsPlan ==
  ASSUME NEW h \in Hooks
  PROVE  /\ Plan(h, Body(h))
         /\ h # "update-status" => Has(Body(h), "fetch")
         /\ h = "config-changed" => Has(Body(h), "compare")
         /\ h = "install" => \A s \in Packaging \union {"save"} : Has(Body(h), s)
         /\ h \in Series => Has(Body(h), "upgrading")
<1> USE DEF Packaging, Series, Files
<1>1. CASE h = "install"
  <2>1. Piece(PackageInstall \o Success, Packaging \union {"save", "assess"})
    BY Pieces, Joined DEF Rank
  <2>2. Piece(<<"fetch">> \o (PackageInstall \o Success),
              {"fetch"} \union (Packaging \union {"save", "assess"}))
    BY <2>1, Pieces, Joined DEF Rank
  <2>3. Body(h) = <<"fetch">> \o (PackageInstall \o Success)
    BY <1>1 DEF Body
  <2>4. Piece(Body(h), {"fetch"} \union (Packaging \union {"save", "assess"}))
    BY <2>2, <2>3, Zenon
  <2> QED
    BY <1>1, <2>4 DEF Piece, Plan
<1>2. CASE h = "config-changed"
  <2>1. Body(h) = <<"fetch", "compare">>
    BY <1>2 DEF Body
  <2>2. Piece(Body(h), {"fetch", "compare"})
    BY <2>1, Pieces, Zenon
  <2> QED
    BY <1>2, <2>2 DEF Piece, Plan
<1>3. CASE h = "relation"
  <2>1. Piece(<<"fetch">> \o Success, {"fetch"} \union {"save", "assess"})
    BY Pieces, Joined DEF Rank
  <2>2. Body(h) = <<"fetch">> \o Success
    BY <1>3 DEF Body
  <2>3. Piece(Body(h), {"fetch"} \union {"save", "assess"})
    BY <2>1, <2>2, Zenon
  <2> QED
    BY <1>3, <2>3 DEF Piece, Plan
<1>4. CASE h = "update-status"
  <2>1. Body(h) = <<"assess">>
    BY <1>4 DEF Body
  <2>2. Piece(Body(h), {"assess"})
    BY <2>1, Pieces, Zenon
  <2> QED
    BY <1>4, <2>2 DEF Piece, Plan
<1>5. CASE h \in Series
  <2>1. Piece(<<"fetch", "paused", "upgrading">> \o Success,
              {"fetch", "paused", "upgrading"} \union {"save", "assess"})
    BY Pieces, Joined DEF Rank
  <2>2. Body(h) = <<"fetch", "paused", "upgrading">> \o Success
    BY <1>5 DEF Body
  <2>3. Piece(Body(h), {"fetch", "paused", "upgrading"} \union {"save", "assess"})
    BY <2>1, <2>2, Zenon
  <2> QED
    BY <1>5, <2>3 DEF Piece, Plan
<1> QED
  BY <1>1, <1>2, <1>3, <1>4, <1>5 DEF Hooks

\* config-changed goes on with one of these.
LEMMA AfterCompareIsPlan ==
  /\ Plan("config-changed", AfterCompare)
  /\ \A s \in {"fetch", "compare"} : ~Has(AfterCompare, s)
  /\ \A s \in Files \union {"save"} : Has(AfterCompare, s)
  /\ SourceChanged => \A s \in Packaging : Has(AfterCompare, s)
  /\ ~SourceChanged => \A s \in Packaging : ~Has(AfterCompare, s)
<1> USE DEF Packaging, Files
<1>1. Piece(EmitCephconf \o Success, Files \union {"save", "assess"})
  BY Pieces, Joined DEF Rank
<1>2. CASE SourceChanged
  <2>1. Piece(PackageInstall \o (EmitCephconf \o Success),
              Packaging \union (Files \union {"save", "assess"}))
    BY <1>1, Pieces, Joined DEF Rank
  <2>2. AfterCompare = PackageInstall \o (EmitCephconf \o Success)
    BY <1>2 DEF AfterCompare
  <2>3. Piece(AfterCompare, Packaging \union (Files \union {"save", "assess"}))
    BY <2>1, <2>2, Zenon
  <2> QED
    BY <1>2, <2>3 DEF Piece, Plan
<1>3. CASE ~SourceChanged
  <2>1. Piece(<<>> \o (EmitCephconf \o Success),
              {} \union (Files \union {"save", "assess"}))
    BY <1>1, Pieces, Joined
  <2>2. AfterCompare = <<>> \o (EmitCephconf \o Success)
    BY <1>3 DEF AfterCompare
  <2>3. Piece(AfterCompare, {} \union (Files \union {"save", "assess"}))
    BY <2>1, <2>2, Zenon
  <2> QED
    BY <1>3, <2>3 DEF Piece, Plan
<1> QED
  BY <1>2, <1>3

-----------------------------------------------------------------------------
(* Types.                                                                  *)

\* The running hook has a plan, and fetches the configuration before any
\* other step; Juju will run no other hook before it has succeeded.
HookInv ==
  /\ hook # "none" =>
       /\ Plan(hook, todo)
       /\ seen \in Configs \/ Has(todo, "fetch") \/ hook = "update-status"
       /\ retry \in {"none", hook}
  /\ hook = "none" \/ Has(todo, "fetch") => seen = None

TypeInv == TypeOK /\ HookInv

LEMMA InitType == Init => TypeInv
<1> SUFFICES ASSUME Init PROVE TypeInv
  OBVIOUS
<1>1. HookInv
  BY DEF Init, HookInv
<1>2. \A m \in Nat : 0 \in 0 .. m
  OBVIOUS
<1>3. /\ tries \in 0 .. MaxRetries /\ changes \in 0 .. MaxChanges
      /\ events \in 0 .. MaxEvents /\ faults \in 0 .. MaxFaults
  BY <1>2, BoundsAssumption DEF Init
<1>4. todo \in Seq(Steps) /\ ((todo = <<>>) = (hook = "none"))
  BY DEF Init
<1> QED
  BY <1>1, <1>3, <1>4 DEF Init, TypeInv, TypeOK, Hooks

\* A hook that takes a step goes on, with the rest of its plan.
LEMMA GoesOn ==
  ASSUME TypeInv, NEW s, At(s), s \notin {"assess", "compare"}, Advance,
         UNCHANGED <<hook, retry>>
  PROVE  /\ todo' \in Seq(Steps) /\ todo' # <<>>
         /\ hook' \in Hooks /\ retry' \in {"none", hook'}
         /\ Plan(hook', todo')
         /\ tries' \in 0 .. MaxRetries
         /\ Has(todo, s) /\ ~Has(todo', s)
         /\ \A r : Has(todo', r) => Has(todo, r) /\ Rank(s) < Rank(r)
         /\ \A r : Has(todo, r) /\ r # s => Has(todo', r)
         /\ s # "fetch" => ~Has(todo', "fetch")
<1>1. todo # <<>> /\ Head(todo) = s /\ Plan(hook, todo) /\ hook # "none"
  BY DEF TypeInv, TypeOK, HookInv, At
<1>2. /\ Has(todo, s)
      /\ \A r : Has(Tail(todo), r) => Has(todo, r) /\ Rank(s) < Rank(r)
      /\ \A r : Has(todo, r) /\ r # s => Has(Tail(todo), r)
      /\ Plan(hook, Tail(todo)) /\ Tail(todo) # <<>>
  BY <1>1, TailOfPlan
<1>3. todo' = Tail(todo) /\ tries' = 0
  BY DEF Advance
<1>4. todo' \in Seq(Steps)
  BY <1>2, <1>3 DEF Plan
<1>5. ~Has(todo', s) /\ (s # "fetch" => ~Has(todo', "fetch"))
  BY <1>2, <1>3 DEF Rank
<1>6. hook' \in Hooks /\ retry' \in {"none", hook'}
  BY <1>1 DEF TypeInv, TypeOK, HookInv
<1>7. tries' \in 0 .. MaxRetries
  BY <1>3, BoundsAssumption
<1> QED
  BY <1>1, <1>2, <1>3, <1>4, <1>5, <1>6, <1>7

\* A step that is not the fetching has fetched before.
LEMMA HasSeen ==
  ASSUME TypeInv, NEW s, At(s), s \notin {"fetch", "assess"}
  PROVE  seen \in Configs
<1>1. todo # <<>> /\ Head(todo) = s /\ Plan(hook, todo) /\ hook # "none"
  BY DEF TypeInv, TypeOK, HookInv, At
<1>2. Has(todo, s) /\ \A r : Has(todo, r) /\ r # s => Rank(s) < Rank(r)
  BY <1>1, TailOfPlan
<1>3. ~Has(todo, "fetch")
  BY <1>2 DEF Rank
<1>4. hook # "update-status"
  BY <1>1, <1>2 DEF Plan
<1> QED
  BY <1>1, <1>3, <1>4 DEF TypeInv, HookInv

-----------------------------------------------------------------------------
\* Each step keeps the types.
LEMMA ConfigureType == TypeInv /\ Configure => TypeInv'
BY BoundsAssumption
   DEF TypeInv, TypeOK, HookInv, Configure, process, machine

LEMMA BeginType ==
  ASSUME TypeInv, NEW h \in Hooks, retry = "none" \/ retry = h, Begin(h),
         events' \in 0 .. MaxEvents
  PROVE  TypeInv'
<1>1. Plan(h, Body(h)) /\ (h # "update-status" => Has(Body(h), "fetch"))
  BY BodyIsPlan
<1>2. Body(h) # <<>> /\ Body(h) \in Seq(Steps) /\ h # "none"
  BY <1>1, PlanIsNotEmpty DEF Plan, Hooks, Series
<1>3. hook' = h /\ todo' = Body(h) /\ seen' = None /\ retry' = retry
  BY DEF Begin, TypeInv, HookInv
<1>4. HookInv'
  BY <1>1, <1>2, <1>3 DEF HookInv
<1>5. TypeOK'
  BY <1>2, <1>3 DEF Begin, TypeInv, TypeOK, machine
<1> QED
  BY <1>4, <1>5 DEF TypeInv

LEMMA RunDueType == TypeInv /\ RunDue => TypeInv'
<1> SUFFICES ASSUME TypeInv, RunDue PROVE TypeInv'
  OBVIOUS
<1>1. events' \in 0 .. MaxEvents
  BY DEF RunDue, TypeInv, TypeOK
<1>2. CASE retry # "none" /\ Begin(retry)
  BY <1>1, <1>2, BeginType DEF TypeInv, TypeOK
<1>3. CASE retry = "none" /\ due /\ Begin("config-changed")
  BY <1>1, <1>3, BeginType DEF Hooks
<1> QED
  BY <1>2, <1>3 DEF RunDue

LEMMA RunEventType == TypeInv /\ RunEvent => TypeInv'
<1> SUFFICES ASSUME TypeInv, RunEvent PROVE TypeInv'
  OBVIOUS
<1>1. events' \in 0 .. MaxEvents /\ retry = "none"
  BY BoundsAssumption DEF RunEvent, TypeInv, TypeOK
<1>2. PICK h \in Hooks : Begin(h)
  BY DEF RunEvent, Hooks, Series
<1> QED
  BY <1>1, <1>2, BeginType

LEMMA LockType == TypeInv /\ (TakeLock \/ ReleaseLock) => TypeInv'
<1> SUFFICES ASSUME TypeInv, TakeLock \/ ReleaseLock PROVE TypeInv'
  OBVIOUS
<1>1. faults' \in 0 .. MaxFaults /\ locked' \in BOOLEAN
  <2>1. CASE TakeLock
    BY <2>1, BoundsAssumption DEF TypeInv, TypeOK, TakeLock
  <2>2. CASE ReleaseLock
    BY <2>2 DEF TypeInv, TypeOK, ReleaseLock, counters
  <2> QED
    BY <2>1, <2>2
<1>2. UNCHANGED <<juju, process, machine, missed, changes, events>>
  BY DEF TakeLock, ReleaseLock, counters
<1>3. HookInv'
  BY <1>2 DEF TypeInv, HookInv, juju, process
<1> QED
  BY <1>1, <1>2, <1>3 DEF TypeInv, TypeOK, juju, process, machine

\* What the steps of a hook that goes on leave alone.
Still == UNCHANGED <<juju, hook, locked>>

LEMMA GoesOnType ==
  ASSUME TypeInv, NEW s, At(s), s \notin {"assess", "compare"}, Advance, Still,
         s = "fetch" => seen' \in Configs, s # "fetch" => seen' = seen
  PROVE  /\ HookInv'
         /\ todo' \in Seq(Steps) /\ ((todo' = <<>>) = (hook' = "none"))
         /\ seen' \in Configs \union {None} /\ tries' \in 0 .. MaxRetries
         /\ UNCHANGED <<config, due, retry, preparing, hook, locked>>
<1>1. UNCHANGED <<config, due, retry, preparing, hook, locked>>
  BY DEF Still, juju
<1>2. /\ todo' \in Seq(Steps) /\ todo' # <<>>
      /\ retry' \in {"none", hook'}
      /\ Plan(hook', todo')
      /\ tries' \in 0 .. MaxRetries
      /\ Has(todo, s) /\ ~Has(todo', s)
      /\ \A r : Has(todo', r) => Has(todo, r) /\ Rank(s) < Rank(r)
      /\ s # "fetch" => ~Has(todo', "fetch")
  BY <1>1, GoesOn
<1>3. hook # "none" /\ hook' # "none"
  BY <1>1 DEF At
<1>4. ~Has(todo', "fetch")
  BY <1>2
<1>5. seen' \in Configs
  BY HasSeen
<1> QED
  BY <1>1, <1>2, <1>3, <1>4, <1>5 DEF HookInv, TypeInv, TypeOK

LEMMA FetchType == TypeInv /\ Fetch => TypeInv'
<1> SUFFICES ASSUME TypeInv, Fetch PROVE TypeInv'
  OBVIOUS
<1>1. seen' \in Configs /\ Still /\ At("fetch") /\ Advance
  BY DEF TypeInv, TypeOK, Fetch, Still
<1>2. /\ HookInv'
      /\ todo' \in Seq(Steps) /\ ((todo' = <<>>) = (hook' = "none"))
      /\ seen' \in Configs \union {None} /\ tries' \in 0 .. MaxRetries
      /\ UNCHANGED <<config, due, retry, preparing, hook, locked>>
  BY <1>1, GoesOnType
<1>3. missed' \in BOOLEAN
  BY DEF Fetch, TypeInv, TypeOK
<1> QED
  BY <1>2, <1>3 DEF Fetch, TypeInv, TypeOK, machine, counters

LEMMA CompareType == TypeInv /\ Compare => TypeInv'
<1> SUFFICES ASSUME TypeInv, Compare PROVE TypeInv'
  OBVIOUS
<1>1. hook = "config-changed" /\ seen \in Configs
  <2>1. todo # <<>> /\ Head(todo) = "compare" /\ Plan(hook, todo)
    BY DEF TypeInv, TypeOK, HookInv, At, Compare
  <2>2. Has(todo, "compare")
    BY <2>1, TailOfPlan
  <2> QED
    BY <2>1, <2>2, HasSeen DEF Plan, Compare
<1>2. Plan(hook', todo') /\ ~Has(todo', "fetch")
  BY <1>1, AfterCompareIsPlan DEF Compare
<1>3. todo' # <<>> /\ todo' \in Seq(Steps)
  BY <1>2, PlanIsNotEmpty DEF Plan
<1>4. HookInv'
  BY <1>1, <1>2 DEF Compare, HookInv, TypeInv, juju
<1> QED
  BY <1>1, <1>3, <1>4 DEF Compare, TypeInv, TypeOK, juju, machine, counters

\* Steps that change one part of the machine, or nothing.
LEMMA AddKeyringType == TypeInv /\ AddKeyring => TypeInv'
<1> SUFFICES ASSUME TypeInv, AddKeyring PROVE TypeInv'
  OBVIOUS
<1>1. /\ HookInv'
      /\ todo' \in Seq(Steps) /\ ((todo' = <<>>) = (hook' = "none"))
      /\ seen' \in Configs \union {None} /\ tries' \in 0 .. MaxRetries
      /\ UNCHANGED <<config, due, retry, preparing, hook, locked>>
  BY GoesOnType DEF AddKeyring, Still
<1>2. keyring' \in BOOLEAN
  BY DEF AddKeyring, TypeInv, TypeOK, NeedsKeyring
<1> QED
  BY <1>1, <1>2 DEF AddKeyring, TypeInv, TypeOK, counters

LEMMA AddSourceType == TypeInv /\ AddSource => TypeInv'
<1> SUFFICES ASSUME TypeInv, AddSource PROVE TypeInv'
  OBVIOUS
<1>1. /\ HookInv'
      /\ todo' \in Seq(Steps) /\ ((todo' = <<>>) = (hook' = "none"))
      /\ seen' \in Configs \union {None} /\ tries' \in 0 .. MaxRetries
      /\ UNCHANGED <<config, due, retry, preparing, hook, locked>>
  BY GoesOnType DEF AddSource, Still
<1>2. lists' \subseteq Releases
  BY DEF AddSource, TypeInv, TypeOK, Enabled, Releases
<1> QED
  BY <1>1, <1>2 DEF AddSource, TypeInv, TypeOK, counters

LEMMA AptUpdateType == TypeInv /\ AptUpdate => TypeInv'
<1> SUFFICES ASSUME TypeInv, AptUpdate PROVE TypeInv'
  OBVIOUS
<1>1. /\ HookInv'
      /\ todo' \in Seq(Steps) /\ ((todo' = <<>>) = (hook' = "none"))
      /\ seen' \in Configs \union {None} /\ tries' \in 0 .. MaxRetries
      /\ UNCHANGED <<config, due, retry, preparing, hook, locked>>
  BY GoesOnType DEF AptUpdate, Still
<1> QED
  BY <1>1 DEF AptUpdate, TypeInv, TypeOK, counters

LEMMA AptInstallType == TypeInv /\ AptInstall => TypeInv'
<1> SUFFICES ASSUME TypeInv, AptInstall PROVE TypeInv'
  OBVIOUS
<1>1. /\ HookInv'
      /\ todo' \in Seq(Steps) /\ ((todo' = <<>>) = (hook' = "none"))
      /\ seen' \in Configs \union {None} /\ tries' \in 0 .. MaxRetries
      /\ UNCHANGED <<config, due, retry, preparing, hook, locked>>
  BY GoesOnType DEF AptInstall, Still
<1> QED
  BY <1>1 DEF AptInstall, TypeInv, TypeOK, counters

LEMMA RenderType == ASSUME NEW f \in Files, TypeInv, Render(f) PROVE TypeInv'
<1>1. /\ HookInv'
      /\ todo' \in Seq(Steps) /\ ((todo' = <<>>) = (hook' = "none"))
      /\ seen' \in Configs \union {None} /\ tries' \in 0 .. MaxRetries
      /\ UNCHANGED <<config, due, retry, preparing, hook, locked>>
  BY GoesOnType DEF Render, Still, Files
<1>2. seen.cluster \in Clusters
  BY HasSeen DEF Render, Files, Configs
<1>3. files' \in [Files -> Clusters \union {None}]
  BY <1>2 DEF Render, TypeInv, TypeOK
<1> QED
  BY <1>1, <1>3 DEF Render, TypeInv, TypeOK, counters

LEMMA SetFlagType ==
  ASSUME NEW f \in {"paused", "upgrading"}, TypeInv, SetFlag(f) PROVE TypeInv'
<1>1. /\ HookInv'
      /\ todo' \in Seq(Steps) /\ ((todo' = <<>>) = (hook' = "none"))
      /\ seen' \in Configs \union {None} /\ tries' \in 0 .. MaxRetries
      /\ UNCHANGED <<config, due, retry, preparing, hook, locked>>
  BY GoesOnType DEF SetFlag, Still
<1>2. flags' \in [{"paused", "upgrading"} -> BOOLEAN]
  BY DEF SetFlag, TypeInv, TypeOK
<1> QED
  BY <1>1, <1>2 DEF SetFlag, TypeInv, TypeOK, counters

LEMMA SaveType == TypeInv /\ Save => TypeInv'
<1> SUFFICES ASSUME TypeInv, Save PROVE TypeInv'
  OBVIOUS
<1>1. /\ HookInv'
      /\ todo' \in Seq(Steps) /\ ((todo' = <<>>) = (hook' = "none"))
      /\ seen' \in Configs \union {None} /\ tries' \in 0 .. MaxRetries
      /\ UNCHANGED <<config, due, retry, preparing, hook, locked>>
  BY GoesOnType DEF Save, Still
<1>2. missed' \in BOOLEAN
  BY DEF Save, TypeInv, TypeOK
<1>3. saved' \in Configs \union {None}
  BY DEF Save, TypeInv, TypeOK
<1> QED
  BY <1>1, <1>2, <1>3 DEF Save, TypeInv, TypeOK, counters

\* A process that ends leaves no plan behind.
LEMMA EndsType ==
  ASSUME TypeInv, Ends
  PROVE  /\ HookInv' /\ hook' \in Hooks \union {"none"}
         /\ todo' \in Seq(Steps) /\ ((todo' = <<>>) = (hook' = "none"))
         /\ seen' \in Configs \union {None} /\ tries' \in 0 .. MaxRetries
<1>1. <<>> \in Seq(Steps)
  OBVIOUS
<1>2. 0 \in 0 .. MaxRetries
  BY BoundsAssumption
<1> QED
  BY <1>1, <1>2 DEF Ends, HookInv

LEMMA RaisesType ==
  ASSUME TypeInv, Raises
  PROVE  /\ HookInv' /\ hook' \in Hooks \union {"none"}
         /\ todo' \in Seq(Steps) /\ ((todo' = <<>>) = (hook' = "none"))
         /\ seen' \in Configs \union {None} /\ tries' \in 0 .. MaxRetries
         /\ retry' \in Hooks \union {"none"}
         /\ UNCHANGED <<config, due, preparing>>
BY EndsType DEF Raises, TypeInv, TypeOK

LEMMA RejectSourceType == TypeInv /\ RejectSource => TypeInv'
BY RaisesType DEF RejectSource, TypeInv, TypeOK, machine, counters

LEMMA AptFailsType == ASSUME NEW s, TypeInv, AptFails(s) PROVE TypeInv'
<1>1. faults' \in 0 .. MaxFaults
  <2>1. CASE locked /\ UNCHANGED faults
    BY <2>1 DEF TypeInv, TypeOK
  <2>2. CASE faults < MaxFaults /\ faults' = faults + 1
    BY <2>2, BoundsAssumption DEF TypeInv, TypeOK
  <2> QED
    BY <2>1, <2>2 DEF AptFails
<1>2. UNCHANGED <<machine, locked, missed, changes, events>>
  BY DEF AptFails
<1>3. CASE Raises
  BY <1>1, <1>2, <1>3, RaisesType DEF TypeInv, TypeOK, machine
<1>4. CASE ~GivesUp /\ tries' = tries + 1 /\ UNCHANGED <<juju, hook, todo, seen>>
  <2>1. tries' \in 0 .. MaxRetries
    BY <1>4, BoundsAssumption DEF GivesUp, TypeInv, TypeOK
  <2>2. HookInv'
    BY <1>4 DEF TypeInv, HookInv, juju
  <2> QED
    BY <1>1, <1>2, <1>4, <2>1, <2>2 DEF TypeInv, TypeOK, juju, machine
<1> QED
  BY <1>3, <1>4 DEF AptFails

LEMMA AssessStatusType == TypeInv /\ AssessStatus => TypeInv'
<1> SUFFICES ASSUME TypeInv, AssessStatus PROVE TypeInv'
  OBVIOUS
<1>1. /\ HookInv' /\ hook' \in Hooks \union {"none"}
      /\ todo' \in Seq(Steps) /\ ((todo' = <<>>) = (hook' = "none"))
      /\ seen' \in Configs \union {None} /\ tries' \in 0 .. MaxRetries
  BY EndsType DEF AssessStatus
<1>2. preparing' \in BOOLEAN /\ status' \in {"unknown", "active", "blocked", "ready-for-upgrade"}
  BY DEF AssessStatus, Assessed, TypeInv, TypeOK
<1>3. overlooked' \in BOOLEAN
  BY DEF AssessStatus, TypeInv, TypeOK
<1>4. faults' \in 0 .. MaxFaults
  <2>1. CASE overlooked'
    BY <2>1, BoundsAssumption DEF AssessStatus, TypeInv, TypeOK
  <2>2. CASE ~overlooked'
    BY <2>2 DEF AssessStatus, TypeInv, TypeOK
  <2> QED
    BY <2>1, <2>2
<1> QED
  BY <1>1, <1>2, <1>3, <1>4 DEF AssessStatus, TypeInv, TypeOK

LEMMA InterruptType == TypeInv /\ Interrupt => TypeInv'
<1> SUFFICES ASSUME TypeInv, Interrupt PROVE TypeInv'
  OBVIOUS
<1>1. faults' \in 0 .. MaxFaults
  BY BoundsAssumption DEF Interrupt, TypeInv, TypeOK
<1>2. files' \in [Files -> Clusters \union {None}] /\ saved' \in Configs \union {None}
  BY DEF Interrupt, TypeInv, TypeOK
<1>3. Raises
  BY DEF Interrupt
<1> QED
  BY <1>1, <1>2, <1>3, RaisesType DEF Interrupt, TypeInv, TypeOK

LEMMA NextType == TypeInv /\ [Next]_vars => TypeInv'
<1> SUFFICES ASSUME TypeInv, [Next]_vars PROVE TypeInv'
  OBVIOUS
<1>1. CASE Configure BY <1>1, ConfigureType
<1>2. CASE RunDue BY <1>2, RunDueType
<1>3. CASE RunEvent BY <1>3, RunEventType
<1>4. CASE TakeLock \/ ReleaseLock BY <1>4, LockType
<1>5. CASE Fetch BY <1>5, FetchType
<1>6. CASE Compare BY <1>6, CompareType
<1>7. CASE AddKeyring BY <1>7, AddKeyringType
<1>8. CASE AddSource BY <1>8, AddSourceType
<1>9. CASE RejectSource BY <1>9, RejectSourceType
<1>10. CASE AptUpdate BY <1>10, AptUpdateType
<1>11. CASE AptInstall BY <1>11, AptInstallType
<1>12. CASE \E s \in Commands : AptFails(s)
  BY <1>12, AptFailsType
<1>13. CASE \E f \in Files : Render(f) BY <1>13, RenderType
<1>14. CASE \E f \in {"paused", "upgrading"} : SetFlag(f) BY <1>14, SetFlagType
<1>15. CASE Save BY <1>15, SaveType
<1>16. CASE AssessStatus BY <1>16, AssessStatusType
<1>17. CASE Interrupt BY <1>17, InterruptType
<1>18. CASE UNCHANGED vars
  BY <1>18 DEF TypeInv, TypeOK, HookInv, vars, juju, process, machine, counters
<1> QED
  BY <1>1, <1>2, <1>3, <1>4, <1>5, <1>6, <1>7, <1>8, <1>9, <1>10, <1>11, <1>12,
     <1>13, <1>14, <1>15, <1>16, <1>17, <1>18 DEF Next, Step

\* The state of a unit has the types it is declared with, whatever hooks fail.
THEOREM TypeCorrect == Spec => []TypeOK
<1>1. TypeInv => TypeOK
  BY DEF TypeInv
<1> QED
  BY InitType, NextType, <1>1, PTL DEF Spec

-----------------------------------------------------------------------------
(* What a successful hook recorded is installed.  A hook that packages has *)
(* to be followed step by step: the source it fetched is enabled, then     *)
(* known to apt, then installed, before it is saved.                       *)

Packagers == {"install", "config-changed"}

\* It knows whether it has packages to install.
Compared == hook \in Packagers /\ seen \in Configs /\ ~Has(todo, "compare")
FromList == seen.source \in Pockets \union Archives

\* The hook that packages has all of it before it when it begins.
PackagesAll ==
  hook \in Packagers /\ Has(todo, "fetch") =>
    \/ Has(todo, "compare")
    \/ \A s \in Packaging \union {"save"} : Has(todo, s)

\* A hook that installs nothing fetched a source that is installed already.
OthersFollow ==
  hook \notin Packagers /\ seen \in Configs => missed \/ Follows(seen)

\* What each of the packaging steps has done when it is behind.
SourceAdded ==
  Compared /\ Has(todo, "apt-install") /\ ~Has(todo, "add-source") /\ FromList =>
    seen.source \in lists
IndexUpdated ==
  Compared /\ Has(todo, "apt-install") /\ ~Has(todo, "apt-update") /\ FromList =>
    seen.source \in index
PackagesInstalled ==
  Compared /\ ~Has(todo, "apt-install") /\ Has(todo, "save") /\ SourceChanged =>
    Follows(seen)
ConfigSaved == Compared /\ ~Has(todo, "save") => saved = seen

\* Between a change and the next config-changed, due is set; before and after,
\* the installed packages are those of the configured source.
ConfigSeen ==
  hook = "config-changed" /\ ~due /\ seen \in Configs => seen = config
Settled ==
  ~due /\ hook # "config-changed" /\ retry # "config-changed" =>
    missed \/ Follows(config)
InstallsFirst == hook = "install" \/ retry = "install" => due

WorkInv ==
  /\ SavedIsInstalled /\ PackagesAll /\ OthersFollow
  /\ SourceAdded /\ IndexUpdated /\ PackagesInstalled /\ ConfigSaved
  /\ ConfigSeen /\ Settled /\ InstallsFirst

LEMMA InitWork == Init => WorkInv
BY NoneAssumption
   DEF Init, WorkInv, SavedIsInstalled, PackagesAll, OthersFollow, SourceAdded, IndexUpdated,
       PackagesInstalled, ConfigSaved, Compared, ConfigSeen, Settled, InstallsFirst, Packagers,
       Configs

LEMMA NoneIsNoConfig == None \notin Configs
BY NoneAssumption DEF Configs

\* Only the step it takes is no longer left to a hook that goes on.
LEMMA WhatIsLeft ==
  ASSUME TypeInv, NEW s, At(s), s \notin {"assess", "compare"}, Advance, UNCHANGED <<juju, hook>>
  PROVE  /\ ~Has(todo', s) /\ Has(todo, s) /\ ~Has(todo', "fetch")
         /\ \A r : r # s => (Has(todo', r) <=> Has(todo, r))
         /\ \A r : Has(todo', r) => Rank(s) < Rank(r)
BY GoesOn DEF juju

\* A step that leaves the packages and their record alone.
LEMMA CarriesOn ==
  ASSUME TypeInv, WorkInv, NEW s, At(s), Advance,
         s \notin {"fetch", "compare", "assess", "add-source", "apt-update",
                   "apt-install", "save"},
         UNCHANGED <<juju, hook, seen, saved, lists, index, installed, missed>>
  PROVE  WorkInv'
<1>1. /\ ~Has(todo', "fetch")
      /\ \A r : r # s => (Has(todo', r) <=> Has(todo, r))
  BY WhatIsLeft
<1>2. /\ Has(todo', "compare") <=> Has(todo, "compare")
      /\ Has(todo', "add-source") <=> Has(todo, "add-source")
      /\ Has(todo', "apt-update") <=> Has(todo, "apt-update")
      /\ Has(todo', "apt-install") <=> Has(todo, "apt-install")
      /\ Has(todo', "save") <=> Has(todo, "save")
  BY <1>1
<1> QED
  BY <1>1, <1>2
     DEF WorkInv, SavedIsInstalled, PackagesAll, OthersFollow, SourceAdded, IndexUpdated,
         PackagesInstalled, ConfigSaved, Compared, ConfigSeen, Settled, InstallsFirst, FromList,
         SourceChanged, Follows, juju

\* A hook that begins has fetched nothing.
LEMMA BeginWork ==
  ASSUME TypeInv, WorkInv, NEW h \in Hooks, retry = "none" \/ retry = h, Begin(h),
         h = "install" => due
  PROVE  WorkInv'
<1>1. seen' = None /\ seen = None
  BY DEF Begin, TypeInv, HookInv
<1>2. PackagesAll'
  BY BodyIsPlan DEF PackagesAll, Packagers, Begin
<1>3. InstallsFirst' /\ ConfigSeen' /\ SavedIsInstalled'
  BY <1>1, NoneIsNoConfig
     DEF InstallsFirst, ConfigSeen, SavedIsInstalled, WorkInv, Begin, machine, Follows
<1>4. Settled'
  BY DEF Settled, WorkInv, Begin, machine, Follows
<1> QED
  BY <1>1, <1>2, <1>3, <1>4, NoneIsNoConfig
     DEF WorkInv, OthersFollow, SourceAdded, IndexUpdated, PackagesInstalled, ConfigSaved,
         Compared

\* A process that ends has fetched nothing either, and what it was about to
\* save is forgotten.
LEMMA RaisesWork ==
  ASSUME TypeInv, WorkInv, hook # "none", Raises, UNCHANGED <<installed, missed>>,
         saved' \in {None, saved}
  PROVE  WorkInv'
<1>1. /\ seen' = None /\ hook' = "none" /\ retry' = hook
      /\ UNCHANGED <<config, due>>
  BY DEF Raises, Ends
<1>2. SavedIsInstalled'
  BY DEF SavedIsInstalled, WorkInv, Follows
<1>3. Settled'
  \* the hook that failed is not config-changed, and nothing else was due
  BY <1>1 DEF Settled, WorkInv, Follows, TypeInv, HookInv
<1>4. InstallsFirst'
  BY <1>1 DEF InstallsFirst, WorkInv
<1> QED
  BY <1>1, <1>2, <1>3, <1>4, NoneIsNoConfig
     DEF WorkInv, PackagesAll, Packagers, OthersFollow, SourceAdded, IndexUpdated,
         PackagesInstalled, ConfigSaved, Compared, ConfigSeen

LEMMA ConfigureWork == TypeInv /\ WorkInv /\ Configure => WorkInv'
BY DEF WorkInv, SavedIsInstalled, PackagesAll, OthersFollow, SourceAdded, IndexUpdated,
       PackagesInstalled, ConfigSaved, Compared, ConfigSeen, Settled, InstallsFirst, FromList,
       SourceChanged, Follows, Configure, process, machine

LEMMA StutterWork == WorkInv /\ UNCHANGED <<juju, process, machine, missed>> => WorkInv'
BY DEF WorkInv, SavedIsInstalled, PackagesAll, OthersFollow, SourceAdded, IndexUpdated,
       PackagesInstalled, ConfigSaved, Compared, ConfigSeen, Settled, InstallsFirst, FromList,
       SourceChanged, Follows, juju, process, machine

\* A relation hook either meets a source that is installed, or is the first to
\* meet a new one.
LEMMA FetchWork == TypeInv /\ WorkInv /\ Fetch => WorkInv'
<1> SUFFICES ASSUME TypeInv, WorkInv, Fetch PROVE WorkInv'
  OBVIOUS
<1>1. /\ hook' = hook /\ seen' = config /\ config \in Configs
      /\ UNCHANGED <<config, due, retry, preparing, saved, lists, index, installed>>
  BY DEF Fetch, juju, machine, TypeInv, TypeOK
<1>2. /\ Has(todo, "fetch") /\ ~Has(todo', "fetch")
      /\ \A r : r # "fetch" => (Has(todo', r) <=> Has(todo, r))
  BY <1>1, WhatIsLeft DEF Fetch
<1>3. missed => missed'
  BY DEF Fetch
<1>4. ASSUME hook \in Packagers
      PROVE  \/ Has(todo', "compare")
             \/ \A s \in Packaging \union {"save"} : Has(todo', s)
  <2>1. "compare" # "fetch" /\ \A s \in Packaging \union {"save"} : s # "fetch"
    BY DEF Packaging
  <2> QED
    BY <1>2, <1>4, <2>1 DEF WorkInv, PackagesAll
<1>5. /\ SourceAdded' /\ IndexUpdated' /\ PackagesInstalled' /\ ConfigSaved'
  BY <1>1, <1>4 DEF SourceAdded, IndexUpdated, PackagesInstalled, ConfigSaved, Compared, Packaging
<1>6. OthersFollow'
  <2> SUFFICES ASSUME hook \notin Packagers, ~missed'
               PROVE  Follows(config)
    BY <1>1 DEF OthersFollow, Follows
  <2>1. ~missed
    BY <1>3
  <2>2. hook # "none" /\ hook # "config-changed" /\ retry \in {"none", hook}
    BY DEF TypeInv, HookInv, Fetch, At, Packagers
  <2>3. CASE ~due
    BY <2>1, <2>2, <2>3 DEF WorkInv, Settled
  <2>4. CASE due
    <3>1. saved # None /\ saved.source = config.source
      BY <2>4 DEF Fetch, Packagers
    <3> QED
      BY <3>1, <2>1 DEF WorkInv, SavedIsInstalled, Follows
  <2> QED
    BY <2>3, <2>4, <1>1 DEF TypeInv, TypeOK
<1>7. PackagesAll' /\ ConfigSeen' /\ InstallsFirst'
  BY <1>1, <1>2 DEF PackagesAll, ConfigSeen, InstallsFirst, WorkInv
<1>8. Settled' /\ SavedIsInstalled'
  BY <1>1, <1>3 DEF Settled, SavedIsInstalled, WorkInv, Follows
<1> QED
  BY <1>5, <1>6, <1>7, <1>8 DEF WorkInv

LEMMA CompareWork == TypeInv /\ WorkInv /\ Compare => WorkInv'
<1> SUFFICES ASSUME TypeInv, WorkInv, Compare PROVE WorkInv'
  OBVIOUS
<1>1. UNCHANGED <<hook, seen, config, due, retry, preparing, missed, saved, installed>>
  BY DEF Compare, juju, machine
<1>2. todo' = AfterCompare
  BY DEF Compare
<1>3. /\ ~Has(todo', "fetch") /\ Has(todo', "save")
      /\ SourceChanged => Has(todo', "add-source") /\ Has(todo', "apt-update")
                           /\ Has(todo', "apt-install")
      /\ ~SourceChanged => ~Has(todo', "apt-install")
  BY <1>2, AfterCompareIsPlan DEF Packaging
<1>4. SourceChanged' = SourceChanged
  BY <1>1 DEF SourceChanged
<1>5. PackagesAll' /\ SourceAdded' /\ IndexUpdated' /\ PackagesInstalled' /\ ConfigSaved'
  BY <1>3, <1>4 DEF PackagesAll, SourceAdded, IndexUpdated, PackagesInstalled, ConfigSaved
<1>6. OthersFollow' /\ ConfigSeen' /\ Settled' /\ InstallsFirst' /\ SavedIsInstalled'
  BY <1>1 DEF WorkInv, OthersFollow, ConfigSeen, Settled, InstallsFirst, SavedIsInstalled, Follows
<1> QED
  BY <1>5, <1>6 DEF WorkInv

LEMMA AddSourceWork == TypeInv /\ WorkInv /\ AddSource => WorkInv'
<1> SUFFICES ASSUME TypeInv, WorkInv, AddSource PROVE WorkInv'
  OBVIOUS
<1>1. UNCHANGED <<hook, seen, config, due, retry, preparing, missed, saved, index, installed>>
  BY DEF AddSource, juju
<1>2. /\ ~Has(todo', "fetch")
      /\ Has(todo', "save") <=> Has(todo, "save")
      /\ Has(todo', "compare") <=> Has(todo, "compare")
      /\ Has(todo', "apt-install") <=> Has(todo, "apt-install")
      /\ Has(todo', "apt-update") <=> Has(todo, "apt-update")
  BY WhatIsLeft DEF AddSource
<1>3. seen.source \in Pockets \union Archives => seen.source \in lists'
  BY SourcesAssumption DEF AddSource, Enabled
<1>4. PackagesAll' /\ SourceAdded' /\ IndexUpdated' /\ PackagesInstalled' /\ ConfigSaved'
  BY <1>1, <1>2, <1>3
     DEF WorkInv, PackagesAll, SourceAdded, IndexUpdated, PackagesInstalled, ConfigSaved, Compared,
         FromList, SourceChanged, Follows
<1>5. OthersFollow' /\ ConfigSeen' /\ Settled' /\ InstallsFirst' /\ SavedIsInstalled'
  BY <1>1 DEF WorkInv, OthersFollow, ConfigSeen, Settled, InstallsFirst, SavedIsInstalled, Follows
<1> QED
  BY <1>4, <1>5 DEF WorkInv

LEMMA AptUpdateWork == TypeInv /\ WorkInv /\ AptUpdate => WorkInv'
<1> SUFFICES ASSUME TypeInv, WorkInv, AptUpdate PROVE WorkInv'
  OBVIOUS
<1>1. UNCHANGED <<hook, seen, config, due, retry, preparing, missed, saved, lists, installed>>
  BY DEF AptUpdate, juju
<1>2. /\ ~Has(todo', "fetch")
      /\ Has(todo', "save") <=> Has(todo, "save")
      /\ Has(todo', "compare") <=> Has(todo, "compare")
      /\ Has(todo', "apt-install") <=> Has(todo, "apt-install")
      /\ Has(todo', "add-source") <=> Has(todo, "add-source")
      /\ ~Has(todo', "add-source")
  BY WhatIsLeft DEF AptUpdate, Rank
<1>3. PackagesAll' /\ SourceAdded' /\ PackagesInstalled' /\ ConfigSaved'
  BY <1>1, <1>2
     DEF WorkInv, PackagesAll, SourceAdded, PackagesInstalled, ConfigSaved, Compared, FromList,
         SourceChanged, Follows
<1>4. IndexUpdated'
  BY <1>1, <1>2 DEF AptUpdate, WorkInv, SourceAdded, IndexUpdated, Compared, FromList
<1>5. OthersFollow' /\ ConfigSeen' /\ Settled' /\ InstallsFirst' /\ SavedIsInstalled'
  BY <1>1 DEF WorkInv, OthersFollow, ConfigSeen, Settled, InstallsFirst, SavedIsInstalled, Follows
<1> QED
  BY <1>3, <1>4, <1>5 DEF WorkInv

\* apt never goes back, and goes as far as the source it was told about.
LEMMA AptInstallWork == TypeInv /\ WorkInv /\ AptInstall => WorkInv'
<1> SUFFICES ASSUME TypeInv, WorkInv, AptInstall PROVE WorkInv'
  OBVIOUS
<1>1. UNCHANGED <<hook, seen, config, due, retry, preparing, missed, saved, lists, index>>
  BY DEF AptInstall, juju
<1>2. /\ ~Has(todo', "fetch")
      /\ Has(todo', "save") <=> Has(todo, "save")
      /\ Has(todo', "compare") <=> Has(todo, "compare")
      /\ ~Has(todo', "apt-install")
      /\ Has(todo, "apt-install") /\ ~Has(todo, "apt-update")
  <2>1. /\ Has(todo', "apt-update") <=> Has(todo, "apt-update")
        /\ ~Has(todo', "apt-update")
    BY WhatIsLeft DEF AptInstall, Rank
  <2> QED
    BY <2>1, WhatIsLeft DEF AptInstall
<1>3. PICK r \in Releases : Newest(r) /\ installed' = r
  BY DEF AptInstall
<1>4. Releases \subseteq Nat
  BY SourcesAssumption DEF Sources
<1>5. installed' \in Nat /\ \A q \in Offered : q <= installed'
  BY <1>3, <1>4 DEF Newest
<1>6. installed' # None
  BY <1>5, NoneAssumption
<1>7. installed # None => installed \in Nat /\ installed <= installed'
  BY <1>4, <1>5 DEF Offered, TypeInv, TypeOK
<1>8. ASSUME NEW c, Follows(c) PROVE Follows(c)'
  <2> SUFFICES ASSUME c.source \in Releases PROVE installed' >= c.source
    BY <1>6 DEF Follows
  <2>1. installed # None /\ installed >= c.source /\ c.source \in Nat
    BY <1>4, <1>8 DEF Follows
  <2> QED
    BY <2>1, <1>7, <1>5
<1>9. ASSUME Compared PROVE Follows(seen)'
  <2> SUFFICES ASSUME seen.source \in Releases PROVE installed' >= seen.source
    BY <1>1, <1>6 DEF Follows
  <2>1. seen.source \in Offered
    BY <1>9, <1>2 DEF WorkInv, IndexUpdated, FromList, Offered, Releases
  <2> QED
    BY <2>1, <1>5, <1>4
<1>10. Compared' => Compared
  BY <1>1, <1>2 DEF Compared
<1>11. PackagesAll' /\ SourceAdded' /\ IndexUpdated' /\ ConfigSaved'
  BY <1>1, <1>2 DEF WorkInv, PackagesAll, SourceAdded, IndexUpdated, ConfigSaved, Compared
<1>12. PackagesInstalled'
  BY <1>9, <1>10 DEF PackagesInstalled
<1>13. OthersFollow'
  BY <1>1, <1>8 DEF WorkInv, OthersFollow, Follows
<1>14. Settled'
  BY <1>1, <1>8 DEF WorkInv, Settled, Follows
<1>15. SavedIsInstalled'
  BY <1>1, <1>8 DEF WorkInv, SavedIsInstalled, Follows
<1>16. ConfigSeen' /\ InstallsFirst'
  BY <1>1 DEF WorkInv, ConfigSeen, InstallsFirst
<1> QED
  BY <1>11, <1>12, <1>13, <1>14, <1>15, <1>16 DEF WorkInv

\* The record is written after the packages are installed.
LEMMA SaveWork == TypeInv /\ WorkInv /\ Save => WorkInv'
<1> SUFFICES ASSUME TypeInv, WorkInv, Save PROVE WorkInv'
  OBVIOUS
<1>1. /\ UNCHANGED <<hook, seen, config, due, retry, preparing, lists, index, installed>>
      /\ saved' = seen
  BY DEF Save, juju
<1>2. /\ ~Has(todo', "fetch") /\ Has(todo, "save") /\ ~Has(todo', "save")
      /\ Has(todo', "compare") <=> Has(todo, "compare")
      /\ ~Has(todo', "add-source") /\ ~Has(todo', "apt-update")
      /\ ~Has(todo', "apt-install") /\ ~Has(todo, "apt-install")
  <2>1. Has(todo', "apt-install") <=> Has(todo, "apt-install")
    BY WhatIsLeft DEF Save
  <2> QED
    BY <2>1, WhatIsLeft DEF Save, Rank
<1>3. seen \in Configs
  BY HasSeen DEF Save
<1>4. ~Has(todo, "compare")
  <2>1. ~Has(todo', "compare")
    BY WhatIsLeft DEF Save, Rank
  <2> QED
    BY <2>1, <1>2
<1>5. ~missed' => ~missed \/ (hook \in Packagers /\ SourceChanged)
  BY DEF Save, Packagers
<1>6. SavedIsInstalled'
  <2> SUFFICES ASSUME ~missed' PROVE Follows(seen)
    BY <1>1 DEF SavedIsInstalled, Follows
  <2>1. CASE hook \notin Packagers
    BY <2>1, <1>3, <1>5 DEF WorkInv, OthersFollow
  <2>2. CASE hook \in Packagers /\ SourceChanged
    BY <2>2, <1>2, <1>3, <1>4 DEF WorkInv, PackagesInstalled, Compared
  <2>3. CASE hook \in Packagers /\ ~SourceChanged
    BY <2>3, <1>5 DEF WorkInv, SavedIsInstalled, SourceChanged, Follows
  <2> QED
    BY <2>1, <2>2, <2>3
<1>7. PackagesAll' /\ SourceAdded' /\ IndexUpdated' /\ PackagesInstalled' /\ ConfigSaved'
  BY <1>1, <1>2 DEF PackagesAll, SourceAdded, IndexUpdated, PackagesInstalled, ConfigSaved
<1>8. OthersFollow'
  BY <1>1, <1>5 DEF WorkInv, OthersFollow, Follows
<1>9. Settled'
  <2> SUFFICES ASSUME ~due, hook # "config-changed", retry # "config-changed", ~missed'
               PROVE  Follows(config)
    BY <1>1 DEF Settled, Follows
  <2>1. hook \notin Packagers
    BY DEF Packagers, WorkInv, InstallsFirst
  <2> QED
    BY <2>1, <1>5 DEF WorkInv, Settled
<1>10. ConfigSeen' /\ InstallsFirst'
  BY <1>1 DEF WorkInv, ConfigSeen, InstallsFirst
<1> QED
  BY <1>6, <1>7, <1>8, <1>9, <1>10 DEF WorkInv

\* config-changed that succeeds leaves the packages of the source of now, unless
\* the source changed again or another hook was the first to see it.
LEMMA AssessStatusWork == TypeInv /\ WorkInv /\ AssessStatus => WorkInv'
<1> SUFFICES ASSUME TypeInv, WorkInv, AssessStatus PROVE WorkInv'
  OBVIOUS
<1>1. /\ seen' = None /\ hook' = "none" /\ retry' = "none"
      /\ UNCHANGED <<config, due, saved, installed, missed>>
  BY DEF AssessStatus, Ends
<1>2. todo # <<>> /\ Head(todo) = "assess" /\ Plan(hook, todo) /\ hook # "none"
  BY DEF TypeInv, TypeOK, HookInv, At, AssessStatus
<1>3. /\ \A r : Has(todo, r) /\ r # "assess" => Rank("assess") < Rank(r)
  BY <1>2, TailOfPlan
<1>4. ~Has(todo, "fetch") /\ ~Has(todo, "compare") /\ ~Has(todo, "save")
  BY <1>3 DEF Rank
<1>5. Settled'
  <2> SUFFICES ASSUME ~due, ~missed PROVE Follows(config)
    BY <1>1 DEF Settled, Follows
  <2>1. CASE hook = "config-changed"
    <3>1. seen \in Configs
      BY <2>1, <1>2, <1>4 DEF TypeInv, HookInv
    <3>2. saved = seen /\ seen = config
      BY <3>1, <2>1, <1>4 DEF WorkInv, ConfigSaved, Compared, ConfigSeen, Packagers
    <3> QED
      BY <3>1, <3>2, NoneIsNoConfig DEF WorkInv, SavedIsInstalled
  <2>2. CASE hook # "config-changed"
    BY <2>2, <1>2 DEF WorkInv, Settled, TypeInv, HookInv
  <2> QED
    BY <2>1, <2>2
<1>6. SavedIsInstalled'
  BY <1>1 DEF WorkInv, SavedIsInstalled, Follows
<1> QED
  BY <1>1, <1>5, <1>6, NoneIsNoConfig
     DEF WorkInv, PackagesAll, Packagers, OthersFollow, SourceAdded, IndexUpdated,
         PackagesInstalled, ConfigSaved, Compared, ConfigSeen, InstallsFirst

LEMMA StepWork == TypeInv /\ WorkInv /\ Step => WorkInv'
<1> SUFFICES ASSUME TypeInv, WorkInv, Step PROVE WorkInv'
  OBVIOUS
<1>1. CASE Fetch BY <1>1, FetchWork
<1>2. CASE Compare BY <1>2, CompareWork
<1>3. CASE AddKeyring BY <1>3, CarriesOn DEF AddKeyring
<1>4. CASE AddSource BY <1>4, AddSourceWork
<1>5. CASE RejectSource BY <1>5, RaisesWork DEF RejectSource, At, machine
<1>6. CASE AptUpdate BY <1>6, AptUpdateWork
<1>7. CASE AptInstall BY <1>7, AptInstallWork
<1>8. CASE \E s \in Commands : AptFails(s)
  <2>1. CASE Raises
    BY <1>8, <2>1, RaisesWork DEF AptFails, At, machine
  <2>2. CASE UNCHANGED <<juju, hook, todo, seen>>
    BY <1>8, <2>2
       DEF AptFails, machine, juju, WorkInv, SavedIsInstalled, PackagesAll, OthersFollow,
           SourceAdded, IndexUpdated, PackagesInstalled, ConfigSaved, Compared, ConfigSeen,
           Settled, InstallsFirst, FromList, SourceChanged, Follows
  <2> QED
    BY <1>8, <2>1, <2>2 DEF AptFails
<1>9. CASE \E f \in Files : Render(f)
  BY <1>9, CarriesOn DEF Render, Files
<1>10. CASE \E f \in {"paused", "upgrading"} : SetFlag(f)
  BY <1>10, CarriesOn DEF SetFlag
<1>11. CASE Save BY <1>11, SaveWork
<1>12. CASE AssessStatus BY <1>12, AssessStatusWork
<1> QED
  BY <1>1, <1>2, <1>3, <1>4, <1>5, <1>6, <1>7, <1>8, <1>9, <1>10, <1>11, <1>12 DEF Step

LEMMA NextWork == TypeInv /\ WorkInv /\ [Next]_vars => WorkInv'
<1> SUFFICES ASSUME TypeInv, WorkInv, [Next]_vars PROVE WorkInv'
  OBVIOUS
<1>1. CASE Configure BY <1>1, ConfigureWork
<1>2. CASE RunDue
  <2>1. CASE retry # "none" /\ Begin(retry)
    BY <2>1, BeginWork DEF TypeInv, TypeOK, WorkInv, InstallsFirst
  <2>2. CASE retry = "none" /\ due /\ Begin("config-changed")
    BY <2>2, BeginWork DEF Hooks
  <2> QED
    BY <1>2, <2>1, <2>2 DEF RunDue
<1>3. CASE RunEvent
  <2>1. PICK h \in Hooks \ {"install"} : Begin(h)
    BY <1>3 DEF RunEvent, Hooks, Series
  <2> QED
    BY <1>3, <2>1, BeginWork DEF RunEvent
<1>4. CASE TakeLock \/ ReleaseLock
  BY <1>4, StutterWork DEF TakeLock, ReleaseLock
<1>5. CASE Step BY <1>5, StepWork
<1>6. CASE Interrupt
  BY <1>6, RaisesWork DEF Interrupt
<1>7. CASE UNCHANGED vars
  BY <1>7, StutterWork DEF vars
<1> QED
  BY <1>1, <1>2, <1>3, <1>4, <1>5, <1>6, <1>7 DEF Next

\* When no relation hook was the first to see a new source, the packages are
\* those of the recorded source or newer: a record is only written when all of
\* package_install has run for the source it names, whatever failed before.
THEOREM RecordIsTrue == Spec => []SavedIsInstalled
<1>1. TypeInv /\ WorkInv /\ [Next]_vars => TypeInv' /\ WorkInv'
  BY NextType, NextWork
<1>2. WorkInv => SavedIsInstalled
  BY DEF WorkInv
<1> QED
  BY InitType, InitWork, <1>1, <1>2, PTL DEF Spec

-----------------------------------------------------------------------------
(* Files and status are of now.  While config-changed is due, runs or has  *)
(* to be run again they need not be, nor the flags while a hook of the     *)
(* series upgrade is.                                                      *)

\* config-changed compares, and so renders, what it fetches.
ComparesFirst ==
  hook = "config-changed" /\ Has(todo, "fetch") => Has(todo, "compare")

\* What a hook fetched is the configuration, unless it has changed since.
SeenNow == hook # "none" /\ ~due /\ seen \in Configs => seen = config

FilesRendered ==
  hook = "config-changed" /\ seen \in Configs /\ ~Has(todo, "compare") =>
    \A f \in Files : Has(todo, f) \/ files[f] = seen.cluster
FilesNow ==
  ~due /\ hook # "config-changed" /\ retry # "config-changed" =>
    \A f \in Files : files[f] = config.cluster

FlagSet ==
  hook \in Series /\ ~Has(todo, "upgrading") =>
    flags["upgrading"] = (hook = "pre-series-upgrade")
FlagNow ==
  hook \notin Series /\ retry \notin Series => flags["upgrading"] = preparing

StatusNow ==
  LET shown == preparing /\ ~overlooked
  IN ~due /\ hook = "none" /\ retry = "none" =>
       status = CASE shown -> "ready-for-upgrade"
                  [] ~shown /\ Ready(config) -> "active"
                  [] OTHER -> "blocked"

CurrentInv ==
  /\ ComparesFirst
  /\ SeenNow /\ FilesRendered /\ FilesNow /\ FlagSet /\ FlagNow /\ StatusNow

LEMMA InitCurrent == Init => CurrentInv
BY DEF Init, CurrentInv, ComparesFirst, SeenNow, FilesRendered, FilesNow, FlagSet, FlagNow, StatusNow, Series

LEMMA ConfigureCurrent == TypeInv /\ CurrentInv /\ Configure => CurrentInv'
BY DEF Configure, process, machine, CurrentInv, ComparesFirst, SeenNow, FilesRendered, FilesNow, FlagSet,
       FlagNow, StatusNow

LEMMA BeginCurrent ==
  ASSUME TypeInv, CurrentInv, NEW h \in Hooks, retry = "none" \/ retry = h, Begin(h)
  PROVE  CurrentInv'
<1>1. /\ hook = "none" /\ hook' = h /\ todo' = Body(h) /\ seen' = None
      /\ due' = (due /\ h # "config-changed")
      /\ UNCHANGED <<config, retry, preparing, files, flags, status, overlooked>>
  BY DEF Begin, machine, TypeInv, HookInv
<1>2. /\ h \in Series => Has(todo', "upgrading")
      /\ h = "config-changed" => Has(todo', "compare")
  BY <1>1, BodyIsPlan
<1>3. h # "none"
  BY DEF Hooks, Series
<1>4. ComparesFirst' /\ SeenNow' /\ FilesRendered'
  BY <1>1, <1>2, NoneIsNoConfig DEF ComparesFirst, SeenNow, FilesRendered
<1>5. FilesNow' /\ FlagSet' /\ StatusNow'
  BY <1>1, <1>2, <1>3 DEF CurrentInv, FilesNow, FlagSet, StatusNow, TypeInv, TypeOK
<1>6. FlagNow'
  BY <1>1 DEF CurrentInv, FlagNow, Series
<1> QED
  BY <1>4, <1>5, <1>6 DEF CurrentInv

\* A step that leaves what was fetched, the files, the flag and the status alone.
LEMMA CarriesOnCurrent ==
  ASSUME TypeInv, CurrentInv, NEW s, At(s), Advance,
         s \notin {"fetch", "compare", "assess", "upgrading"} \union Files,
         UNCHANGED <<juju, hook, seen, files, status, overlooked>>,
         flags'["upgrading"] = flags["upgrading"]
  PROVE  CurrentInv'
<1>1. /\ ~Has(todo', "fetch")
      /\ \A r : r # s => (Has(todo', r) <=> Has(todo, r))
  BY WhatIsLeft
<1>2. /\ Has(todo', "compare") <=> Has(todo, "compare")
      /\ Has(todo', "upgrading") <=> Has(todo, "upgrading")
      /\ \A f \in Files : Has(todo', f) <=> Has(todo, f)
  BY <1>1
<1> QED
  BY <1>1, <1>2
     DEF juju, CurrentInv, ComparesFirst, SeenNow, FilesRendered, FilesNow, FlagSet, FlagNow,
         StatusNow

LEMMA FetchCurrent == TypeInv /\ CurrentInv /\ Fetch => CurrentInv'
<1> SUFFICES ASSUME TypeInv, CurrentInv, Fetch PROVE CurrentInv'
  OBVIOUS
<1>1. /\ hook # "none" /\ seen' = config /\ UNCHANGED <<juju, hook, machine>>
      /\ Has(todo, "fetch") /\ ~Has(todo', "fetch")
      /\ \A r : r # "fetch" => (Has(todo', r) <=> Has(todo, r))
  BY WhatIsLeft DEF Fetch, At
<1>2. /\ Has(todo', "compare") <=> Has(todo, "compare")
      /\ Has(todo', "upgrading") <=> Has(todo, "upgrading")
  BY <1>1
<1> QED
  BY <1>1, <1>2
     DEF juju, machine, CurrentInv, ComparesFirst, SeenNow, FilesRendered, FilesNow, FlagSet,
         FlagNow, StatusNow

LEMMA CompareCurrent == TypeInv /\ CurrentInv /\ Compare => CurrentInv'
<1> SUFFICES ASSUME TypeInv, CurrentInv, Compare PROVE CurrentInv'
  OBVIOUS
<1>1. hook = "config-changed"
  <2>1. todo # <<>> /\ Head(todo) = "compare" /\ Plan(hook, todo)
    BY DEF TypeInv, TypeOK, HookInv, At, Compare
  <2> QED
    BY <2>1, TailOfPlan DEF Plan
<1>2. /\ todo' = AfterCompare /\ ~Has(todo', "fetch")
      /\ \A f \in Files : Has(todo', f)
  BY AfterCompareIsPlan DEF Compare
<1> QED
  BY <1>1, <1>2
     DEF Compare, juju, machine, CurrentInv, ComparesFirst, SeenNow, FilesRendered, FilesNow,
         FlagSet, FlagNow, StatusNow, Series

LEMMA RenderCurrent ==
  ASSUME TypeInv, CurrentInv, NEW f \in Files, Render(f)
  PROVE  CurrentInv'
<1>1. f \notin {"fetch", "compare", "assess", "upgrading"}
  BY DEF Files
<1>2. /\ Has(todo, f) /\ ~Has(todo', "fetch")
      /\ \A r : r # f => (Has(todo', r) <=> Has(todo, r))
  BY <1>1, WhatIsLeft DEF Render
<1>3. Plan(hook, todo)
  BY DEF Render, At, TypeInv, HookInv
<1>4. hook = "config-changed"
  BY <1>2, <1>3 DEF Plan
<1>5. /\ Has(todo', "compare") <=> Has(todo, "compare")
      /\ files' = [files EXCEPT ![f] = seen.cluster]
      /\ files \in [Files -> Clusters \union {None}]
  BY <1>1, <1>2 DEF Render, TypeInv, TypeOK
<1>6. FilesRendered'
  BY <1>2, <1>4, <1>5 DEF Render, CurrentInv, FilesRendered
<1> QED
  BY <1>2, <1>4, <1>5, <1>6
     DEF Render, juju, CurrentInv, ComparesFirst, SeenNow, FilesNow, FlagSet, FlagNow, StatusNow,
         Series

LEMMA SetFlagCurrent ==
  ASSUME TypeInv, CurrentInv, NEW f \in {"paused", "upgrading"}, SetFlag(f)
  PROVE  CurrentInv'
<1>1. flags \in [{"paused", "upgrading"} -> BOOLEAN]
  BY DEF TypeInv, TypeOK
<1>2. CASE f = "paused"
  BY <1>1, <1>2, CarriesOnCurrent DEF SetFlag, Files
<1>3. CASE f = "upgrading"
  <2>1. /\ Has(todo, f) /\ ~Has(todo', "fetch")
        /\ \A r : r # f => (Has(todo', r) <=> Has(todo, r))
    BY <1>3, WhatIsLeft DEF SetFlag
  <2>2. Plan(hook, todo)
    BY DEF SetFlag, At, TypeInv, HookInv
  <2>3. hook \in Series
    BY <1>3, <2>1, <2>2 DEF Plan
  <2>4. flags'["upgrading"] = (hook = "pre-series-upgrade")
    BY <1>1, <1>3 DEF SetFlag
  <2> QED
    BY <2>1, <2>3, <2>4
       DEF SetFlag, juju, CurrentInv, ComparesFirst, SeenNow, FilesRendered, FilesNow, FlagSet,
           FlagNow, StatusNow, Series
<1> QED
  BY <1>2, <1>3

\* A process that fails will be run again; only a torn file is changed.
LEMMA RaisesCurrent ==
  ASSUME TypeInv, CurrentInv, hook # "none", Raises, UNCHANGED <<flags, status, overlooked>>,
         hook = "config-changed" \/ UNCHANGED files
  PROVE  CurrentInv'
<1>1. hook' = "none" /\ retry' = hook /\ todo' = <<>> /\ UNCHANGED <<config, due, preparing>>
  BY DEF Raises, Ends
<1>2. retry \in {"none", hook}
  BY DEF TypeInv, HookInv
<1> QED
  BY <1>1, <1>2
     DEF CurrentInv, ComparesFirst, SeenNow, FilesRendered, FilesNow, FlagSet, FlagNow, StatusNow,
         Series

LEMMA InterruptCurrent == TypeInv /\ CurrentInv /\ Interrupt => CurrentInv'
<1> SUFFICES ASSUME TypeInv, CurrentInv, Interrupt PROVE CurrentInv'
  OBVIOUS
<1>1. hook # "none" /\ Raises /\ UNCHANGED <<flags, status, overlooked>>
  BY DEF Interrupt
<1>2. hook = "config-changed" \/ UNCHANGED files
  <2>1. CASE \E f \in Files : At(f)
    <3>1. PICK f \in Files : todo # <<>> /\ Head(todo) = f /\ Plan(hook, todo)
      BY <2>1, PlanIsNotEmpty DEF At, TypeInv, HookInv
    <3>2. Has(todo, f)
      BY <3>1, TailOfPlan
    <3> QED
      BY <3>1, <3>2 DEF Plan
  <2>2. CASE \A f \in Files : ~At(f)
    BY <2>2 DEF Interrupt, TypeInv, TypeOK
  <2> QED
    BY <2>1, <2>2
<1> QED
  BY <1>1, <1>2, RaisesCurrent

LEMMA AssessStatusCurrent == TypeInv /\ CurrentInv /\ AssessStatus => CurrentInv'
<1> SUFFICES ASSUME TypeInv, CurrentInv, AssessStatus PROVE CurrentInv'
  OBVIOUS
<1>1. /\ hook' = "none" /\ todo' = <<>> /\ retry' = "none"
      /\ UNCHANGED <<config, due, flags, files>>
  BY DEF AssessStatus, Ends
<1>2. /\ hook # "none" /\ retry \in {"none", hook}
      /\ todo # <<>> /\ Head(todo) = "assess" /\ Plan(hook, todo)
  BY DEF AssessStatus, At, TypeInv, TypeOK, HookInv
<1>3. \A r : Has(todo, r) /\ r # "assess" => Rank("assess") < Rank(r)
  BY <1>2, TailOfPlan
<1>4. /\ ~Has(todo, "fetch") /\ ~Has(todo, "compare") /\ ~Has(todo, "upgrading")
      /\ \A f \in Files : ~Has(todo, f)
  BY <1>3 DEF Rank, Files
<1>5. flags["upgrading"] = preparing'
  <2>1. CASE hook \in Series
    BY <2>1, <1>4 DEF AssessStatus, CurrentInv, FlagSet, Series
  <2>2. CASE hook \notin Series
    <3>1. retry \notin Series
      BY <2>2, <1>2 DEF Series
    <3> QED
      BY <2>2, <3>1 DEF AssessStatus, CurrentInv, FlagNow, Series
  <2> QED
    BY <2>1, <2>2
<1>6. ~due => seen = None \/ seen = config
  BY <1>2 DEF CurrentInv, SeenNow, TypeInv, TypeOK
<1>7. StatusNow'
  <2> SUFFICES ASSUME ~due
               PROVE  status' = CASE preparing' /\ ~overlooked' -> "ready-for-upgrade"
                                  [] ~(preparing' /\ ~overlooked') /\ Ready(config) -> "active"
                                  [] OTHER -> "blocked"
    BY <1>1 DEF StatusNow, Ready
  <2>1. status' = Assessed(config, preparing' /\ ~overlooked')
    BY <1>5, <1>6 DEF AssessStatus
  <2> QED
    BY <2>1 DEF Assessed
<1>8. FilesNow'
  <2> SUFFICES ASSUME ~due, NEW f \in Files PROVE files[f] = config.cluster
    BY <1>1 DEF FilesNow
  <2>1. CASE hook = "config-changed"
    <3>1. seen \in Configs
      BY <2>1, <1>2, <1>4 DEF TypeInv, HookInv
    <3>2. seen = config /\ files[f] = seen.cluster
      BY <3>1, <2>1, <1>2, <1>4 DEF CurrentInv, SeenNow, FilesRendered
    <3> QED
      BY <3>2
  <2>2. CASE hook # "config-changed"
    BY <2>2, <1>2 DEF CurrentInv, FilesNow
  <2> QED
    BY <2>1, <2>2
<1>9. ComparesFirst' /\ SeenNow' /\ FilesRendered' /\ FlagSet' /\ FlagNow'
  BY <1>1, <1>5 DEF ComparesFirst, SeenNow, FilesRendered, FlagSet, FlagNow, Series
<1> QED
  BY <1>7, <1>8, <1>9 DEF CurrentInv

LEMMA StutterCurrent ==
  ASSUME TypeInv, CurrentInv,
         UNCHANGED <<config, due, retry, preparing, hook, todo, seen, files, flags, status,
                     overlooked>>
  PROVE  CurrentInv'
BY DEF CurrentInv, ComparesFirst, SeenNow, FilesRendered, FilesNow, FlagSet, FlagNow, StatusNow

LEMMA StepCurrent == TypeInv /\ CurrentInv /\ Step => CurrentInv'
<1> SUFFICES ASSUME TypeInv, CurrentInv, Step PROVE CurrentInv'
  OBVIOUS
<1> USE DEF Files
<1>1. CASE Fetch BY <1>1, FetchCurrent
<1>2. CASE Compare BY <1>2, CompareCurrent
<1>3. CASE AddKeyring BY <1>3, CarriesOnCurrent DEF AddKeyring
<1>4. CASE AddSource BY <1>4, CarriesOnCurrent DEF AddSource
<1>5. CASE RejectSource BY <1>5, RaisesCurrent DEF RejectSource, At, machine
<1>6. CASE AptUpdate BY <1>6, CarriesOnCurrent DEF AptUpdate
<1>7. CASE AptInstall BY <1>7, CarriesOnCurrent DEF AptInstall
<1>8. CASE \E s \in Commands : AptFails(s)
  <2>1. CASE Raises
    BY <1>8, <2>1, RaisesCurrent DEF AptFails, At, machine
  <2>2. CASE UNCHANGED <<juju, hook, todo, seen>>
    BY <1>8, <2>2, StutterCurrent DEF AptFails, machine, juju
  <2> QED
    BY <1>8, <2>1, <2>2 DEF AptFails
<1>9. CASE \E f \in Files : Render(f) BY <1>9, RenderCurrent
<1>10. CASE \E f \in {"paused", "upgrading"} : SetFlag(f) BY <1>10, SetFlagCurrent
<1>11. CASE Save BY <1>11, CarriesOnCurrent DEF Save
<1>12. CASE AssessStatus BY <1>12, AssessStatusCurrent
<1> QED
  BY <1>1, <1>2, <1>3, <1>4, <1>5, <1>6, <1>7, <1>8, <1>9, <1>10, <1>11, <1>12 DEF Step

LEMMA NextCurrent == TypeInv /\ CurrentInv /\ [Next]_vars => CurrentInv'
<1> SUFFICES ASSUME TypeInv, CurrentInv, [Next]_vars PROVE CurrentInv'
  OBVIOUS
<1>1. CASE Configure BY <1>1, ConfigureCurrent
<1>2. CASE RunDue
  <2>1. CASE retry # "none" /\ Begin(retry)
    BY <2>1, BeginCurrent DEF TypeInv, TypeOK
  <2>2. CASE retry = "none" /\ due /\ Begin("config-changed")
    BY <2>2, BeginCurrent DEF Hooks
  <2> QED
    BY <1>2, <2>1, <2>2 DEF RunDue
<1>3. CASE RunEvent
  <2>1. PICK h \in Hooks : Begin(h)
    BY <1>3 DEF RunEvent, Hooks, Series
  <2> QED
    BY <1>3, <2>1, BeginCurrent DEF RunEvent
<1>4. CASE TakeLock \/ ReleaseLock
  BY <1>4, StutterCurrent DEF TakeLock, ReleaseLock, juju, process, machine
<1>5. CASE Step BY <1>5, StepCurrent
<1>6. CASE Interrupt BY <1>6, InterruptCurrent
<1>7. CASE UNCHANGED vars
  BY <1>7, StutterCurrent DEF vars, juju, process, machine
<1> QED
  BY <1>1, <1>2, <1>3, <1>4, <1>5, <1>6, <1>7 DEF Next

LEMMA CurrentHolds == Spec => [](TypeInv /\ CurrentInv)
<1>1. TypeInv /\ CurrentInv /\ [Next]_vars => TypeInv' /\ CurrentInv'
  BY NextType, NextCurrent
<1> QED
  BY InitType, InitCurrent, <1>1, PTL DEF Spec

\* Once nothing is left to run, all files are from the configuration of now,
\* whichever hooks failed, were cut short or saw the change first.
THEOREM FilesAreCurrent == Spec => []FilesMatchConfig
<1>1. TypeInv /\ CurrentInv => FilesMatchConfig
  BY DEF CurrentInv, FilesNow, FilesMatchConfig, Quiet
<1> QED
  BY <1>1, CurrentHolds, PTL

\* Nor does the operator then read a status that is about anything else than
\* the configuration and the series upgrade of now, unless the read of the flag
\* failed in the last hook: that hides the upgrade, and nothing else.
THEOREM StatusIsTrue == Spec => []StatusIsCurrent
<1>1. TypeInv /\ CurrentInv => StatusIsCurrent
  BY DEF CurrentInv, StatusNow, StatusIsCurrent, Quiet
<1> QED
  BY <1>1, CurrentHolds, PTL
=============================================================================
