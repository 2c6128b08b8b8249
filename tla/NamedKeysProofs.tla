--------------------------- MODULE NamedKeysProofs ---------------------------
(***************************************************************************)
(* Proofs about NamedKeys, for any units, services, pools, operations and  *)
(* bounds: the types; that no key gains access its service was not meant   *)
(* to have, which KeyGroupsProofs shows of the operations on groups alone; *)
(* and that only a unit on the machine of the leading monitor opens a key  *)
(* that was narrowed.                                                      *)
(***************************************************************************)
EXTENDS NamedKeys, KeyGroupsProofs

\* A unit that is about to reset capabilities leads the monitors and got the key.
LeaderInv ==
  \A p \in Proxies : wants[p] # None /\ command[p] = "caps" =>
    p \in MonLeaders /\ wants[p] \in keys

KeysInv == TypeInv /\ NamedKeysTypeOK /\ LeaderInv

\* What the steps leave alone.
LEMMA OperationsStay ==
  ASSUME UNCHANGED vars
  PROVE  /\ TypeInv => TypeInv'
         /\ AccessInv => AccessInv'
<1>1. /\ TypeInv => TypeInv'
      /\ StoreInv => StoreInv'
      /\ NoUnaskedAccess => NoUnaskedAccess'
  BY DEF vars, cluster, local, history, faults, TypeInv, TypeOK, StepInv, StoreInv, PoolAsked,
         NameAsked, NoUnaskedAccess, AskedFor
<1>2. CopyInv => CopyInv'
  BY DEF vars, cluster, local, history, faults, CopyInv, CopyOK, PoolAsked, NameAsked
<1>3. GrantInv => GrantInv'
  BY DEF vars, cluster, local, history, faults, GrantInv, NameAsked, AskedFor
<1> QED
  BY <1>1, <1>2, <1>3 DEF AccessInv

LEMMA InitKeys == NamedKeysInit => KeysInv
<1> SUFFICES ASSUME NamedKeysInit PROVE KeysInv
  OBVIOUS
<1>1. TypeInv
  BY InitType DEF NamedKeysInit
<1>2. 0 \in 0 .. MaxFetches /\ 0 \in 0 .. MaxFetchFaults
  BY NamedKeysAssumption
<1>3. \A p \in Proxies : wants[p] = None
  BY DEF NamedKeysInit
<1> QED
  BY <1>1, <1>2, <1>3 DEF NamedKeysInit, KeysInv, TypeInv, NamedKeysTypeOK, LeaderInv

LEMMA FaultsType ==
  ASSUME NamedKeysTypeOK, NEW fault \in BOOLEAN, Faults(fault)
  PROVE  fetchFaults' \in 0 .. MaxFetchFaults
BY NamedKeysAssumption DEF NamedKeysTypeOK, Faults

\* A key that is there is handed out, and the hook is done.
LEMMA HandOutKeys ==
  ASSUME KeysInv, NEW p \in Proxies, wants[p] # None, HandOut(p), keys \subseteq keys',
         wants[p] \in keys', UNCHANGED doing
  PROVE  /\ wants' \in [Proxies -> Services \union {None}]
         /\ command' \in [Proxies -> {"get", "caps", "create"}]
         /\ handed' \subseteq keys'
         /\ \A q \in Proxies : wants'[q] # None => doing'[q] = None
         /\ LeaderInv'
BY DEF KeysInv, NamedKeysTypeOK, LeaderInv, HandOut

\* Or the next command is run.
LEMMA RunKeys ==
  ASSUME KeysInv, NEW p \in Proxies, NEW c \in {"create", "caps"}, Run(p, c),
         c = "caps" => p \in MonLeaders /\ wants[p] \in keys, UNCHANGED <<doing, keys>>
  PROVE  /\ wants' \in [Proxies -> Services \union {None}]
         /\ command' \in [Proxies -> {"get", "caps", "create"}]
         /\ handed' \subseteq keys'
         /\ \A q \in Proxies : wants'[q] # None => doing'[q] = None
         /\ LeaderInv'
BY DEF KeysInv, NamedKeysTypeOK, LeaderInv, Run

LEMMA AskKeys ==
  ASSUME KeysInv, NEW p \in Proxies, NEW s \in Services, Ask(p, s)
  PROVE  KeysInv'
<1>1. TypeInv'
  BY OperationsStay DEF Ask, KeysInv
<1>2. fetches' \in 0 .. MaxFetches
  BY NamedKeysAssumption DEF Ask, KeysInv, NamedKeysTypeOK
<1>3. doing' = doing
  BY DEF Ask, vars, local
<1> QED
  BY <1>1, <1>2, <1>3 DEF Ask, KeysInv, TypeInv, NamedKeysTypeOK, LeaderInv

LEMMA GetKeyKeys ==
  ASSUME KeysInv, NEW p \in Proxies, NEW fault \in BOOLEAN, GetKey(p, fault)
  PROVE  KeysInv'
<1>1. TypeInv' /\ doing' = doing
  BY OperationsStay DEF GetKey, KeysInv, vars, local
<1>2. fetchFaults' \in 0 .. MaxFetchFaults /\ UNCHANGED <<keys, fetches>>
  BY FaultsType DEF GetKey, KeysInv
<1>3. \/ Run(p, "create")
      \/ Run(p, "caps") /\ p \in MonLeaders /\ wants[p] \in keys
      \/ HandOut(p) /\ wants[p] \in keys /\ wants[p] # None
  BY DEF GetKey, IsThere, LeadsMonitors
<1>4. /\ wants' \in [Proxies -> Services \union {None}]
      /\ command' \in [Proxies -> {"get", "caps", "create"}]
      /\ handed' \subseteq keys'
      /\ \A q \in Proxies : wants'[q] # None => doing'[q] = None
      /\ LeaderInv'
  BY <1>1, <1>2, <1>3, HandOutKeys, RunKeys
<1> QED
  BY <1>1, <1>2, <1>4 DEF KeysInv, TypeInv, NamedKeysTypeOK

LEMMA UpgradeCapsKeys ==
  ASSUME KeysInv, NEW p \in Proxies, NEW fault \in BOOLEAN, UpgradeCaps(p, fault)
  PROVE  KeysInv'
<1>1. TypeInv' /\ doing' = doing
  BY DEF UpgradeCaps, KeysInv, NamedKeysTypeOK, TypeInv, TypeOK, StepInv, local, history, faults
<1>2. fetchFaults' \in 0 .. MaxFetchFaults /\ UNCHANGED <<keys, fetches>>
  BY FaultsType DEF UpgradeCaps, KeysInv
<1>3. Run(p, "create") \/ (HandOut(p) /\ wants[p] \in keys)
  BY DEF UpgradeCaps, KeysInv, LeaderInv
<1>4. /\ wants' \in [Proxies -> Services \union {None}]
      /\ command' \in [Proxies -> {"get", "caps", "create"}]
      /\ handed' \subseteq keys'
      /\ \A q \in Proxies : wants'[q] # None => doing'[q] = None
      /\ LeaderInv'
  BY <1>1, <1>2, <1>3, HandOutKeys, RunKeys DEF UpgradeCaps
<1> QED
  BY <1>1, <1>2, <1>4 DEF KeysInv, TypeInv, NamedKeysTypeOK

LEMMA CreateKeyKeys ==
  ASSUME KeysInv, NEW p \in Proxies, NEW fault \in BOOLEAN, CreateKey(p, fault)
  PROVE  KeysInv'
<1>1. TypeInv' /\ doing' = doing
  BY OperationsStay DEF CreateKey, KeysInv, vars, local
<1>2. fetchFaults' \in 0 .. MaxFetchFaults /\ UNCHANGED fetches
  BY FaultsType DEF CreateKey, KeysInv
<1>3. keys \subseteq keys' /\ keys' \subseteq Services
  BY DEF CreateKey, KeysInv, NamedKeysTypeOK
<1>4. /\ wants' \in [Proxies -> Services \union {None}]
      /\ command' \in [Proxies -> {"get", "caps", "create"}]
      /\ handed' \subseteq keys'
      /\ \A q \in Proxies : wants'[q] # None => doing'[q] = None
      /\ LeaderInv'
  <2>1. CASE HandOut(p) /\ wants[p] \in keys'
    BY <1>1, <1>3, <2>1, HandOutKeys DEF CreateKey
  <2>2. CASE wants' = [wants EXCEPT ![p] = None] /\ UNCHANGED <<command, handed>>
    BY <1>1, <1>3, <2>2 DEF KeysInv, NamedKeysTypeOK, LeaderInv
  <2> QED
    BY <2>1, <2>2 DEF CreateKey
<1> QED
  BY <1>1, <1>2, <1>3, <1>4 DEF KeysInv, TypeInv, NamedKeysTypeOK

LEMMA CapsOfNoKeyKeys ==
  ASSUME KeysInv, NEW p \in Proxies, CapsOfNoKey(p)
  PROVE  KeysInv'
<1>1. TypeInv'
  BY DEF CapsOfNoKey, GoTo, KeysInv, TypeInv, TypeOK, StepInv, Steps, cluster, history, faults
<1> QED
  BY <1>1 DEF CapsOfNoKey, KeysInv, TypeInv, NamedKeysTypeOK, LeaderInv, fetching

\* A unit that runs a request asks for no key, and other units go on.
LEMMA DoingElsewhere ==
  ASSUME NEW p \in Proxies, TypeOK, Proxy(p), NEW q \in Proxies, q # p
  PROVE  doing'[q] = doing[q]
BY DEF Proxy, Start, GetService, SaveGroup, SaveService, NextService, ReadGroup, SetCaps, Finish,
       Abort, TypeOK

LEMMA BrokerStepKeys ==
  ASSUME KeysInv, NEW p \in Proxies, BrokerStep(p)
  PROVE  KeysInv'
<1>1. TypeInv'
  BY NextType DEF BrokerStep, KeysInv, Next
<1>2. \A q \in Proxies : wants'[q] # None => doing'[q] = None
  BY DoingElsewhere DEF BrokerStep, KeysInv, NamedKeysTypeOK, TypeInv, fetching
<1> QED
  BY <1>1, <1>2 DEF BrokerStep, KeysInv, TypeInv, NamedKeysTypeOK, LeaderInv, fetching

LEMMA NextKeys == KeysInv /\ [NamedKeysNext]_allVars => KeysInv'
<1> SUFFICES ASSUME KeysInv, [NamedKeysNext]_allVars PROVE KeysInv'
  OBVIOUS
<1>1. CASE NamedKeysNext
  BY <1>1, AskKeys, GetKeyKeys, UpgradeCapsKeys, CreateKeyKeys, CapsOfNoKeyKeys, BrokerStepKeys
     DEF NamedKeysNext
<1>2. CASE UNCHANGED allVars
  <2>1. TypeInv' /\ UNCHANGED doing
    BY <1>2, OperationsStay DEF KeysInv, allVars, vars, local
  <2> QED
    BY <1>2, <2>1 DEF KeysInv, TypeInv, NamedKeysTypeOK, LeaderInv, allVars, fetching
<1> QED
  BY <1>1, <1>2

\* Every variable keeps its type, no hook hands out a key that is not there, and
\* a unit that asks for a key is not in the middle of a request.
THEOREM NamedKeysTypeCorrect == NamedKeysSpec => []NamedKeysTypeOK
<1>1. KeysInv => NamedKeysTypeOK
  BY DEF KeysInv
<1> QED
  BY InitKeys, NextKeys, <1>1, PTL DEF NamedKeysSpec

-----------------------------------------------------------------------------
\* An operation on groups never takes a key back to the capabilities of a new
\* one.
LEMMA OperationsNarrow ==
  ASSUME TypeInv, NEW p \in Proxies, Proxy(p), NEW s \in Services, caps[s] # None
  PROVE  caps'[s] # None
<1>1. CASE UNCHANGED caps
  BY <1>1
<1>2. CASE \E fault \in BOOLEAN : SetCaps(p, fault)
  <2>1. grants[p] \in SUBSET Grants
    BY DEF TypeInv, TypeOK
  <2>2. caps'[s] \in {caps[s], grants[p]}
    BY <1>2 DEF SetCaps, TypeInv, TypeOK
  <2> QED
    BY <2>1, <2>2, NamedKeysAssumption
<1> QED
  BY <1>1, <1>2
     DEF Proxy, Start, GetService, SaveGroup, SaveService, NextService, ReadGroup, Finish, Abort,
         cluster

\* A key that was narrowed to the pools of groups is opened again only by a hook
\* on the machine of the leading monitor, whatever fails and however hooks and
\* requests of different units interleave.
THEOREM NarrowedKeysStay == NamedKeysSpec => NarrowedStaysNarrowed
<1> DEFINE Opened == \A s \in Services :
              caps[s] # None /\ caps'[s] = None => \E p \in MonLeaders : wants[p] = s
<1>1. KeysInv /\ [NamedKeysNext]_allVars => [Opened]_allVars
  <2> SUFFICES ASSUME KeysInv, NamedKeysNext, NEW s \in Services, caps[s] # None, caps'[s] = None
               PROVE  \E p \in MonLeaders : wants[p] = s
    OBVIOUS
  <2>1. caps' # caps
    OBVIOUS
  <2>2. CASE \E p \in Proxies : BrokerStep(p)
    BY <2>2, OperationsNarrow DEF BrokerStep, KeysInv
  <2>3. CASE \E p \in Proxies, fault \in BOOLEAN : UpgradeCaps(p, fault)
    <3>1. PICK p \in Proxies, fault \in BOOLEAN : UpgradeCaps(p, fault)
      BY <2>3
    <3>2. p \in MonLeaders
      BY <3>1 DEF UpgradeCaps, KeysInv, LeaderInv
    <3>3. wants[p] = s
      BY <3>1 DEF UpgradeCaps, KeysInv, TypeInv, TypeOK
    <3> QED
      BY <3>2, <3>3
  <2> QED
    BY <2>1, <2>2, <2>3
       DEF NamedKeysNext, Ask, GetKey, CreateKey, CapsOfNoKey, vars, cluster
<1> QED
  BY InitKeys, NextKeys, <1>1, PTL DEF NamedKeysSpec, NarrowedStaysNarrowed

-----------------------------------------------------------------------------
\* The keys that hooks hand out keep to what was asked for as well: a hook that
\* resets a key leaves it without the capabilities of groups.
LEMMA NextOpened ==
  Plain /\ KeysInv /\ AccessInv /\ [NamedKeysNext]_allVars => AccessInv'
<1> SUFFICES ASSUME Plain, KeysInv, AccessInv, [NamedKeysNext]_allVars PROVE AccessInv'
  OBVIOUS
<1>1. TypeInv'
  BY NextKeys DEF KeysInv
<1>2. CASE UNCHANGED vars
  BY <1>2, OperationsStay
<1>3. CASE \E p \in Proxies : BrokerStep(p)
  BY <1>3, NextAccess DEF BrokerStep, Next
<1>4. ASSUME NEW p \in Proxies, NEW fault \in BOOLEAN, UpgradeCaps(p, fault)
      PROVE  AccessInv'
  <2>1. UNCHANGED <<groups, services, local, started>>
    BY <1>4 DEF UpgradeCaps, history
  <2>2. StoreInv'
    BY <2>1 DEF AccessInv, StoreInv, PoolAsked, NameAsked
  <2>3. CopyInv' /\ GrantInv'
    BY <2>1 DEF AccessInv, CopyInv, CopyOK, GrantInv, PoolAsked, NameAsked, AskedFor, local
  <2>4. \A s \in Services : caps'[s] \in {caps[s], None}
    BY <1>4 DEF UpgradeCaps, KeysInv, TypeInv, TypeOK
  <2>5. NoUnaskedAccess'
    BY <2>1, <2>4 DEF AccessInv, NoUnaskedAccess, AskedFor
  <2> QED
    BY <1>1, <2>2, <2>3, <2>5 DEF AccessInv
<1>5. ASSUME NEW p \in Proxies, CapsOfNoKey(p)
      PROVE  AccessInv'
  <2>1. /\ UNCHANGED <<groups, services, caps, started, doing, myGroup, myNames, unread, grants,
                       current>>
        /\ \A q \in Proxies : step'[q] \in {step[q], "next_service"}
    BY <1>5 DEF CapsOfNoKey, GoTo, cluster, history, AccessInv, TypeInv, TypeOK
  <2>2. StoreInv' /\ NoUnaskedAccess'
    BY <2>1, StoreStays DEF AccessInv
  <2>3. CopyInv' /\ GrantInv'
    BY <2>1 DEF AccessInv, CopyInv, CopyOK, GrantInv, PoolAsked, NameAsked, AskedFor
  <2> QED
    BY <1>1, <2>2, <2>3 DEF AccessInv
<1> QED
  BY <1>2, <1>3, <1>4, <1>5 DEF NamedKeysNext, allVars, Ask, GetKey, CreateKey

\* As long as requests carry no namespace, no key has access to a pool its
\* service was not meant to have, whichever units hand out, reset and narrow it.
THEOREM HandedOutAccess == Plain /\ NamedKeysSpec => []NoUnaskedAccess
<1>1. Plain => []Plain
  <2>1. Plain => Plain'
    BY DEF Plain
  <2> QED
    BY <2>1, PTL
<1>2. NamedKeysInit => KeysInv /\ AccessInv
  BY InitKeys, InitAccess DEF NamedKeysInit
<1>3. Plain /\ KeysInv /\ AccessInv /\ [NamedKeysNext]_allVars => KeysInv' /\ AccessInv'
  BY NextKeys, NextOpened
<1>4. AccessInv => NoUnaskedAccess
  BY DEF AccessInv
<1> QED
  BY <1>1, <1>2, <1>3, <1>4, PTL DEF NamedKeysSpec
=============================================================================
