--------------------------- MODULE KeyGroupsProofs ---------------------------
(***************************************************************************)
(* Proofs about KeyGroups, for any number of proxies, operations and       *)
(* faults: the types, and that no key gains access its service was not     *)
(* meant to have.  And for one proxy whose reads do not fail, however      *)
(* often its operations are cut short: what was acknowledged stays stored, *)
(* keys only gain, and when nothing is left to repeat they grant what the  *)
(* groups say.                                                             *)
(***************************************************************************)
EXTENDS KeyGroups, SequenceTheorems, TLAPS

\* What an operation carries, by its name.
LEMMA OpFields ==
  ASSUME NEW o \in Ops
  PROVE  /\ o.op \in {"add-permissions", "add-pool"}
         /\ Key(o) \in GroupKeys
         /\ o.op = "add-pool" => o.pool \in Pools
         /\ o.op = "add-permissions" => o.service \in Services /\ o.perm \in Perms
         /\ o # None
BY KeyGroupsAssumption DEF OpType, GroupKeys

\* A group, stored or not, read well or not, is a group.
LEMMA GetGroupType ==
  ASSUME TypeOK, NEW k, NEW fault \in BOOLEAN
  PROVE  GetGroup(k, fault) \in Group
BY DEF TypeOK, GetGroup, Get, Group, EmptyGroup

\* The group an operation writes back is a group.
LEMMA GrownType ==
  ASSUME NEW o \in Ops, NEW g \in Group
  PROVE  Grown(g, o) \in Group
BY OpFields DEF Grown, Group

\* The commands between the reading and the saving of a service belong to
\* handle_add_permissions_to_key.
StepInv ==
  \A p \in Proxies :
    /\ step[p] \in {"get_service", "save_service"} => doing[p].op = "add-permissions"
    /\ step[p] = "get_groups" => current[p] \in Services

TypeInv == TypeOK /\ StepInv

LEMMA InitType == Init => TypeInv
<1> SUFFICES ASSUME Init PROVE TypeInv
  OBVIOUS
<1>1. EmptyGroup \in Group
  BY DEF EmptyGroup, Group
<1>2. groups \in [GroupKeys -> Group] /\ myGroup \in [Proxies -> Group]
  BY <1>1 DEF Init
<1>3. \A m \in Nat : 0 \in 0 .. m
  OBVIOUS
<1>4. /\ services \in [Services -> SUBSET Names]
      /\ caps \in [Services -> (SUBSET Grants) \union {None}]
      /\ doing \in [Proxies -> Ops \union {None}]
      /\ current \in [Proxies -> Services \union {None}]
  BY DEF Init
<1>5. /\ step \in [Proxies -> Steps]
      /\ \A p \in Proxies : step[p] = "idle"
  BY DEF Init, Steps
<1>6. /\ myNames \in [Proxies -> SUBSET Names]
      /\ unread \in [Proxies -> SUBSET Names]
      /\ grants \in [Proxies -> SUBSET Grants]
      /\ toUpdate \in [Proxies -> SUBSET Services]
  BY DEF Init
<1>7. /\ nops \in 0 .. MaxOps
      /\ readFaults \in 0 .. MaxReadFaults
      /\ aborts \in 0 .. MaxAborts
      /\ capsFaults \in 0 .. MaxCapsFaults
  BY <1>3, KeyGroupsAssumption DEF Init
<1> QED
  BY <1>2, <1>4, <1>5, <1>6, <1>7 DEF Init, TypeInv, TypeOK, StepInv

LEMMA NextType == TypeInv /\ [Next]_vars => TypeInv'
<1> SUFFICES ASSUME TypeInv, [Next]_vars PROVE TypeInv'
  OBVIOUS
<1> USE DEF TypeInv, StepInv
<1>1. ASSUME NEW p \in Proxies, NEW o \in Ops, NEW fault \in BOOLEAN,
             Start(p, o, fault)
      PROVE  TypeInv'
  <2>1. GetGroup(Key(o), fault) \in Group
    BY GetGroupType
  <2>2. o.op \in {"add-permissions", "add-pool"} /\ o # None
    BY OpFields
  <2>3. nops' \in 0 .. MaxOps
    BY <1>1, KeyGroupsAssumption DEF Start, TypeOK
  <2>4. readFaults' \in 0 .. MaxReadFaults
    BY <1>1, KeyGroupsAssumption DEF Start, Faulty, TypeOK
  <2> QED
    BY <1>1, <2>1, <2>2, <2>3, <2>4
       DEF Start, Faulty, GoTo, TypeOK, Steps, cluster
<1>2. ASSUME NEW p \in Proxies, NEW fault \in BOOLEAN, GetService(p, fault)
      PROVE  TypeInv'
  <2>1. doing[p] \in Ops /\ doing[p].op = "add-permissions"
    BY <1>2 DEF GetService, TypeOK
  <2>2. Get(services[doing[p].service], {}, fault) \in SUBSET Names
    BY <2>1, OpFields DEF TypeOK, Get
  <2>3. readFaults' \in 0 .. MaxReadFaults
    BY <1>2, KeyGroupsAssumption DEF GetService, Faulty, TypeOK
  <2> QED
    BY <1>2, <2>1, <2>2, <2>3
       DEF GetService, Faulty, GoTo, TypeOK, Steps, cluster, history
<1>3. ASSUME NEW p \in Proxies, SaveGroup(p)
      PROVE  TypeInv'
  <2>1. doing[p] \in Ops
    BY <1>3 DEF SaveGroup, TypeOK
  <2>2. Grown(myGroup[p], doing[p]) \in Group
    BY <2>1, GrownType DEF TypeOK
  <2>3. Members(myGroup[p]) \in SUBSET Services
    BY DEF TypeOK, Group, Members
  <2>4. doing[p].op \in {"add-permissions", "add-pool"}
    BY <2>1, OpFields
  <2> DEFINE g == Grown(myGroup[p], doing[p])
  <2>5. /\ groups' = [groups EXCEPT ![Key(doing[p])] = g]
        /\ UNCHANGED <<services, caps, doing, myGroup, myNames, unread, grants,
                       current, history, faults>>
    BY <1>3 DEF SaveGroup
  <2>6. groups' \in [GroupKeys -> Group]
    BY <2>2, <2>5 DEF TypeOK
  <2> HIDE DEF g
  <2>7. /\ toUpdate' \in [Proxies -> SUBSET Services]
        /\ step' \in [Proxies -> Steps]
        /\ \A q \in Proxies \ {p} : step'[q] = step[q]
        /\ step'[p] = "save_service" => doing[p].op = "add-permissions"
        /\ step'[p] \in {"next_service", "save_service"}
    <3>1. CASE doing[p].op = "add-pool"
      BY <1>3, <2>3, <3>1 DEF SaveGroup, GoTo, TypeOK, Steps
    <3>2. CASE doing[p].op = "add-permissions"
      BY <1>3, <3>2 DEF SaveGroup, GoTo, TypeOK, Steps
    <3> QED
      BY <2>4, <3>1, <3>2
  <2> QED
    BY <2>1, <2>5, <2>6, <2>7 DEF TypeOK, history, faults
<1>4. ASSUME NEW p \in Proxies, SaveService(p)
      PROVE  TypeInv'
  <2>1. doing[p] \in Ops /\ doing[p].op = "add-permissions"
    BY <1>4 DEF SaveService, TypeOK
  <2>2. doing[p].service \in Services /\ <<doing[p].perm, Key(doing[p])>> \in Names
    BY <2>1, OpFields DEF Names
  <2>3. myNames[p] \union {<<doing[p].perm, Key(doing[p])>>} \in SUBSET Names
    BY <2>2 DEF TypeOK
  <2> DEFINE n == myNames[p] \union {<<doing[p].perm, Key(doing[p])>>}
  <2>4. services' = [services EXCEPT ![doing[p].service] = n]
    BY <1>4 DEF SaveService
  <2>5. services' \in [Services -> SUBSET Names]
    BY <2>3, <2>4 DEF TypeOK
  <2>6. unread' = [unread EXCEPT ![p] = n] /\ grants' = [grants EXCEPT ![p] = {}]
    BY <1>4 DEF SaveService, Collect
  <2>7. /\ unread' \in [Proxies -> SUBSET Names]
        /\ grants' \in [Proxies -> SUBSET Grants]
    BY <2>3, <2>6 DEF TypeOK
  <2>8. /\ current' = [current EXCEPT ![p] = doing[p].service]
        /\ current' \in [Proxies -> Services \union {None}]
    BY <1>4, <2>2 DEF SaveService, Collect, TypeOK
  <2>9. /\ step' = [step EXCEPT ![p] = "get_groups"]
        /\ step' \in [Proxies -> Steps]
    BY <1>4 DEF SaveService, GoTo, TypeOK, Steps
  <2>10. UNCHANGED <<groups, caps, doing, myGroup, myNames, toUpdate, history,
                     faults>>
    BY <1>4 DEF SaveService
  <2> HIDE DEF n
  <2> QED
    BY <2>1, <2>2, <2>5, <2>7, <2>8, <2>9, <2>10 DEF TypeOK, history, faults
<1>5. ASSUME NEW p \in Proxies, NEW s \in Services, NEW fault \in BOOLEAN,
             NextService(p, s, fault)
      PROVE  TypeInv'
  <2>1. Get(services[s], {}, fault) \in SUBSET Names
    BY DEF TypeOK, Get
  <2>2. readFaults' \in 0 .. MaxReadFaults
    BY <1>5, KeyGroupsAssumption DEF NextService, Faulty, TypeOK
  <2> QED
    BY <1>5, <2>1, <2>2
       DEF NextService, Collect, Faulty, GoTo, TypeOK, Steps, cluster, history
<1>6. ASSUME NEW p \in Proxies, NEW n \in Names, NEW fault \in BOOLEAN,
             ReadGroup(p, n, fault)
      PROVE  TypeInv'
  <2> DEFINE g == GetGroup(doing[p].ns \o n[2], fault)
  <2>1. g \in Group
    BY GetGroupType
  <2>2. {n[1]} \X g.pools \in SUBSET Grants
    BY <2>1 DEF Group, Names, Grants
  <2>3. grants' = [grants EXCEPT ![p] = @ \union ({n[1]} \X g.pools)]
    BY <1>6 DEF ReadGroup
  <2>4. grants' \in [Proxies -> SUBSET Grants]
    BY <2>2, <2>3 DEF TypeOK
  <2>5. readFaults' \in 0 .. MaxReadFaults
    BY <1>6, KeyGroupsAssumption DEF ReadGroup, Faulty, TypeOK
  <2> QED
    BY <1>6, <2>4, <2>5 DEF ReadGroup, Faulty, TypeOK, Steps, cluster, history
<1>7. ASSUME NEW p \in Proxies, NEW fault \in BOOLEAN, SetCaps(p, fault)
      PROVE  TypeInv'
  <2>1. capsFaults' \in 0 .. MaxCapsFaults
    BY <1>7, KeyGroupsAssumption DEF SetCaps, TypeOK
  <2>2. caps' \in [Services -> (SUBSET Grants) \union {None}]
    BY <1>7 DEF SetCaps, TypeOK
  <2> QED
    BY <1>7, <2>1, <2>2 DEF SetCaps, GoTo, TypeOK, Steps, history
<1>8. ASSUME NEW p \in Proxies, Finish(p)
      PROVE  TypeInv'
  BY <1>8 DEF Finish, GoTo, TypeOK, Steps, cluster, faults
<1>9. ASSUME NEW p \in Proxies, Abort(p)
      PROVE  TypeInv'
  <2>1. aborts' \in 0 .. MaxAborts
    BY <1>9, KeyGroupsAssumption DEF Abort, TypeOK
  <2> QED
    BY <1>9, <2>1 DEF Abort, GoTo, TypeOK, Steps, cluster
<1>10. CASE UNCHANGED vars
  BY <1>10 DEF vars, cluster, local, history, faults, TypeOK
<1> QED
  BY <1>1, <1>2, <1>3, <1>4, <1>5, <1>6, <1>7, <1>8, <1>9, <1>10
     DEF Next, Proxy

\* Every variable keeps its type, and a command finds the operation it
\* belongs to.
THEOREM TypeCorrect == Spec => []TypeOK
<1>1. Spec => []TypeInv
  BY InitType, NextType, PTL DEF Spec
<1> QED
  BY <1>1, PTL DEF TypeInv
-----------------------------------------------------------------------------
(* Where a capability comes from.                                          *)

PoolAsked(k, pool) ==
  \E o \in started : o.op = "add-pool" /\ o.pool = pool /\ Key(o) = k

NameAsked(s, n) ==
  \E o \in started : /\ o.op = "add-permissions" /\ o.service = s
                     /\ o.perm = n[1] /\ Key(o) = n[2]

\* What the store holds was asked for.
StoreInv ==
  /\ \A k \in GroupKeys : \A pool \in groups[k].pools : PoolAsked(k, pool)
  /\ \A s \in Services : \A n \in services[s] : NameAsked(s, n)

\* So was what a proxy holds of it, for as long as it uses it.
CopyOK(p) ==
  /\ doing[p] # None => doing[p] \in started
  /\ step[p] \in {"get_service", "save_group"} =>
       \A pool \in myGroup[p].pools : PoolAsked(Key(doing[p]), pool)
  /\ step[p] \in {"save_group", "save_service"}
       /\ doing[p].op = "add-permissions" =>
         \A n \in myNames[p] : NameAsked(doing[p].service, n)

CopyInv == \A p \in Proxies : CopyOK(p)

\* And what it collects for the key it is about to set.
GrantInv ==
  \A p \in Proxies : step[p] = "get_groups" =>
    /\ \A n \in unread[p] : NameAsked(current[p], n)
    /\ \A g \in grants[p] : AskedFor(current[p], g[1], g[2])

AccessInv == TypeInv /\ StoreInv /\ CopyInv /\ GrantInv /\ NoUnaskedAccess

Plain == \A o \in Ops : o.ns = <<>>

\* What was asked for stays asked for.
LEMMA AskedStays ==
  ASSUME started \subseteq started'
  PROVE  /\ \A k, pool : PoolAsked(k, pool) => PoolAsked(k, pool)'
         /\ \A s, n : NameAsked(s, n) => NameAsked(s, n)'
         /\ \A s, perm, pool : AskedFor(s, perm, pool) => AskedFor(s, perm, pool)'
BY DEF PoolAsked, NameAsked, AskedFor

\* A name of the service and a pool of its group make a grant.
LEMMA GrantAsked ==
  ASSUME NEW s, NEW n, NEW pool, NameAsked(s, n), PoolAsked(n[2], pool)
  PROVE  AskedFor(s, n[1], pool)
BY DEF PoolAsked, NameAsked, AskedFor

\* Without namespaces _build_service_groups reads the group it is meant to.
LEMMA PlainKey ==
  ASSUME Plain, NEW o \in Ops, NEW k \in GroupKeys
  PROVE  o.ns \o k = k
<1>1. PICK o1 \in Ops : k = o1.ns \o <<o1.group>>
  BY DEF GroupKeys, Key
<1>2. <<>> \in Seq({o1.group}) /\ <<o1.group>> \in Seq({o1.group})
  OBVIOUS
<1>3. k = <<o1.group>>
  BY <1>1, <1>2, ConcatEmptySeq DEF Plain
<1> QED
  BY <1>2, <1>3, ConcatEmptySeq DEF Plain

\* A group that was read holds pools that were asked for.
LEMMA GetGroupAsked ==
  ASSUME StoreInv, NEW k \in GroupKeys, NEW fault,
         NEW pool \in GetGroup(k, fault).pools
  PROVE  PoolAsked(k, pool)
<1>1. pool \in groups[k].pools
  BY DEF GetGroup, Get, EmptyGroup
<1> QED
  BY <1>1 DEF StoreInv

LEMMA InitAccess == Init => AccessInv
<1> SUFFICES ASSUME Init PROVE AccessInv
  OBVIOUS
<1>1. TypeInv
  BY InitType
<1>2. StoreInv
  BY DEF Init, StoreInv, EmptyGroup
<1>3. CopyInv /\ GrantInv
  BY DEF Init, CopyInv, CopyOK, GrantInv
<1>4. NoUnaskedAccess
  BY DEF Init, NoUnaskedAccess
<1> QED
  BY <1>1, <1>2, <1>3, <1>4 DEF AccessInv

\* Steps that leave store and history alone.
LEMMA StoreStays ==
  ASSUME StoreInv, NoUnaskedAccess, started \subseteq started',
         UNCHANGED <<groups, services, caps>>
  PROVE  StoreInv' /\ NoUnaskedAccess'
BY AskedStays DEF StoreInv, NoUnaskedAccess

LEMMA NextAccess == Plain /\ AccessInv /\ [Next]_vars => AccessInv'
<1> SUFFICES ASSUME Plain, AccessInv, [Next]_vars PROVE AccessInv'
  OBVIOUS
<1>t. TypeInv /\ TypeInv'
  BY NextType DEF AccessInv
<1>s. StoreInv /\ CopyInv /\ GrantInv /\ NoUnaskedAccess
  BY DEF AccessInv
<1>1. ASSUME NEW p \in Proxies, NEW o \in Ops, NEW fault \in BOOLEAN,
             Start(p, o, fault)
      PROVE  AccessInv'
  <2>1. started \subseteq started'
    BY <1>1 DEF Start
  <2>2. StoreInv' /\ NoUnaskedAccess'
    BY <1>1, <1>s, <2>1, StoreStays DEF Start, cluster
  <2>3. CopyInv'
    <3> SUFFICES ASSUME NEW q \in Proxies PROVE CopyOK(q)'
      BY DEF CopyInv
    <3>1. CASE q # p
      <4>1. /\ doing'[q] = doing[q] /\ step'[q] = step[q]
            /\ myGroup'[q] = myGroup[q] /\ myNames'[q] = myNames[q]
        BY <1>1, <1>t, <3>1 DEF Start, GoTo, TypeInv, TypeOK
      <4> QED
        BY <1>s, <2>1, <4>1, AskedStays DEF CopyInv, CopyOK
    <3>2. CASE q = p
      <4>1. /\ doing'[p] = o /\ o \in started'
            /\ myGroup'[p] = GetGroup(Key(o), fault)
            /\ step'[p] = IF o.op = "add-pool" THEN "save_group" ELSE "get_service"
        BY <1>1, <1>t DEF Start, GoTo, TypeInv, TypeOK
      <4>2. \A pool \in GetGroup(Key(o), fault).pools : PoolAsked(Key(o), pool)'
        BY <1>s, <2>1, OpFields, GetGroupAsked, AskedStays
      <4> QED
        BY <3>2, <4>1, <4>2, OpFields DEF CopyOK
    <3> QED
      BY <3>1, <3>2
  <2>4. GrantInv'
    BY <1>1, <1>s, <1>t, <2>1, AskedStays DEF Start, GoTo, GrantInv, TypeInv, TypeOK
  <2> QED
    BY <1>t, <2>2, <2>3, <2>4 DEF AccessInv
<1>2. ASSUME NEW p \in Proxies, NEW fault \in BOOLEAN, GetService(p, fault)
      PROVE  AccessInv'
  <2>1. started' = started /\ doing' = doing /\ myGroup' = myGroup
    BY <1>2 DEF GetService, history
  <2>2. StoreInv' /\ NoUnaskedAccess'
    BY <1>2, <1>s, <2>1, StoreStays DEF GetService, cluster
  <2>3. doing[p] \in Ops /\ doing[p].service \in Services
    BY <1>2, <1>t, OpFields DEF GetService, TypeInv, StepInv, TypeOK
  <2>4. \A n \in myNames'[p] : NameAsked(doing[p].service, n)
    BY <1>2, <1>s, <1>t, <2>3 DEF GetService, Get, StoreInv, TypeInv, TypeOK
  <2>5. CopyInv'
    BY <1>2, <1>s, <1>t, <2>1, <2>4, AskedStays
       DEF GetService, GoTo, CopyInv, CopyOK, TypeInv, TypeOK
  <2>6. GrantInv'
    BY <1>2, <1>s, <1>t, <2>1, AskedStays
       DEF GetService, GoTo, GrantInv, TypeInv, TypeOK
  <2> QED
    BY <1>t, <2>2, <2>5, <2>6 DEF AccessInv
<1>3. ASSUME NEW p \in Proxies, SaveGroup(p)
      PROVE  AccessInv'
  <2> DEFINE o == doing[p]
  <2>1. started' = started /\ doing' = doing /\ myNames' = myNames
    BY <1>3 DEF SaveGroup, history
  <2>2. o \in Ops /\ o \in started
    BY <1>3, <1>s, <1>t, OpFields DEF SaveGroup, TypeInv, TypeOK, CopyInv, CopyOK
  <2>3. groups' = [groups EXCEPT ![Key(o)] = Grown(myGroup[p], o)]
    BY <1>3 DEF SaveGroup
  <2>4. myGroup[p] \in Group /\ \A pool \in myGroup[p].pools : PoolAsked(Key(o), pool)
    BY <1>3, <1>s, <1>t DEF SaveGroup, CopyInv, CopyOK, TypeInv, TypeOK
  <2>5. \A pool \in Grown(myGroup[p], o).pools : PoolAsked(Key(o), pool)
    BY <2>2, <2>4 DEF Grown, PoolAsked, Group
  <2>6. \A k \in GroupKeys : \A pool \in groups'[k].pools : PoolAsked(k, pool)
    BY <1>s, <1>t, <2>2, <2>3, <2>5, OpFields DEF StoreInv, TypeInv, TypeOK
  <2>7. StoreInv'
    BY <1>3, <1>s, <2>1, <2>6, AskedStays DEF StoreInv, SaveGroup
  <2>8. NoUnaskedAccess'
    BY <1>3, <1>s, <2>1, AskedStays DEF NoUnaskedAccess, SaveGroup
  <2>9. \A q \in Proxies :
          /\ step'[q] = step[q] \/ (q = p /\ step'[q] \in {"next_service", "save_service"})
          /\ step'[q] \in {"get_service", "save_group", "get_groups"} => step'[q] = step[q]
    <3>1. CASE o.op = "add-pool"
      <4>1. step' = [step EXCEPT ![p] = "next_service"]
        BY <1>3, <3>1 DEF SaveGroup, GoTo
      <4> QED
        BY <1>t, <4>1 DEF TypeInv, TypeOK
    <3>2. CASE o.op # "add-pool"
      <4>1. step' = [step EXCEPT ![p] = "save_service"]
        BY <1>3, <3>2 DEF SaveGroup, GoTo
      <4> QED
        BY <1>t, <4>1 DEF TypeInv, TypeOK
    <3> QED
      BY <3>1, <3>2
  <2>10. step[p] = "save_group" /\ myGroup' = myGroup
    BY <1>3 DEF SaveGroup
  <2>11. CopyInv'
    BY <1>s, <2>1, <2>9, <2>10, AskedStays DEF CopyInv, CopyOK
  <2>12. unread' = unread /\ grants' = grants /\ current' = current
    BY <1>3 DEF SaveGroup
  <2>13. GrantInv'
    BY <1>s, <2>1, <2>9, <2>12, AskedStays DEF GrantInv
  <2> QED
    BY <1>t, <2>7, <2>8, <2>11, <2>13 DEF AccessInv
<1>4. ASSUME NEW p \in Proxies, SaveService(p)
      PROVE  AccessInv'
  <2> DEFINE o == doing[p]
             n == myNames[p] \union {<<o.perm, Key(o)>>}
  <2>1. started' = started /\ doing' = doing /\ myNames' = myNames /\ myGroup' = myGroup
    BY <1>4 DEF SaveService, history
  <2>2. /\ o \in Ops /\ o \in started
        /\ o.op = "add-permissions" /\ o.service \in Services
    BY <1>4, <1>s, <1>t, OpFields DEF SaveService, TypeInv, StepInv, TypeOK, CopyInv, CopyOK
  <2>3. \A m \in n : NameAsked(o.service, m)
    BY <1>4, <1>s, <2>2 DEF SaveService, CopyInv, CopyOK, NameAsked
  <2>4. services' = [services EXCEPT ![o.service] = n] /\ groups' = groups /\ caps' = caps
    BY <1>4 DEF SaveService
  <2>5. /\ current' = [current EXCEPT ![p] = o.service]
        /\ unread' = [unread EXCEPT ![p] = n]
        /\ grants' = [grants EXCEPT ![p] = {}]
        /\ step' = [step EXCEPT ![p] = "get_groups"]
    BY <1>4 DEF SaveService, Collect, GoTo
  <2> HIDE DEF n
  <2>6. \A s \in Services : \A m \in services'[s] : NameAsked(s, m)
    BY <1>s, <1>t, <2>2, <2>3, <2>4 DEF StoreInv, TypeInv, TypeOK
  <2>7. StoreInv'
    BY <1>s, <2>1, <2>4, <2>6, AskedStays DEF StoreInv
  <2>8. NoUnaskedAccess'
    BY <1>s, <2>1, <2>4, AskedStays DEF NoUnaskedAccess
  <2>9. CopyInv'
    BY <1>s, <1>t, <2>1, <2>5, AskedStays DEF CopyInv, CopyOK, TypeInv, TypeOK
  <2>10. GrantInv'
    BY <1>s, <1>t, <2>1, <2>3, <2>5, AskedStays DEF GrantInv, TypeInv, TypeOK
  <2> QED
    BY <1>t, <2>7, <2>8, <2>9, <2>10 DEF AccessInv
<1>5. ASSUME NEW p \in Proxies, NEW s \in Services, NEW fault \in BOOLEAN,
             NextService(p, s, fault)
      PROVE  AccessInv'
  <2>1. started' = started /\ doing' = doing /\ myNames' = myNames /\ myGroup' = myGroup
    BY <1>5 DEF NextService, history
  <2>2. StoreInv' /\ NoUnaskedAccess'
    BY <1>5, <1>s, <2>1, StoreStays DEF NextService, cluster
  <2>3. \A m \in Get(services[s], {}, fault) : NameAsked(s, m)
    BY <1>s DEF StoreInv, Get
  <2>4. /\ current' = [current EXCEPT ![p] = s]
        /\ unread' = [unread EXCEPT ![p] = Get(services[s], {}, fault)]
        /\ grants' = [grants EXCEPT ![p] = {}]
        /\ step' = [step EXCEPT ![p] = "get_groups"]
    BY <1>5 DEF NextService, Collect, GoTo
  <2>5. CopyInv'
    BY <1>s, <1>t, <2>1, <2>4, AskedStays DEF CopyInv, CopyOK, TypeInv, TypeOK
  <2>6. GrantInv'
    BY <1>s, <1>t, <2>1, <2>3, <2>4, AskedStays DEF GrantInv, TypeInv, TypeOK
  <2> QED
    BY <1>t, <2>2, <2>5, <2>6 DEF AccessInv
<1>6. ASSUME NEW p \in Proxies, NEW n \in Names, NEW fault \in BOOLEAN,
             ReadGroup(p, n, fault)
      PROVE  AccessInv'
  <2> DEFINE k == doing[p].ns \o n[2]
             g == GetGroup(k, fault)
  <2>1. /\ started' = started /\ doing' = doing /\ myNames' = myNames
        /\ myGroup' = myGroup /\ step' = step /\ current' = current
    BY <1>6 DEF ReadGroup, history
  <2>2. StoreInv' /\ NoUnaskedAccess'
    BY <1>6, <1>s, <2>1, StoreStays DEF ReadGroup, cluster
  <2>3. step[p] = "get_groups" /\ n \in unread[p]
    BY <1>6 DEF ReadGroup
  <2>4. n[2] \in GroupKeys /\ doing[p] \in Ops
    BY <1>t, <2>3 DEF Names, TypeInv, TypeOK
  <2>5. k = n[2]
    BY <2>4, PlainKey
  <2>6. NameAsked(current[p], n)
    BY <1>s, <2>3 DEF GrantInv
  <2> HIDE DEF k
  <2>7. \A pool \in g.pools : AskedFor(current[p], n[1], pool)
    BY <1>s, <2>4, <2>5, <2>6, GetGroupAsked, GrantAsked
  <2>8. /\ unread' = [unread EXCEPT ![p] = @ \ {n}]
        /\ grants' = [grants EXCEPT ![p] = @ \union ({n[1]} \X g.pools)]
    BY <1>6 DEF ReadGroup, k
  <2> HIDE DEF g
  <2>9. \A x \in grants'[p] : AskedFor(current[p], x[1], x[2])
    BY <1>s, <1>t, <2>3, <2>7, <2>8 DEF GrantInv, TypeInv, TypeOK
  <2>10. CopyInv'
    BY <1>s, <2>1, AskedStays DEF CopyInv, CopyOK
  <2>11. \A q \in Proxies : step[q] = "get_groups" =>
           /\ \A m \in unread'[q] : NameAsked(current[q], m)
           /\ \A x \in grants'[q] : AskedFor(current[q], x[1], x[2])
    BY <1>s, <1>t, <2>8, <2>9 DEF GrantInv, TypeInv, TypeOK
  <2>12. GrantInv'
    BY <2>1, <2>11, AskedStays DEF GrantInv
  <2> QED
    BY <1>t, <2>2, <2>10, <2>12 DEF AccessInv
<1>7. ASSUME NEW p \in Proxies, NEW fault \in BOOLEAN, SetCaps(p, fault)
      PROVE  AccessInv'
  <2>1. /\ started' = started /\ doing' = doing /\ myNames' = myNames
        /\ myGroup' = myGroup /\ unread' = unread /\ grants' = grants
        /\ current' = current /\ groups' = groups /\ services' = services
        /\ step' = [step EXCEPT ![p] = "next_service"]
        /\ step[p] = "get_groups"
    BY <1>7 DEF SetCaps, GoTo, history
  <2>2. StoreInv'
    BY <1>s, <2>1, AskedStays DEF StoreInv
  <2>3. CopyInv' /\ GrantInv'
    BY <1>s, <1>t, <2>1, AskedStays DEF CopyInv, CopyOK, GrantInv, TypeInv, TypeOK
  <2>4. \A g \in grants[p] : AskedFor(current[p], g[1], g[2])
    BY <1>s, <2>1 DEF GrantInv
  <2>5. \A s \in Services : caps'[s] = caps[s] \/ (s = current[p] /\ caps'[s] = grants[p])
    <3>1. caps' = caps \/ caps' = [caps EXCEPT ![current[p]] = grants[p]]
      BY <1>7 DEF SetCaps
    <3> QED
      BY <1>t, <3>1 DEF TypeInv, TypeOK
  <2>6. \A s \in Services : caps'[s] # None =>
          \A g \in caps'[s] : AskedFor(s, g[1], g[2])
    BY <1>s, <2>4, <2>5 DEF NoUnaskedAccess
  <2>7. NoUnaskedAccess'
    BY <2>1, <2>6, AskedStays DEF NoUnaskedAccess
  <2> QED
    BY <1>t, <2>2, <2>3, <2>7 DEF AccessInv
<1>8. ASSUME NEW p \in Proxies, Finish(p) \/ Abort(p)
      PROVE  AccessInv'
  <2>1. /\ started' = started /\ myNames' = myNames /\ current' = current
        /\ myGroup' = myGroup /\ unread' = unread /\ grants' = grants
        /\ UNCHANGED <<groups, services, caps>>
        /\ doing' = [doing EXCEPT ![p] = None]
        /\ step' = [step EXCEPT ![p] = "idle"]
    BY <1>8 DEF Finish, Abort, GoTo, cluster
  <2>2. StoreInv' /\ NoUnaskedAccess'
    BY <1>s, <2>1, StoreStays
  <2>3. CopyInv' /\ GrantInv'
    BY <1>s, <1>t, <2>1, AskedStays DEF CopyInv, CopyOK, GrantInv, TypeInv, TypeOK
  <2> QED
    BY <1>t, <2>2, <2>3 DEF AccessInv
<1>9. CASE UNCHANGED vars
  <2>1. UNCHANGED <<groups, services, caps, doing, step, myGroup, myNames, unread,
                    grants, current, started>>
    BY <1>9 DEF vars, cluster, local, history
  <2>2. StoreInv' /\ NoUnaskedAccess'
    BY <1>s, <2>1, StoreStays
  <2>3. CopyInv' /\ GrantInv'
    BY <1>s, <2>1, AskedStays DEF CopyInv, CopyOK, GrantInv
  <2> QED
    BY <1>t, <2>2, <2>3 DEF AccessInv
<1> QED
  BY <1>1, <1>2, <1>3, <1>4, <1>5, <1>6, <1>7, <1>8, <1>9 DEF Next, Proxy

\* Whatever the number of proxies and however their read-modify-write cycles
\* interleave, fail or are cut short: as long as requests carry no namespace,
\* no key gains access to a pool its service was not meant to have.
THEOREM AccessAsked == Plain /\ Spec => []NoUnaskedAccess
<1>1. Plain => []Plain
  <2>1. Plain => Plain'
    BY DEF Plain
  <2> QED
    BY <2>1, PTL
<1>2. Init => AccessInv
  BY InitAccess
<1>3. Plain /\ AccessInv /\ [Next]_vars => AccessInv'
  BY NextAccess
<1>4. AccessInv => NoUnaskedAccess
  BY DEF AccessInv
<1> QED
  BY <1>1, <1>2, <1>3, <1>4, PTL DEF Spec
-----------------------------------------------------------------------------
(* What one proxy leaves in the store.                                     *)

\* One proxy handles the requests, and reads of the store do not fail.
Serial == \A p, q \in Proxies : p = q
Reliable == Serial /\ MaxReadFaults = 0

\* What a proxy reads of the store stays what is there while it uses it.
CopyExact(p) ==
  /\ step[p] \in {"get_service", "save_group"} => myGroup[p] = groups[Key(doing[p])]
  /\ step[p] \in {"save_group", "save_service"} /\ doing[p].op = "add-permissions" =>
       myNames[p] = services[doing[p].service]

\* The part of an operation that its write of the group stores.
GroupStored(o) ==
  IF o.op = "add-pool" THEN o.pool \in groups[Key(o)].pools
                       ELSE o.service \in groups[Key(o)].services

\* What the running operation has written is there.
Written(p) ==
  /\ step[p] = "save_service" => GroupStored(doing[p])
  /\ step[p] \in {"get_groups", "next_service"} => Stored(doing[p])

\* A service that names a group is a member of it.
NamedIsMember ==
  \A s \in Services : \A n \in services[s] : s \in groups[n[2]].services

\* What is collected for a key is what its service is entitled to, as far as
\* the groups have been read; with namespaces other groups than those are read.
GrantsExact(p) ==
  Plain /\ step[p] = "get_groups" =>
    grants[p] \union UNION {{n[1]} \X groups[n[2]].pools : n \in unread[p]}
      = Entitled(current[p])

\* No key grants more than that.
CapsEntitled ==
  Plain => \A s \in Services : caps[s] # None => caps[s] \subseteq Entitled(s)

SerialInv ==
  /\ AckedIsStored
  /\ NamedIsMember
  /\ CapsEntitled
  /\ \A p \in Proxies : CopyExact(p) /\ Written(p) /\ GrantsExact(p)

\* With one proxy and no failed reads a read shows what is stored.
LEMMA ReadsAreTrue ==
  ASSUME Reliable, TypeInv, NEW fault \in BOOLEAN, Faulty(fault)
  PROVE  /\ \A k \in GroupKeys : GetGroup(k, fault) = groups[k]
         /\ \A s \in Services : Get(services[s], {}, fault) = services[s]
<1>1. fault = FALSE
  BY KeyGroupsAssumption DEF Reliable, TypeInv, TypeOK, Faulty
<1> QED
  BY <1>1 DEF GetGroup, Get

\* Groups and services only grow.
Grows ==
  /\ \A k \in GroupKeys : /\ groups[k].pools \subseteq groups'[k].pools
                          /\ groups[k].services \subseteq groups'[k].services
  /\ \A s \in Services : services[s] \subseteq services'[s]

\* What is stored then stays stored, and services stay entitled to what they
\* were entitled to.
LEMMA GrowthKeeps ==
  ASSUME TypeInv, Grows
  PROVE  /\ \A o \in Ops : Stored(o) => Stored(o)'
         /\ \A o \in Ops : GroupStored(o) => GroupStored(o)'
         /\ \A s \in Services : Entitled(s) \subseteq Entitled(s)'
<1>1. \A o \in Ops : Stored(o) => Stored(o)'
  BY OpFields DEF Grows, Stored
<1>2. \A o \in Ops : GroupStored(o) => GroupStored(o)'
  BY OpFields DEF Grows, GroupStored
<1>3. ASSUME NEW s \in Services, NEW g \in Entitled(s)
      PROVE  g \in Entitled(s)'
  <2>1. PICK n \in services[s] : g \in {n[1]} \X groups[n[2]].pools
    BY <1>3 DEF Entitled
  <2>2. n[2] \in GroupKeys /\ n \in services'[s]
    BY DEF TypeInv, TypeOK, Names, Grows
  <2>3. g \in {n[1]} \X groups'[n[2]].pools
    BY <2>1, <2>2 DEF Grows
  <2> QED
    BY <2>2, <2>3 DEF Entitled
<1> QED
  BY <1>1, <1>2, <1>3

\* A step that leaves the store alone.
LEMMA StoreKept ==
  ASSUME UNCHANGED <<groups, services>>
  PROVE  /\ \A o : Stored(o)' = Stored(o) /\ GroupStored(o)' = GroupStored(o)
         /\ \A s : Entitled(s)' = Entitled(s)
         /\ NamedIsMember => NamedIsMember'
BY DEF Stored, GroupStored, Entitled, NamedIsMember

LEMMA InitSerial == Init => SerialInv
<1> SUFFICES ASSUME Init PROVE SerialInv
  OBVIOUS
<1>1. AckedIsStored /\ NamedIsMember /\ CapsEntitled
  BY DEF Init, AckedIsStored, NamedIsMember, CapsEntitled
<1>2. \A p \in Proxies : CopyExact(p) /\ Written(p) /\ GrantsExact(p)
  BY DEF Init, CopyExact, Written, GrantsExact
<1> QED
  BY <1>1, <1>2 DEF SerialInv

LEMMA NextSerial ==
  Reliable /\ TypeInv /\ SerialInv /\ [Next]_vars => SerialInv'
<1> SUFFICES ASSUME Reliable, TypeInv, SerialInv, [Next]_vars
             PROVE  SerialInv'
  OBVIOUS
<1>t. TypeInv'
  BY NextType
<1>a. \A q, p \in Proxies : q = p
  BY DEF Reliable, Serial
<1>s. /\ AckedIsStored /\ NamedIsMember /\ CapsEntitled
      /\ \A p \in Proxies : CopyExact(p) /\ Written(p) /\ GrantsExact(p)
  BY DEF SerialInv
<1>1. ASSUME NEW p \in Proxies, NEW o \in Ops, NEW fault \in BOOLEAN,
             Start(p, o, fault)
      PROVE  SerialInv'
  <2>1. UNCHANGED <<groups, services, caps>> /\ acked' = acked
    BY <1>1 DEF Start, cluster
  <2>2. Key(o) \in GroupKeys /\ GetGroup(Key(o), fault) = groups[Key(o)]
    BY <1>1, OpFields, ReadsAreTrue DEF Start
  <2>3. /\ doing'[p] = o /\ myGroup'[p] = groups[Key(o)]
        /\ step'[p] = IF o.op = "add-pool" THEN "save_group" ELSE "get_service"
    BY <1>1, <2>2 DEF Start, GoTo, TypeInv, TypeOK
  <2>4. AckedIsStored' /\ NamedIsMember' /\ CapsEntitled'
    BY <1>s, <2>1, StoreKept DEF AckedIsStored, CapsEntitled
  <2>5. CopyExact(p)' /\ Written(p)' /\ GrantsExact(p)'
    BY <2>1, <2>3 DEF CopyExact, Written, GrantsExact
  <2> QED
    BY <1>a, <2>4, <2>5 DEF SerialInv
<1>2. ASSUME NEW p \in Proxies, NEW fault \in BOOLEAN, GetService(p, fault)
      PROVE  SerialInv'
  <2>1. /\ UNCHANGED <<groups, services, caps, doing, myGroup>> /\ acked' = acked
        /\ step[p] = "get_service"
    BY <1>2 DEF GetService, cluster, history
  <2>2. doing[p] \in Ops /\ doing[p].service \in Services
    BY <2>1, OpFields DEF TypeInv, StepInv, TypeOK
  <2>3. /\ myNames'[p] = services[doing[p].service]
        /\ step'[p] = "save_group"
    BY <1>2, <2>2, ReadsAreTrue DEF GetService, GoTo, TypeInv, TypeOK
  <2>4. AckedIsStored' /\ NamedIsMember' /\ CapsEntitled'
    BY <1>s, <2>1, StoreKept DEF AckedIsStored, CapsEntitled
  <2>5. CopyExact(p)' /\ Written(p)' /\ GrantsExact(p)'
    BY <1>s, <2>1, <2>3 DEF CopyExact, Written, GrantsExact
  <2> QED
    BY <1>a, <2>4, <2>5 DEF SerialInv
<1>3. ASSUME NEW p \in Proxies, SaveGroup(p)
      PROVE  SerialInv'
  <2> DEFINE o == doing[p]
             k == Key(o)
  <2>1. /\ UNCHANGED <<services, caps, doing, myNames, grants, unread, current>>
        /\ acked' = acked /\ myGroup' = myGroup
        /\ groups' = [groups EXCEPT ![k] = Grown(myGroup[p], o)]
        /\ step[p] = "save_group"
    BY <1>3 DEF SaveGroup, history
  <2>2. o \in Ops /\ k \in GroupKeys /\ o.op \in {"add-pool", "add-permissions"}
    BY <2>1, OpFields DEF TypeInv, TypeOK
  <2>3. step'[p] = IF o.op = "add-pool" THEN "next_service" ELSE "save_service"
    BY <1>3 DEF SaveGroup, GoTo, TypeInv, TypeOK
  <2>4. myGroup[p] = groups[k] /\ groups[k] \in Group
    BY <1>s, <2>1, <2>2 DEF CopyExact, TypeInv, TypeOK
  <2>5. groups' = [groups EXCEPT ![k] = Grown(groups[k], o)]
    BY <2>1, <2>4
  <2> HIDE DEF k
  <2>6. Grows /\ GroupStored(o)'
    <3>1. /\ Grown(groups[k], o).pools
               = IF o.op = "add-pool" THEN groups[k].pools \union {o.pool}
                                      ELSE groups[k].pools
          /\ Grown(groups[k], o).services
               = IF o.op = "add-pool" THEN groups[k].services
                                      ELSE groups[k].services \union {o.service}
      BY <2>4 DEF Grown, Group
    <3>2. groups'[k] = Grown(groups[k], o)
            /\ \A l \in GroupKeys \ {k} : groups'[l] = groups[l]
      BY <2>2, <2>5 DEF TypeInv, TypeOK
    <3>3. Grows
      BY <2>1, <3>1, <3>2 DEF Grows
    <3> QED
      BY <2>1, <2>2, <3>1, <3>2, <3>3 DEF GroupStored, k
  <2>7. AckedIsStored' /\ CapsEntitled'
    BY <1>s, <2>1, <2>6, GrowthKeeps DEF AckedIsStored, CapsEntitled, TypeInv, TypeOK
  <2>8. NamedIsMember'
    BY <1>s, <2>1, <2>6 DEF NamedIsMember, Grows, TypeInv, TypeOK, Names
  <2>9. Written(p)'
    BY <2>1, <2>2, <2>3, <2>6 DEF Written, Stored, GroupStored
  <2>10. CopyExact(p)' /\ GrantsExact(p)'
    BY <1>s, <2>1, <2>2, <2>3 DEF CopyExact, GrantsExact
  <2> QED
    BY <1>a, <2>7, <2>8, <2>9, <2>10 DEF SerialInv
<1>4. ASSUME NEW p \in Proxies, SaveService(p)
      PROVE  SerialInv'
  <2> DEFINE o == doing[p]
             n == myNames[p] \union {<<o.perm, Key(o)>>}
  <2>1. /\ UNCHANGED <<groups, caps, doing>> /\ acked' = acked
        /\ step[p] = "save_service"
        /\ services' = [services EXCEPT ![o.service] = n]
    BY <1>4 DEF SaveService, history
  <2>2. /\ step'[p] = "get_groups"
        /\ current'[p] = o.service /\ unread'[p] = n /\ grants'[p] = {}
    BY <1>4 DEF SaveService, GoTo, Collect, TypeInv, TypeOK
  <2>3. o \in Ops /\ o.op = "add-permissions" /\ o.service \in Services
    BY <2>1, OpFields DEF TypeInv, StepInv, TypeOK
  <2>4. n = services[o.service] \union {<<o.perm, Key(o)>>}
    BY <1>s, <2>1, <2>3 DEF CopyExact
  <2>5. o.service \in groups[Key(o)].services
    BY <1>s, <2>1, <2>3 DEF Written, GroupStored
  <2>6. /\ services'[o.service] = n
        /\ \A s \in Services \ {o.service} : services'[s] = services[s]
    BY <2>1, <2>3 DEF TypeInv, TypeOK
  <2> HIDE DEF n
  <2>7. Grows
    BY <2>1, <2>4, <2>6 DEF Grows
  <2>8. AckedIsStored' /\ CapsEntitled'
    BY <1>s, <2>1, <2>7, GrowthKeeps DEF AckedIsStored, CapsEntitled, TypeInv, TypeOK
  <2>9. NamedIsMember'
    BY <1>s, <2>1, <2>4, <2>5, <2>6 DEF NamedIsMember
  <2>10. Written(p)'
    BY <2>1, <2>2, <2>3, <2>4, <2>5, <2>6 DEF Written, Stored
  <2>11. CopyExact(p)' /\ GrantsExact(p)'
    BY <2>2, <2>6 DEF CopyExact, GrantsExact, Entitled
  <2> QED
    BY <1>a, <2>8, <2>9, <2>10, <2>11 DEF SerialInv
<1>5. ASSUME NEW p \in Proxies, NEW s \in Services, NEW fault \in BOOLEAN,
             NextService(p, s, fault)
      PROVE  SerialInv'
  <2>1. /\ UNCHANGED <<groups, services, caps, doing>> /\ acked' = acked
        /\ step[p] = "next_service"
    BY <1>5 DEF NextService, cluster, history
  <2>2. /\ step'[p] = "get_groups"
        /\ current'[p] = s /\ unread'[p] = services[s] /\ grants'[p] = {}
    BY <1>5, ReadsAreTrue DEF NextService, GoTo, Collect, TypeInv, TypeOK
  <2>3. AckedIsStored' /\ NamedIsMember' /\ CapsEntitled'
    BY <1>s, <2>1, StoreKept DEF AckedIsStored, CapsEntitled
  <2>4. CopyExact(p)' /\ Written(p)'
    BY <1>s, <2>1, <2>2, StoreKept DEF CopyExact, Written
  <2>5. GrantsExact(p)'
    BY <2>1, <2>2 DEF GrantsExact, Entitled
  <2> QED
    BY <1>a, <2>3, <2>4, <2>5 DEF SerialInv
<1>6. ASSUME NEW p \in Proxies, NEW n \in Names, NEW fault \in BOOLEAN,
             ReadGroup(p, n, fault)
      PROVE  SerialInv'
  <2> DEFINE k == doing[p].ns \o n[2]
  <2>1. /\ UNCHANGED <<groups, services, caps, doing, step, current>>
        /\ acked' = acked
        /\ step[p] = "get_groups" /\ n \in unread[p]
    BY <1>6 DEF ReadGroup, cluster, history
  <2>2. doing[p] \in Ops /\ n[2] \in GroupKeys
    BY <2>1 DEF TypeInv, TypeOK, Names
  <2>3. Plain => k = n[2]
    BY <2>2, PlainKey
  <2> HIDE DEF k
  <2>4. Plain =>
        /\ unread'[p] = unread[p] \ {n}
        /\ grants'[p] = grants[p] \union ({n[1]} \X groups[n[2]].pools)
    <3>1. Plain => GetGroup(k, fault) = groups[n[2]]
      BY <1>6, <2>2, <2>3, ReadsAreTrue DEF ReadGroup
    <3> QED
      BY <1>6, <3>1 DEF ReadGroup, TypeInv, TypeOK, k
  <2>5. AckedIsStored' /\ NamedIsMember' /\ CapsEntitled'
    BY <1>s, <2>1, StoreKept DEF AckedIsStored, CapsEntitled
  <2>6. CopyExact(p)' /\ Written(p)'
    BY <1>s, <2>1, StoreKept DEF CopyExact, Written
  <2>7. ASSUME Plain PROVE GrantsExact(p)'
    <3> DEFINE Of(m) == {m[1]} \X groups[m[2]].pools
    <3>1. grants[p] \union UNION {Of(m) : m \in unread[p]} = Entitled(current[p])
      BY <1>s, <2>1, <2>7 DEF GrantsExact
    <3>2. UNION {Of(m) : m \in unread[p]} = Of(n) \union UNION {Of(m) : m \in unread'[p]}
      BY <2>1, <2>4, <2>7
    <3>3. grants'[p] \union UNION {Of(m) : m \in unread'[p]} = Entitled(current[p])
      <4> HIDE DEF Of
      <4>1. grants'[p] = grants[p] \union Of(n)
        BY <2>4, <2>7 DEF Of
      <4> QED
        BY <3>1, <3>2, <4>1
    <3> QED
      BY <2>1, <3>3, StoreKept DEF GrantsExact
  <2>8. GrantsExact(p)'
    BY <2>7 DEF GrantsExact, Plain
  <2> QED
    BY <1>a, <2>5, <2>6, <2>8 DEF SerialInv
<1>7. ASSUME NEW p \in Proxies, NEW fault \in BOOLEAN, SetCaps(p, fault)
      PROVE  SerialInv'
  <2>1. /\ UNCHANGED <<groups, services, doing>> /\ acked' = acked
        /\ step[p] = "get_groups" /\ unread[p] = {}
        /\ step'[p] = "next_service"
    BY <1>7 DEF SetCaps, GoTo, history, TypeInv, TypeOK
  <2>2. Plain => grants[p] = Entitled(current[p])
    BY <1>s, <2>1 DEF GrantsExact
  <2>3. Plain => \A s \in Services : caps'[s] = caps[s] \/ caps'[s] = Entitled(s)
    BY <1>7, <2>2 DEF SetCaps, TypeInv, TypeOK
  <2>4. AckedIsStored' /\ NamedIsMember' /\ CapsEntitled'
    BY <1>s, <2>1, <2>3, StoreKept DEF AckedIsStored, CapsEntitled
  <2>5. CopyExact(p)' /\ Written(p)' /\ GrantsExact(p)'
    BY <1>s, <2>1, StoreKept DEF CopyExact, Written, GrantsExact
  <2> QED
    BY <1>a, <2>4, <2>5 DEF SerialInv
<1>8. ASSUME NEW p \in Proxies, Finish(p)
      PROVE  SerialInv'
  <2>1. /\ UNCHANGED <<groups, services, caps>>
        /\ acked' = acked \union {doing[p]}
        /\ step[p] = "next_service" /\ step'[p] = "idle"
    BY <1>8 DEF Finish, GoTo, cluster, TypeInv, TypeOK
  <2>2. Stored(doing[p])
    BY <1>s, <2>1 DEF Written
  <2>3. AckedIsStored' /\ NamedIsMember' /\ CapsEntitled'
    BY <1>s, <2>1, <2>2, StoreKept DEF AckedIsStored, CapsEntitled
  <2>4. CopyExact(p)' /\ Written(p)' /\ GrantsExact(p)'
    BY <2>1 DEF CopyExact, Written, GrantsExact
  <2> QED
    BY <1>a, <2>3, <2>4 DEF SerialInv
<1>9. ASSUME NEW p \in Proxies, Abort(p)
      PROVE  SerialInv'
  <2>1. /\ UNCHANGED <<groups, services, caps>> /\ acked' = acked
        /\ step'[p] = "idle"
    BY <1>9 DEF Abort, GoTo, cluster, TypeInv, TypeOK
  <2>2. AckedIsStored' /\ NamedIsMember' /\ CapsEntitled'
    BY <1>s, <2>1, StoreKept DEF AckedIsStored, CapsEntitled
  <2>3. CopyExact(p)' /\ Written(p)' /\ GrantsExact(p)'
    BY <2>1 DEF CopyExact, Written, GrantsExact
  <2> QED
    BY <1>a, <2>2, <2>3 DEF SerialInv
<1>10. CASE UNCHANGED vars
  <2>1. UNCHANGED <<groups, services, caps, doing, step, myGroup, myNames, unread,
                    grants, current, acked>>
    BY <1>10 DEF vars, cluster, local, history
  <2>2. AckedIsStored' /\ NamedIsMember' /\ CapsEntitled'
    BY <1>s, <2>1, StoreKept DEF AckedIsStored, CapsEntitled
  <2>3. \A p \in Proxies : CopyExact(p)' /\ Written(p)' /\ GrantsExact(p)'
    BY <1>s, <2>1, StoreKept DEF CopyExact, Written, GrantsExact
  <2> QED
    BY <2>2, <2>3 DEF SerialInv
<1> QED
  BY <1>1, <1>2, <1>3, <1>4, <1>5, <1>6, <1>7, <1>8, <1>9, <1>10 DEF Next, Proxy

\* The hypotheses are about constants, so they hold for ever.
LEMMA ReliableStays == (Reliable => []Reliable) /\ (Plain => []Plain)
<1>1. Reliable => Reliable'
  BY DEF Reliable, Serial
<1>2. Plain => Plain'
  BY DEF Plain
<1> QED
  BY <1>1, <1>2, PTL

LEMMA SerialCorrect == Reliable /\ Spec => [](TypeInv /\ SerialInv)
<1>1. Init => TypeInv /\ SerialInv
  BY InitType, InitSerial
<1>2. Reliable /\ (TypeInv /\ SerialInv) /\ [Next]_vars
        => (TypeInv /\ SerialInv)'
  BY NextType, NextSerial
<1> QED
  BY <1>1, <1>2, ReliableStays, PTL DEF Spec

\* Where one proxy handles the requests and no read of the store fails: whatever
\* an operation was acknowledged for stays on record, while others write the
\* same objects back, are cut short at any point and repeated, and commands that
\* set capabilities fail.
THEOREM AcknowledgedIsStored == Reliable /\ Spec => []AckedIsStored
<1>1. SerialInv => AckedIsStored
  BY DEF SerialInv
<1> QED
  BY <1>1, SerialCorrect, PTL

\* In the same setting, and where no request carries a namespace,
\* add_pool_to_group and handle_add_permissions_to_key set the capabilities of a
\* key to at least what they were, at every step of every operation: a client
\* never loses access that it had been given.
THEOREM AccessOnlyGrows == Reliable /\ Plain /\ Spec => KeysOnlyGain
<1>1. ASSUME Plain, TypeInv, SerialInv, [Next]_vars, NEW s \in Services, caps[s] # None
      PROVE  caps[s] \subseteq caps'[s]
  <2>1. CASE caps' = caps
    BY <2>1
  <2>2. ASSUME NEW p \in Proxies, NEW fault \in BOOLEAN, SetCaps(p, fault)
        PROVE  caps[s] \subseteq caps'[s]
    <3>1. grants[p] = Entitled(current[p])
      BY <1>1, <2>2 DEF SerialInv, GrantsExact, SetCaps
    <3>2. caps'[s] = caps[s] \/ (s = current[p] /\ caps'[s] = grants[p])
      BY <1>1, <2>2 DEF SetCaps, TypeInv, TypeOK
    <3> QED
      BY <1>1, <3>1, <3>2 DEF SerialInv, CapsEntitled
  <2>3. caps' = caps \/ \E p \in Proxies, fault \in BOOLEAN : SetCaps(p, fault)
    BY <1>1 DEF Next, Proxy, vars, cluster, Start, GetService, SaveGroup,
                SaveService, NextService, ReadGroup, Finish, Abort
  <2> QED
    BY <2>1, <2>2, <2>3
<1>2. Plain /\ TypeInv /\ SerialInv /\ [Next]_vars
        => [\A s \in Services : caps[s] # None => caps[s] \subseteq caps'[s]]_vars
  BY <1>1
<1> QED
  BY <1>2, ReliableStays, SerialCorrect, PTL DEF Spec, KeysOnlyGain
-----------------------------------------------------------------------------
(* When every key is up to date.                                           *)

\* The key of s does not grant what its groups say.
Late(s) == services[s] # {} /\ caps[s] # Entitled(s)

\* The operation writes something that the key of s depends on.
Concerns(o, s) ==
  IF o.op = "add-pool" THEN \E n \in services[s] : n[2] = Key(o) ELSE o.service = s

\* The running operation has yet to set the key of s.
ToCome(p, s) ==
  \/ step[p] \in {"get_service", "save_group", "save_service"} /\ Concerns(doing[p], s)
  \/ step[p] = "get_groups" /\ current[p] = s
  \/ step[p] \in {"get_groups", "next_service"} /\ s \in toUpdate[p]

\* A key that is late is so on account of an operation that was cut short or
\* is running, and the running one sets the keys it makes late.
LateInv ==
  \A s \in Services : Late(s) =>
    /\ (\E o \in dirty : Concerns(o, s))
         \/ (\E p \in Proxies : doing[p] # None /\ Concerns(doing[p], s))
    /\ \A p \in Proxies : doing[p] # None =>
         (\E o \in dirty \ {doing[p]} : Concerns(o, s)) \/ ToCome(p, s)

LEMMA InitLate == Init => LateInv
BY DEF Init, LateInv, Late

\* A step that leaves the store, the operations and the history alone, and
\* all the keys, keeps the invariant if what is to come stays to come.
LEMMA LateStays ==
  ASSUME LateInv, Serial, NEW p \in Proxies,
         UNCHANGED <<groups, services, caps, doing, dirty>>,
         \A s \in Services : ToCome(p, s) => ToCome(p, s)'
  PROVE  LateInv'
<1>1. \A o, s : Concerns(o, s)' = Concerns(o, s)
  BY DEF Concerns
<1>2. \A s : Late(s)' = Late(s)
  BY DEF Late, Entitled
<1> QED
  BY <1>1, <1>2 DEF LateInv, Serial

LEMMA NextLate ==
  Reliable /\ Plain /\ MaxCapsFaults = 0 /\ TypeInv /\ SerialInv /\ LateInv
    /\ [Next]_vars => LateInv'
<1> SUFFICES ASSUME Reliable, Plain, MaxCapsFaults = 0, TypeInv, SerialInv,
                    LateInv, [Next]_vars
             PROVE  LateInv'
  OBVIOUS
<1>t. TypeInv'
  BY NextType
<1>a. Serial /\ \A q, p \in Proxies : q = p
  BY DEF Reliable, Serial
<1>s. /\ NamedIsMember
      /\ \A p \in Proxies : CopyExact(p) /\ Written(p) /\ GrantsExact(p)
  BY DEF SerialInv
<1>1. ASSUME NEW p \in Proxies, NEW o \in Ops, NEW fault \in BOOLEAN,
             Start(p, o, fault)
      PROVE  LateInv'
  <2>1. UNCHANGED <<groups, services, caps, dirty>> /\ doing[p] = None
    BY <1>1 DEF Start, cluster
  <2>2. doing'[p] = o /\ step'[p] \in {"save_group", "get_service"} /\ o # None
    BY <1>1, OpFields DEF Start, GoTo, TypeInv, TypeOK
  <2>3. \A o1, s : Concerns(o1, s)' = Concerns(o1, s)
    BY <2>1 DEF Concerns
  <2>4. \A s : Late(s)' = Late(s)
    BY <2>1 DEF Late, Entitled
  <2> SUFFICES ASSUME NEW s \in Services, Late(s)
               PROVE  /\ (\E o1 \in dirty : Concerns(o1, s))
                      /\ (\E o1 \in dirty \ {o} : Concerns(o1, s)) \/ ToCome(p, s)'
    BY <1>a, <2>1, <2>2, <2>3, <2>4 DEF LateInv
  <2>5. \E o1 \in dirty : Concerns(o1, s)
    BY <1>a, <2>1 DEF LateInv
  <2>6. Concerns(o, s) => ToCome(p, s)'
    BY <2>1, <2>2 DEF ToCome, Concerns
  <2> QED
    BY <2>5, <2>6
<1>2. ASSUME NEW p \in Proxies, NEW fault \in BOOLEAN, GetService(p, fault)
      PROVE  LateInv'
  <2>1. /\ UNCHANGED <<groups, services, caps, doing, dirty>>
        /\ step[p] = "get_service" /\ step'[p] = "save_group"
    BY <1>2 DEF GetService, GoTo, cluster, history, TypeInv, TypeOK
  <2>2. \A s \in Services : ToCome(p, s) => ToCome(p, s)'
    BY <2>1 DEF ToCome, Concerns
  <2> QED
    BY <1>a, <2>1, <2>2, LateStays
<1>3. ASSUME NEW p \in Proxies, SaveGroup(p)
      PROVE  LateInv'
  <2> DEFINE o == doing[p]
  <2>1. /\ UNCHANGED <<services, caps, doing, dirty>>
        /\ groups' = [groups EXCEPT ![Key(o)] = Grown(myGroup[p], o)]
        /\ step[p] = "save_group"
    BY <1>3 DEF SaveGroup, history
  <2>2. /\ o \in Ops /\ o # None /\ Key(o) \in GroupKeys
        /\ o.op \in {"add-pool", "add-permissions"}
    BY <2>1, OpFields DEF TypeInv, TypeOK
  <2>3. myGroup[p] = groups[Key(o)] /\ groups[Key(o)] \in Group
    BY <1>s, <2>1, <2>2 DEF CopyExact, TypeInv, TypeOK
  <2>4. /\ o.op = "add-pool" => /\ step'[p] = "next_service"
                                /\ toUpdate'[p] = groups[Key(o)].services
        /\ o.op # "add-pool" => step'[p] = "save_service"
    BY <1>3, <2>3 DEF SaveGroup, GoTo, Members, TypeInv, TypeOK
  <2>5. \A o1, s : Concerns(o1, s)' = Concerns(o1, s)
    BY <2>1 DEF Concerns
  <2>6. \A s \in Services : Concerns(o, s) => ToCome(p, s)'
    <3>1. CASE o.op = "add-pool"
      BY <1>s, <2>4, <3>1 DEF Concerns, NamedIsMember, ToCome
    <3>2. CASE o.op # "add-pool"
      BY <2>1, <2>4, <3>2 DEF ToCome, Concerns
    <3> QED
      BY <3>1, <3>2
  <2>7. \A l \in GroupKeys \ {Key(o)} : groups'[l] = groups[l]
    BY <2>1 DEF TypeInv, TypeOK
  <2>8. o.op # "add-pool" => \A l \in GroupKeys : groups'[l].pools = groups[l].pools
    BY <2>1, <2>2, <2>3, <2>7 DEF Grown, Group, TypeInv, TypeOK
  <2>9. ASSUME NEW s \in Services, ~Concerns(o, s) \/ o.op # "add-pool"
        PROVE  Late(s)' = Late(s)
    <3>1. \A n \in services[s] : n[2] \in GroupKeys
      BY DEF TypeInv, TypeOK, Names
    <3>2. \A n \in services[s] : groups'[n[2]].pools = groups[n[2]].pools
      BY <2>2, <2>7, <2>8, <2>9, <3>1 DEF Concerns
    <3>3. Entitled(s)' = Entitled(s)
      BY <2>1, <3>2 DEF Entitled
    <3> QED
      BY <2>1, <3>3 DEF Late
  <2>10. ASSUME NEW s \in Services, Late(s)'
         PROVE  /\ (\E o1 \in dirty : Concerns(o1, s)) \/ Concerns(o, s)
                /\ (\E o1 \in dirty \ {o} : Concerns(o1, s)) \/ ToCome(p, s)'
    <3>1. CASE Concerns(o, s)
      BY <2>6, <3>1
    <3>2. CASE ~Concerns(o, s)
      <4>1. Late(s)
        BY <2>9, <2>10, <3>2
      <4>2. \E o1 \in dirty : Concerns(o1, s)
        BY <1>a, <3>2, <4>1 DEF LateInv
      <4> QED
        BY <3>2, <4>2
    <3> QED
      BY <3>1, <3>2
  <2> HIDE DEF o
  <2> QED
    BY <1>a, <2>1, <2>2, <2>5, <2>10 DEF LateInv, o
<1>4. ASSUME NEW p \in Proxies, SaveService(p)
      PROVE  LateInv'
  <2> DEFINE o == doing[p]
             n == myNames[p] \union {<<o.perm, Key(o)>>}
  <2>1. /\ UNCHANGED <<groups, caps, doing, dirty>>
        /\ step[p] = "save_service"
        /\ services' = [services EXCEPT ![o.service] = n]
    BY <1>4 DEF SaveService, history
  <2>2. step'[p] = "get_groups" /\ current'[p] = o.service
    BY <1>4 DEF SaveService, GoTo, Collect, TypeInv, TypeOK
  <2>3. /\ o \in Ops /\ o # None
        /\ o.op = "add-permissions" /\ o.service \in Services
    BY <2>1, OpFields DEF TypeInv, StepInv, TypeOK
  <2>4. n = services[o.service] \union {<<o.perm, Key(o)>>}
    BY <1>s, <2>1, <2>3 DEF CopyExact
  <2>5. /\ services'[o.service] = n
        /\ \A s \in Services \ {o.service} : services'[s] = services[s]
    BY <2>1, <2>3 DEF TypeInv, TypeOK
  <2> HIDE DEF n
  <2>6. \A o1 : \A s \in Services : Concerns(o1, s) => Concerns(o1, s)'
    BY <2>4, <2>5 DEF Concerns
  <2>7. \A s : s = o.service => ToCome(p, s)' /\ Concerns(o, s)'
    BY <2>1, <2>2, <2>3 DEF ToCome, Concerns
  <2>8. ASSUME NEW s \in Services, s # o.service, Late(s)'
        PROVE  \E o1 \in dirty \ {o} : Concerns(o1, s)
    <3>1. Late(s)
      BY <2>1, <2>5, <2>8 DEF Late, Entitled
    <3>2. ~Concerns(o, s)
      BY <2>3, <2>8 DEF Concerns
    <3>3. \E o1 \in dirty : Concerns(o1, s)
      BY <1>a, <3>1, <3>2 DEF LateInv
    <3> QED
      BY <3>2, <3>3
  <2> SUFFICES ASSUME NEW s \in Services, Late(s)'
               PROVE  /\ (\E o1 \in dirty : Concerns(o1, s)') \/ Concerns(o, s)'
                      /\ (\E o1 \in dirty \ {o} : Concerns(o1, s)') \/ ToCome(p, s)'
    BY <1>a, <2>1, <2>3 DEF LateInv
  <2>9. CASE s = o.service
    BY <2>7, <2>9
  <2>10. CASE s # o.service
    <3>1. PICK o1 \in dirty \ {o} : Concerns(o1, s)
      BY <2>8, <2>10
    <3> QED
      BY <2>6, <3>1
  <2> QED
    BY <2>9, <2>10
<1>5. ASSUME NEW p \in Proxies, NEW s \in Services, NEW fault \in BOOLEAN,
             NextService(p, s, fault)
      PROVE  LateInv'
  <2>1. /\ UNCHANGED <<groups, services, caps, doing, dirty>>
        /\ step[p] = "next_service"
        /\ step'[p] = "get_groups" /\ current'[p] = s
        /\ toUpdate'[p] = toUpdate[p] \ {s}
    BY <1>5 DEF NextService, GoTo, Collect, cluster, history, TypeInv, TypeOK
  <2>2. \A s1 \in Services : ToCome(p, s1) => ToCome(p, s1)'
    BY <2>1 DEF ToCome
  <2> QED
    BY <1>a, <2>1, <2>2, LateStays
<1>6. ASSUME NEW p \in Proxies, NEW n \in Names, NEW fault \in BOOLEAN,
             ReadGroup(p, n, fault)
      PROVE  LateInv'
  <2>1. UNCHANGED <<groups, services, caps, doing, dirty, step, current, toUpdate>>
    BY <1>6 DEF ReadGroup, cluster, history
  <2>2. \A s1 \in Services : ToCome(p, s1) => ToCome(p, s1)'
    BY <2>1 DEF ToCome, Concerns
  <2> QED
    BY <1>a, <2>1, <2>2, LateStays
<1>7. ASSUME NEW p \in Proxies, NEW fault \in BOOLEAN, SetCaps(p, fault)
      PROVE  LateInv'
  <2>1. /\ UNCHANGED <<groups, services, doing, dirty, toUpdate>>
        /\ step[p] = "get_groups" /\ unread[p] = {}
        /\ step'[p] = "next_service"
    BY <1>7 DEF SetCaps, GoTo, history, TypeInv, TypeOK
  <2>2. grants[p] = Entitled(current[p])
    BY <1>s, <2>1 DEF GrantsExact
  <2>3. fault = FALSE
    BY <1>7, KeyGroupsAssumption DEF SetCaps, TypeInv, TypeOK
  <2>4. caps' = [caps EXCEPT ![current[p]] = grants[p]]
    BY <1>7, <2>3 DEF SetCaps
  <2>5. \A s \in Services : caps'[s] = IF s = current[p] THEN Entitled(s) ELSE caps[s]
    BY <2>2, <2>4 DEF TypeInv, TypeOK
  <2>6. \A o, s : Concerns(o, s)' = Concerns(o, s)
    BY <2>1 DEF Concerns
  <2>7. \A s \in Services : Late(s)' => Late(s) /\ s # current[p]
    <3>1. \A s : Entitled(s)' = Entitled(s)
      BY <2>1 DEF Entitled
    <3> QED
      BY <2>1, <2>5, <3>1 DEF Late
  <2>8. \A s \in Services : s # current[p] /\ ToCome(p, s) => ToCome(p, s)'
    BY <2>1 DEF ToCome
  <2> SUFFICES ASSUME NEW s \in Services, Late(s)'
               PROVE  /\ (\E o \in dirty : Concerns(o, s))
                         \/ (\E q \in Proxies : doing[q] # None /\ Concerns(doing[q], s))
                      /\ \A q \in Proxies : doing[q] # None =>
                           (\E o \in dirty \ {doing[q]} : Concerns(o, s)) \/ ToCome(q, s)'
    BY <2>1, <2>6 DEF LateInv
  <2> QED
    BY <1>a, <2>7, <2>8 DEF LateInv
<1>8. ASSUME NEW p \in Proxies, Finish(p)
      PROVE  LateInv'
  <2>1. /\ UNCHANGED <<groups, services, caps>>
        /\ dirty' = dirty \ {doing[p]}
        /\ step[p] = "next_service" /\ toUpdate[p] = {} /\ doing[p] \in Ops
        /\ doing'[p] = None
    BY <1>8 DEF Finish, cluster, TypeInv, TypeOK
  <2>2. \A o1, s : Concerns(o1, s)' = Concerns(o1, s)
    BY <2>1 DEF Concerns
  <2>3. \A s : Late(s)' = Late(s) /\ ~ToCome(p, s)
    BY <2>1 DEF Late, Entitled, ToCome
  <2>4. \A s \in Services : Late(s) => \E o \in dirty \ {doing[p]} : Concerns(o, s)
    BY <2>1, <2>3, OpFields DEF LateInv
  <2> QED
    BY <1>a, <2>1, <2>2, <2>3, <2>4 DEF LateInv
<1>9. ASSUME NEW p \in Proxies, Abort(p)
      PROVE  LateInv'
  <2>1. /\ UNCHANGED <<groups, services, caps>>
        /\ dirty' = dirty \union {doing[p]}
        /\ doing'[p] = None
    BY <1>9 DEF Abort, cluster, TypeInv, TypeOK
  <2>2. \A o1, s : Concerns(o1, s)' = Concerns(o1, s)
    BY <2>1 DEF Concerns
  <2>3. \A s : Late(s)' = Late(s)
    BY <2>1 DEF Late, Entitled
  <2> QED
    BY <1>a, <2>1, <2>2, <2>3 DEF LateInv
<1>10. CASE UNCHANGED vars
  <2>1. UNCHANGED <<groups, services, caps, doing, dirty, step, current, toUpdate>>
    BY <1>10 DEF vars, cluster, local, history
  <2>2. \A p \in Proxies, s \in Services : ToCome(p, s)' = ToCome(p, s)
    BY <2>1 DEF ToCome, Concerns
  <2>3. /\ \A o1, s : Concerns(o1, s)' = Concerns(o1, s)
        /\ \A s : Late(s)' = Late(s)
    BY <2>1 DEF Concerns, Late, Entitled
  <2> QED
    BY <2>1, <2>2, <2>3 DEF LateInv
<1> QED
  BY <1>1, <1>2, <1>3, <1>4, <1>5, <1>6, <1>7, <1>8, <1>9, <1>10 DEF Next, Proxy

\* If, besides, no command that sets capabilities fails: whenever no operation
\* is in progress and each that was cut short has been repeated, every key
\* grants exactly the pools of its service's groups.  An operation that was cut
\* short after its first write leaves its traces to whoever repeats it.
THEOREM KeysAreCurrent ==
  Reliable /\ Plain /\ MaxCapsFaults = 0 /\ Spec => []KeysMatchGroups
<1>1. MaxCapsFaults = 0 => [](MaxCapsFaults = 0)
  <2>1. MaxCapsFaults = 0 => (MaxCapsFaults = 0)'
    OBVIOUS
  <2> QED
    BY <2>1, PTL
<1>2. Init => LateInv
  BY InitLate
<1>3. Reliable /\ Plain /\ MaxCapsFaults = 0 /\ TypeInv /\ SerialInv /\ LateInv
        /\ [Next]_vars => LateInv'
  BY NextLate
<1>4. LateInv => KeysMatchGroups
  BY DEF LateInv, KeysMatchGroups, Late
<1> QED
  BY <1>1, <1>2, <1>3, <1>4, ReliableStays, SerialCorrect, PTL DEF Spec
=============================================================================
