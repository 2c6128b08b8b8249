------------------------------ MODULE KeyGroups ------------------------------
(***************************************************************************)
(* Pool groups and the capabilities of cephx keys:                         *)
(* lib/charms_ceph/broker.py, handle_add_permissions_to_key,               *)
(* add_pool_to_group and the helpers they share.                           *)
(*                                                                         *)
(* Groups and services are JSON objects in the monitors' config-key store. *)
(* Both operations read such an object, change their copy and write it     *)
(* back, one ceph command at a time, and then set the capabilities of keys *)
(* from what a further round of reads shows.  Several proxy units may do   *)
(* so at once; nothing locks the store.                                    *)
(***************************************************************************)
EXTENDS Naturals, Sequences

CONSTANTS
  Proxies,       \* units that process broker requests
  Services,      \* names of cephx users
  Pools,
  Perms,         \* group-permission values
  Namespaces,    \* group-namespace values: <<>> or <<a prefix>>
  GroupNames,
  Ops,           \* the operations clients ask for
  None,
  MaxOps,        \* bound on the operations that are started
  MaxReadFaults, \* bound on config-key get commands that fail
  MaxAborts,     \* bound on operations that a failed write or a crash ends
  MaxCapsFaults  \* bound on auth caps commands that fail

OpType ==
  [op : {"add-permissions"}, service : Services, perm : Perms,
   group : GroupNames, ns : Namespaces]
    \union
  [op : {"add-pool"}, pool : Pools, group : GroupNames, ns : Namespaces]

\* The name under which the operation stores its group, prefix and name.
Key(o) == o.ns \o <<o.group>>

GroupKeys == {Key(o) : o \in Ops}

ASSUME KeyGroupsAssumption ==
  /\ Ops \subseteq OpType
  /\ None \notin OpType
  /\ None \notin Services
  /\ MaxOps \in Nat
  /\ MaxReadFaults \in Nat
  /\ MaxAborts \in Nat
  /\ MaxCapsFaults \in Nat

VARIABLES
  \* the cluster
  groups,    \* cephx.groups.<key>: pools and services
  services,  \* cephx.services.<name>: its group_names, <<permission, key>>
  caps,      \* per service, the osd capabilities of its key; None: those it
             \* was created with
  \* the operation in progress on each proxy
  doing,     \* the operation, or None
  step,      \* its next ceph command
  myGroup,   \* its copy of the group
  myNames,   \* its copy of the service's group_names
  unread,    \* group_names whose group it has not read yet
  grants,    \* <<permission, pool>> it has collected for the key
  toUpdate,  \* services whose key it still has to set
  current,   \* the service whose key it is about to set
  \* bounds and history
  started,   \* operations that were started
  nops, readFaults, aborts, capsFaults,
  acked,     \* operations that ended without an exception
  dirty      \* operations that were cut short and not repeated since

cluster == <<groups, services, caps>>
local == <<doing, step, myGroup, myNames, unread, grants, toUpdate, current>>
history == <<started, nops, acked, dirty>>
faults == <<readFaults, aborts, capsFaults>>
vars == <<cluster, local, history, faults>>

Group == [pools : SUBSET Pools, services : SUBSET Services]
EmptyGroup == [pools |-> {}, services |-> {}]
Names == Perms \X GroupKeys
Grants == Perms \X Pools
Steps == {"idle", "get_service", "save_group", "save_service", "next_service",
          "get_groups"}

TypeOK ==
  /\ groups \in [GroupKeys -> Group]
  /\ services \in [Services -> SUBSET Names]
  /\ caps \in [Services -> (SUBSET Grants) \union {None}]
  /\ doing \in [Proxies -> Ops \union {None}]
  /\ step \in [Proxies -> Steps]
  /\ \A p \in Proxies : step[p] # "idle" => doing[p] \in Ops
  /\ myGroup \in [Proxies -> Group]
  /\ myNames \in [Proxies -> SUBSET Names]
  /\ unread \in [Proxies -> SUBSET Names]
  /\ grants \in [Proxies -> SUBSET Grants]
  /\ toUpdate \in [Proxies -> SUBSET Services]
  /\ current \in [Proxies -> Services \union {None}]
  /\ started \subseteq Ops
  /\ nops \in 0 .. MaxOps
  /\ readFaults \in 0 .. MaxReadFaults
  /\ aborts \in 0 .. MaxAborts
  /\ capsFaults \in 0 .. MaxCapsFaults
  /\ acked \subseteq Ops
  /\ dirty \subseteq Ops

Init ==
  /\ groups = [k \in GroupKeys |-> EmptyGroup]
  /\ services = [s \in Services |-> {}]
  /\ caps = [s \in Services |-> None]
  /\ doing = [p \in Proxies |-> None]
  /\ step = [p \in Proxies |-> "idle"]
  /\ myGroup = [p \in Proxies |-> EmptyGroup]
  /\ myNames = [p \in Proxies |-> {}]
  /\ unread = [p \in Proxies |-> {}]
  /\ grants = [p \in Proxies |-> {}]
  /\ toUpdate = [p \in Proxies |-> {}]
  /\ current = [p \in Proxies |-> None]
  /\ started = {} /\ nops = 0 /\ acked = {} /\ dirty = {}
  /\ readFaults = 0 /\ aborts = 0 /\ capsFaults = 0

-----------------------------------------------------------------------------
(* Commands.                                                               *)

GoTo(p, s) == step' = [step EXCEPT ![p] = s]

\* monitor_key_get returns None for a key that is not there and for a command
\* that failed; get_group and get_service_groups then start from an empty
\* object.
Get(stored, empty, fault) == IF fault THEN empty ELSE stored

\* get_group; a group nobody has stored is empty.
GetGroup(k, fault) ==
  Get(IF k \in GroupKeys THEN groups[k] ELSE EmptyGroup, EmptyGroup, fault)

Faulty(fault) ==
  /\ fault => readFaults < MaxReadFaults
  /\ readFaults' = IF fault THEN readFaults + 1 ELSE readFaults
  /\ UNCHANGED <<aborts, capsFaults>>

\* handle_add_permissions_to_key and add_pool_to_group begin with get_group.
Start(p, o, fault) ==
  /\ doing[p] = None
  /\ nops < MaxOps
  /\ Faulty(fault)
  /\ doing' = [doing EXCEPT ![p] = o]
  /\ myGroup' = [myGroup EXCEPT ![p] = GetGroup(Key(o), fault)]
  /\ GoTo(p, IF o.op = "add-pool" THEN "save_group" ELSE "get_service")
  /\ started' = started \union {o}
  /\ nops' = nops + 1
  /\ UNCHANGED <<cluster, myNames, unread, grants, toUpdate, current, acked,
                 dirty>>

\* get_service_groups; the groups it reads as well are read again later.
GetService(p, fault) ==
  /\ step[p] = "get_service"
  /\ Faulty(fault)
  /\ myNames' = [myNames EXCEPT ![p] =
       Get(services[doing[p].service], {}, fault)]
  /\ GoTo(p, "save_group")
  /\ UNCHANGED <<cluster, doing, myGroup, unread, grants, toUpdate, current,
                 history>>

Bug_WrongList(g, o) ==
  IF o.op = "add-pool"
  THEN [g EXCEPT !.services = @ \union {o.pool}]
  ELSE [g EXCEPT !.services = @ \union {o.service}]

Bug_Overwrites(g, o) ==
  IF o.op = "add-pool"
  THEN [g EXCEPT !.pools = {o.pool}]
  ELSE [g EXCEPT !.services = @ \union {o.service}]

\* The group the operation writes back.
Grown(g, o) ==
  IF o.op = "add-pool"
  THEN [g EXCEPT !.pools = @ \union {o.pool}]
  ELSE [g EXCEPT !.services = @ \union {o.service}]

Bug_NoMembers(g) == {}

\* The services whose keys a new pool of the group concerns.
Members(g) == g.services

SaveGroup(p) ==
  /\ step[p] = "save_group"
  /\ groups' = [groups EXCEPT ![Key(doing[p])] = Grown(myGroup[p], doing[p])]
  /\ IF doing[p].op = "add-pool"
     THEN /\ toUpdate' = [toUpdate EXCEPT ![p] = Members(myGroup[p])]
          /\ GoTo(p, "next_service")
     ELSE /\ toUpdate' = toUpdate
          /\ GoTo(p, "save_service")
  /\ UNCHANGED <<services, caps, doing, myGroup, myNames, unread, grants,
                 current, history, faults>>

Bug_KeepsGrants(p, s, names) ==
  /\ current' = [current EXCEPT ![p] = s]
  /\ unread' = [unread EXCEPT ![p] = names]
  /\ UNCHANGED grants

\* update_service_permissions sets out to collect what s may do.
Collect(p, s, names) ==
  /\ current' = [current EXCEPT ![p] = s]
  /\ unread' = [unread EXCEPT ![p] = names]
  /\ grants' = [grants EXCEPT ![p] = {}]

\* save_service, after which the service's own key is the one to set.
SaveService(p) ==
  /\ step[p] = "save_service"
  /\ LET o == doing[p]
         n == myNames[p] \union {<<o.perm, Key(o)>>}
     IN /\ services' = [services EXCEPT ![o.service] = n]
        /\ Collect(p, o.service, n)
  /\ GoTo(p, "get_groups")
  /\ UNCHANGED <<groups, caps, doing, myGroup, myNames, toUpdate, history,
                 faults>>

\* The loop over group['services'] in add_pool_to_group: update_service_-
\* permissions reads the service anew.
NextService(p, s, fault) ==
  /\ step[p] = "next_service"
  /\ s \in toUpdate[p]
  /\ Faulty(fault)
  /\ toUpdate' = [toUpdate EXCEPT ![p] = @ \ {s}]
  /\ Collect(p, s, Get(services[s], {}, fault))
  /\ GoTo(p, "get_groups")
  /\ UNCHANGED <<cluster, doing, myGroup, myNames, history>>

\* One turn of _build_service_groups.  The names it is given are as they are
\* stored; it prefixes each with the request's namespace once more.
ReadGroup(p, n, fault) ==
  /\ step[p] = "get_groups"
  /\ n \in unread[p]
  /\ Faulty(fault)
  /\ unread' = [unread EXCEPT ![p] = @ \ {n}]
  /\ grants' = [grants EXCEPT ![p] =
       @ \union ({n[1]} \X GetGroup(doing[p].ns \o n[2], fault).pools)]
  /\ UNCHANGED <<cluster, doing, step, myGroup, myNames, toUpdate, current,
                 history>>

\* ceph auth caps; a command that fails is logged and passed over.
SetCaps(p, fault) ==
  /\ step[p] = "get_groups"
  /\ unread[p] = {}
  /\ fault => capsFaults < MaxCapsFaults
  /\ capsFaults' = IF fault THEN capsFaults + 1 ELSE capsFaults
  /\ caps' = IF fault THEN caps ELSE [caps EXCEPT ![current[p]] = grants[p]]
  /\ GoTo(p, "next_service")
  /\ UNCHANGED <<groups, services, doing, myGroup, myNames, unread, grants,
                 toUpdate, current, history, readFaults, aborts>>

\* The operation returns: {'exit-code': 0}, or None from add_pool_to_group,
\* with which the rest of the create-pool handler goes on.
Finish(p) ==
  /\ step[p] = "next_service"
  /\ toUpdate[p] = {}
  /\ acked' = acked \union {doing[p]}
  /\ dirty' = dirty \ {doing[p]}
  /\ doing' = [doing EXCEPT ![p] = None]
  /\ GoTo(p, "idle")
  /\ UNCHANGED <<cluster, myGroup, myNames, unread, grants, toUpdate, current,
                 started, nops, faults>>

\* monitor_key_set raises, or the unit goes down.
Abort(p) ==
  /\ step[p] # "idle"
  /\ aborts < MaxAborts
  /\ aborts' = aborts + 1
  /\ dirty' = dirty \union {doing[p]}
  /\ doing' = [doing EXCEPT ![p] = None]
  /\ toUpdate' = [toUpdate EXCEPT ![p] = {}]
  /\ GoTo(p, "idle")
  /\ UNCHANGED <<cluster, myGroup, myNames, unread, grants, current, started,
                 nops, acked, readFaults, capsFaults>>

Proxy(p) ==
  \/ \E o \in Ops, fault \in BOOLEAN : Start(p, o, fault)
  \/ \E fault \in BOOLEAN : GetService(p, fault) \/ SetCaps(p, fault)
  \/ SaveGroup(p)
  \/ SaveService(p)
  \/ \E s \in Services, fault \in BOOLEAN : NextService(p, s, fault)
  \/ \E n \in Names, fault \in BOOLEAN : ReadGroup(p, n, fault)
  \/ Finish(p)
  \/ Abort(p)

Next == \E p \in Proxies : Proxy(p)

Spec == Init /\ [][Next]_vars

-----------------------------------------------------------------------------
(* Properties.                                                             *)

\* Some request gave s this permission on a group, and some request put this
\* pool in that group.
AskedFor(s, perm, pool) ==
  \E o1, o2 \in started :
    /\ o1.op = "add-permissions" /\ o1.service = s /\ o1.perm = perm
    /\ o2.op = "add-pool" /\ o2.pool = pool
    /\ Key(o1) = Key(o2)

\* However the read-modify-write cycles of several proxies interleave, and
\* whatever fails, no key gains access to a pool that its service was not
\* meant to have (the collected permissions of one key never reach another).
NoUnaskedAccess ==
  \A s \in Services : caps[s] # None =>
    \A g \in caps[s] : AskedFor(s, g[1], g[2])

Stored(o) ==
  IF o.op = "add-pool"
  THEN o.pool \in groups[Key(o)].pools
  ELSE /\ o.service \in groups[Key(o)].services
       /\ <<o.perm, Key(o)>> \in services[o.service]

\* What was reported done stays on record, through later operations that
\* write the same objects back ("Add a named pool to a named group",
\* broker.py, line 265).
AckedIsStored == \A o \in acked : Stored(o)

Entitled(s) == UNION {{n[1]} \X groups[n[2]].pools : n \in services[s]}

\* Once every operation that was cut short has been repeated, and none is in
\* progress, each key grants exactly the pools of the service's groups
\* ("non-zero if any operation failed", broker.py, line 907: nothing short of
\* that was reported).
KeysMatchGroups ==
  (\A p \in Proxies : doing[p] = None) /\ dirty = {} =>
    \A s \in Services : services[s] # {} => caps[s] = Entitled(s)

\* A key in use never loses a permission on the way, not even between an
\* operation that was cut short and its repetition.
KeysOnlyGain ==
  [][\A s \in Services : caps[s] # None => caps[s] \subseteq caps'[s]]_vars
=============================================================================
