------------------------------ MODULE NamedKeys ------------------------------
(***************************************************************************)
(* The cephx keys that hooks hand out to their relations: hooks/ceph.py,   *)
(* get_named_entity_key and what calls it, beside the broker operations of *)
(* KeyGroups that narrow the capabilities of the same keys.                *)
(*                                                                         *)
(* A hook asks for the key of a service, and creates the key if it cannot  *)
(* get it; the monitors' leader brings the capabilities of a key that is   *)
(* there up to date, which means back to those of a new key.  A proxy is   *)
(* that leader only if another charm runs a monitor on its machine.        *)
(***************************************************************************)
EXTENDS KeyGroups

CONSTANTS
  MonLeaders,    \* units with the leading monitor on their machine
  MaxFetches,    \* bound on hooks that ask for a key
  MaxFetchFaults \* bound on their commands that fail

ASSUME NamedKeysAssumption ==
  /\ MonLeaders \subseteq Proxies
  /\ MaxFetches \in Nat
  /\ MaxFetchFaults \in Nat
  /\ \A S \in SUBSET Grants : S # None

VARIABLES
  keys,     \* services that have a key
  wants,    \* per proxy the service whose key its hook asks for, or None
  command,  \* the ceph auth command that is next: "get", "caps" or "create"
  handed,   \* services whose key was handed out
  fetches, fetchFaults

fetching == <<keys, wants, command, handed, fetches, fetchFaults>>
allVars == <<vars, fetching>>

\* Among the types: a unit runs one hook at a time, and no key is handed out
\* that is not there.
NamedKeysTypeOK ==
  /\ TypeOK
  /\ keys \subseteq Services
  /\ wants \in [Proxies -> Services \union {None}]
  /\ command \in [Proxies -> {"get", "caps", "create"}]
  /\ handed \subseteq keys
  /\ fetches \in 0 .. MaxFetches
  /\ fetchFaults \in 0 .. MaxFetchFaults
  /\ \A p \in Proxies : wants[p] # None => doing[p] = None

NamedKeysInit ==
  /\ Init
  /\ keys = {} /\ handed = {}
  /\ wants = [p \in Proxies |-> None]
  /\ command = [p \in Proxies |-> "get"]
  /\ fetches = 0 /\ fetchFaults = 0

-----------------------------------------------------------------------------

Faults(fault) ==
  /\ fault => fetchFaults < MaxFetchFaults
  /\ fetchFaults' = IF fault THEN fetchFaults + 1 ELSE fetchFaults

\* get_named_entity_key returns the key.
HandOut(p) ==
  /\ handed' = handed \union {wants[p]}
  /\ wants' = [wants EXCEPT ![p] = None]
  /\ UNCHANGED command

Run(p, c) ==
  /\ command' = [command EXCEPT ![p] = c]
  /\ UNCHANGED <<wants, handed>>

Ask(p, s) ==
  /\ doing[p] = None /\ wants[p] = None
  /\ fetches < MaxFetches
  /\ fetches' = fetches + 1
  /\ wants' = [wants EXCEPT ![p] = s]
  /\ command' = [command EXCEPT ![p] = "get"]
  /\ UNCHANGED <<vars, keys, handed, fetchFaults>>

Bug_LeadsAlways(p) == TRUE

\* is_leader: there is no admin socket to ask where no monitor runs.
LeadsMonitors(p) == p \in MonLeaders

Bug_NoExitStatus(s, fault) == ~fault

\* ceph auth get succeeds.
IsThere(s, fault) == ~fault /\ s \in keys

GetKey(p, fault) ==
  /\ wants[p] # None /\ command[p] = "get"
  /\ Faults(fault)
  /\ CASE ~IsThere(wants[p], fault) -> Run(p, "create")
       [] IsThere(wants[p], fault) /\ LeadsMonitors(p) -> Run(p, "caps")
       [] OTHER -> HandOut(p)
  /\ UNCHANGED <<vars, keys, fetches>>

\* upgrade_key_caps; its failure too is taken for a key that is not there.
UpgradeCaps(p, fault) ==
  /\ wants[p] # None /\ command[p] = "caps"
  /\ Faults(fault)
  /\ caps' = IF fault THEN caps ELSE [caps EXCEPT ![wants[p]] = None]
  /\ IF fault THEN Run(p, "create") ELSE HandOut(p)
  /\ UNCHANGED <<groups, services, local, history, faults, keys, fetches>>

\* ceph auth get-or-create, which refuses a key with other capabilities.  The
\* exception ends the hook.
CreateKey(p, fault) ==
  /\ wants[p] # None /\ command[p] = "create"
  /\ Faults(fault)
  /\ LET s == wants[p]
         works == ~fault /\ (s \in keys => caps[s] = None)
     IN /\ keys' = IF works THEN keys \union {s} ELSE keys
        /\ IF works THEN HandOut(p)
           ELSE /\ wants' = [wants EXCEPT ![p] = None]
                /\ UNCHANGED <<command, handed>>
  /\ UNCHANGED <<vars, fetches>>

\* Of a key that is not there ceph sets no capabilities; update_service_-
\* permissions logs the failure and passes over it.
CapsOfNoKey(p) ==
  /\ step[p] = "get_groups" /\ unread[p] = {}
  /\ current[p] \notin keys
  /\ GoTo(p, "next_service")
  /\ UNCHANGED <<cluster, doing, myGroup, myNames, unread, grants, toUpdate,
                 current, history, faults, fetching>>

BrokerStep(p) ==
  /\ wants[p] = None
  /\ Proxy(p)
  /\ \A s \in Services \ keys : caps'[s] = caps[s]
  /\ UNCHANGED fetching

NamedKeysNext ==
  \E p \in Proxies :
    \/ \E s \in Services : Ask(p, s)
    \/ \E fault \in BOOLEAN :
         GetKey(p, fault) \/ UpgradeCaps(p, fault) \/ CreateKey(p, fault)
    \/ CapsOfNoKey(p)
    \/ BrokerStep(p)

NamedKeysSpec == NamedKeysInit /\ [][NamedKeysNext]_allVars

-----------------------------------------------------------------------------
(* Properties.                                                             *)

\* A key that was narrowed to the pools of groups is never opened again by a
\* hook that hands it out, whatever fails on the way, unless the unit's machine
\* runs the leading monitor: the capabilities of a new key allow every pool.
NarrowedStaysNarrowed ==
  [][\A s \in Services :
       caps[s] # None /\ caps'[s] = None
       => \E p \in MonLeaders : wants[p] = s]_allVars
=============================================================================
