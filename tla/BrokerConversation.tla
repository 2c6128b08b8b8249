------------------------- MODULE BrokerConversation -------------------------
(***************************************************************************)
(* The conversation between the units of the ceph-proxy application and    *)
(* the remote units that want something from Ceph: hooks/ceph_hooks.py on  *)
(* one side, CephBrokerRq and the is_request_* helpers of                  *)
(* charmhelpers/contrib/storage/linux/ceph.py on the other, with Juju      *)
(* between them.                                                           *)
(*                                                                         *)
(* A remote unit writes `broker_req' in its relation settings.  Every      *)
(* proxy unit runs its own hooks, one at a time; a hook reads the          *)
(* settings, has process_requests act on the cluster, and puts an answer   *)
(* in the proxy's settings.  Juju publishes what a hook set only when the  *)
(* hook ends without error, and runs a failed hook again.                  *)
(***************************************************************************)
EXTENDS Naturals, FiniteSets

CONSTANTS
  Proxies,       \* units of the ceph-proxy application
  Clients,       \* remote units
  Requests,      \* contents of a broker_req; the request id is the sha1 of
                 \* the ops, so a request is its own id
  None,          \* an absent value
  Kind,          \* the relation of a remote unit: client, radosgw or mds
  OpsClass,      \* what CephBrokerRq._ops_equal compares of a request
  Outcomes,      \* how process_requests may end
  ReadyConfs,    \* the configurations with both fsid and admin-key set
  MaxConfs,      \* bound on the configurations the operator goes through
  MaxSends,      \* bound on the requests a remote unit writes
  MaxElections,  \* bound on the changes of Juju leader
  MaxFaults      \* bound on failed hooks and crashed units

Relations == {"radosgw", "client", "mds"}

ASSUME ConversationAssumption ==
  /\ Kind \in [Clients -> Relations]
  /\ Outcomes \subseteq {"ok", "failed", "aborted"}
  /\ ReadyConfs \subseteq 1 .. MaxConfs
  /\ MaxConfs \in Nat \ {0}
  /\ MaxSends \in Nat
  /\ MaxElections \in Nat
  /\ MaxFaults \in Nat

VARIABLES
  \* the model, as Juju keeps it
  conf,       \* number of the application's current configuration
  leader,     \* the proxy unit that is-leader holds for
  elections,  \* changes of leader so far
  newUnits,   \* per proxy, remote units whose -joined hook is due
  changed,    \* per proxy, remote units whose -changed hook is due
  confDue,    \* proxies whose config-changed hook is due
  \* the relation settings
  req,        \* broker_req of each remote unit
  sends,      \* how often each remote unit wrote its broker_req
  given,      \* per proxy and remote unit, configuration its settings show
  rsp,        \* per proxy and remote unit, broker-rsp-<unit>
  legacyRsp,  \* per proxy, broker_rsp on the client relation
  \* a remote unit's charm
  want,       \* the request its charm builds
  \* the hook that runs on each proxy
  running,    \* which hook
  phase,      \* whether it runs, or failed and waits to be run again
  hookConf,   \* the configuration its first config-get returned
  todo,       \* remote units it still has to serve
  reading,    \* the broker_req it is processing
  outGiven, outRsp, outLegacy,  \* what it passed to relation-set
  faults,     \* failed hooks so far
  \* history
  acked       \* <<p, c, r>>: p carried out request r of c with exit code 0

juju     == <<conf, leader, elections, newUnits, changed, confDue>>
settings == <<req, sends, given, rsp, legacyRsp>>
hook     == <<running, phase, hookConf, todo, reading, outGiven, outRsp,
              outLegacy>>
vars     == <<juju, settings, want, hook, faults, acked>>

-----------------------------------------------------------------------------
Hook == [name : {"joined", "changed"}, unit : Clients]
          \union {[name |-> "config", unit |-> None]}

\* send: which write of broker_req the answer is for (history only).
Reply == [id : Requests \union {None}, code : {0, 1}, send : 0 .. MaxSends]

Fetched == [unit : Clients, req : Requests, send : 0 .. MaxSends]

ASSUME NoneAssumption ==
  None \notin Requests /\ None \notin Reply /\ None \notin Fetched

Ready(v) == v \in ReadyConfs

NoSettings == [c \in Clients |-> None]
NothingGiven == [c \in Clients |-> 0]

TypeOK ==
  /\ conf \in 1 .. MaxConfs
  /\ leader \in Proxies
  /\ elections \in 0 .. MaxElections
  /\ newUnits \in [Proxies -> SUBSET Clients]
  /\ changed \in [Proxies -> SUBSET Clients]
  /\ confDue \subseteq Proxies
  /\ req \in [Clients -> Requests \union {None}]
  /\ sends \in [Clients -> 0 .. MaxSends]
  /\ given \in [Proxies -> [Clients -> 0 .. MaxConfs]]
  /\ rsp \in [Proxies -> [Clients -> Reply \union {None}]]
  /\ legacyRsp \in [Proxies -> Reply \union {None}]
  /\ want \in [Clients -> Requests]
  /\ running \in [Proxies -> Hook \union {None}]
  /\ phase \in [Proxies -> {"idle", "run", "failed"}]
  /\ \A p \in Proxies : phase[p] # "idle" => running[p] \in Hook
  /\ hookConf \in [Proxies -> 1 .. MaxConfs]
  /\ todo \in [Proxies -> SUBSET Clients]
  /\ reading \in [Proxies -> Fetched \union {None}]
  /\ outGiven \in [Proxies -> [Clients -> 0 .. MaxConfs]]
  /\ outRsp \in [Proxies -> [Clients -> Reply \union {None}]]
  /\ outLegacy \in [Proxies -> Reply \union {None}]
  /\ faults \in 0 .. MaxFaults
  /\ acked \subseteq Proxies \X Clients \X Requests

Init ==
  /\ conf = 1
  /\ leader \in Proxies
  /\ elections = 0
  /\ newUnits = [p \in Proxies |-> Clients]
  /\ changed = [p \in Proxies |-> Clients]
  /\ confDue = {}
  /\ req = [c \in Clients |-> None]
  /\ sends = [c \in Clients |-> 0]
  /\ given = [p \in Proxies |-> NothingGiven]
  /\ rsp = [p \in Proxies |-> NoSettings]
  /\ legacyRsp = [p \in Proxies |-> None]
  /\ want \in [Clients -> Requests]
  /\ running = [p \in Proxies |-> None]
  /\ phase = [p \in Proxies |-> "idle"]
  /\ hookConf = [p \in Proxies |-> 1]
  /\ todo = [p \in Proxies |-> {}]
  /\ reading = [p \in Proxies |-> None]
  /\ outGiven = [p \in Proxies |-> NothingGiven]
  /\ outRsp = [p \in Proxies |-> NoSettings]
  /\ outLegacy = [p \in Proxies |-> None]
  /\ faults = 0
  /\ acked = {}

-----------------------------------------------------------------------------
(* The remote unit: charmhelpers' client side of the conversation.         *)

\* request == previous_request, as CephBrokerRq.__eq__ has it.
EquivalentSent(c) == req[c] # None /\ OpsClass[req[c]] = OpsClass[want[c]]

Bug_AnyAnswer(p, c, r) == rsp[p][c] # None /\ rsp[p][c].code = 0

\* One proxy's settings answer request r of c.  A proxy without an answer
\* for this unit counts only through a broker_rsp that names no request.
AnsweredBy(p, c, r) ==
  IF rsp[p][c] # None
  THEN rsp[p][c].id = r /\ rsp[p][c].code = 0
  ELSE /\ Kind[c] = "client"
       /\ legacyRsp[p] # None
       /\ legacyRsp[p].id = None
       /\ legacyRsp[p].code = 0

\* is_request_complete_for_rid: any related unit will do.
IsRequestComplete(c) ==
  EquivalentSent(c) /\ \E p \in Proxies : AnsweredBy(p, c, req[c])

\* The charm's own configuration changes, and with it the request it builds.
\* Changes between two of its hooks count as one.
ChangeWant(c, r) ==
  /\ EquivalentSent(c)
  /\ sends[c] < MaxSends
  /\ r # want[c]
  /\ want' = [want EXCEPT ![c] = r]
  /\ UNCHANGED <<juju, settings, hook, faults, acked>>

\* The client charm's hook when its request is neither sent nor complete.
SendRequestIfNeeded(c) ==
  /\ ~ EquivalentSent(c)
  /\ sends[c] < MaxSends
  /\ req' = [req EXCEPT ![c] = want[c]]
  /\ sends' = [sends EXCEPT ![c] = @ + 1]
  /\ changed' = [p \in Proxies |-> changed[p] \union {c}]
  /\ UNCHANGED <<conf, leader, elections, newUnits, confDue, given, rsp,
                 legacyRsp, want, hook, faults, acked>>

-----------------------------------------------------------------------------
(* Juju, and the operator of the model.                                    *)

Configure ==
  /\ conf < MaxConfs
  /\ conf' = conf + 1
  /\ confDue' = Proxies
  /\ UNCHANGED <<leader, elections, newUnits, changed, settings, want, hook,
                 faults, acked>>

ElectLeader(p) ==
  /\ elections < MaxElections
  /\ p # leader
  /\ leader' = p
  /\ elections' = elections + 1
  /\ UNCHANGED <<conf, newUnits, changed, confDue, settings, want, hook,
                 faults, acked>>

Bug_OnlyUnitsWithRequest(p) == {c \in Clients \ newUnits[p] : req[c] # None}

\* relation-list shows the units whose -joined hook this proxy has seen.
RelatedUnits(p) == Clients \ newUnits[p]

Bug_NoNotify(p, h) == IF Ready(conf) /\ h.unit # None THEN {h.unit} ELSE {}

\* What the hook will serve: nothing before fsid and admin-key are set, the
\* unit it is about, or, for config-changed, every unit it is related to.
ToServe(p, h) ==
  IF ~ Ready(conf) THEN {}
  ELSE IF h.name = "config" THEN RelatedUnits(p) ELSE {h.unit}

BeginHook(p, h) ==
  /\ running' = [running EXCEPT ![p] = h]
  /\ phase' = [phase EXCEPT ![p] = "run"]
  /\ hookConf' = [hookConf EXCEPT ![p] = conf]
  /\ todo' = [todo EXCEPT ![p] = ToServe(p, h)]
  /\ UNCHANGED <<reading, outGiven, outRsp, outLegacy>>

RunJoinedHook(p, c) ==
  /\ phase[p] = "idle"
  /\ c \in newUnits[p]
  /\ newUnits' = [newUnits EXCEPT ![p] = @ \ {c}]
  /\ BeginHook(p, [name |-> "joined", unit |-> c])
  /\ UNCHANGED <<conf, leader, elections, changed, confDue, settings, want,
                 faults, acked>>

RunChangedHook(p, c) ==
  /\ phase[p] = "idle"
  /\ c \in changed[p] \ newUnits[p]
  /\ changed' = [changed EXCEPT ![p] = @ \ {c}]
  /\ BeginHook(p, [name |-> "changed", unit |-> c])
  /\ UNCHANGED <<conf, leader, elections, newUnits, confDue, settings, want,
                 faults, acked>>

\* config_changed, and emit_cephconf, which ends in the three notify calls.
RunConfigChangedHook(p) ==
  /\ phase[p] = "idle"
  /\ p \in confDue
  /\ confDue' = confDue \ {p}
  /\ BeginHook(p, [name |-> "config", unit |-> None])
  /\ UNCHANGED <<conf, leader, elections, newUnits, changed, settings, want,
                 faults, acked>>

RetryHook(p) ==
  /\ phase[p] = "failed"
  /\ BeginHook(p, running[p])
  /\ UNCHANGED <<juju, settings, want, faults, acked>>

-----------------------------------------------------------------------------
(* The handlers of ceph_hooks.py, up to the call of process_requests.      *)

\* notify_radosgws, then notify_client, then notify_cephfs_mds.
NotifyRank == [radosgw |-> 1, client |-> 2, mds |-> 3]

Serves(p, c) ==
  /\ phase[p] = "run"
  /\ reading[p] = None
  /\ c \in todo[p]
  /\ \A d \in todo[p] : NotifyRank[Kind[c]] <= NotifyRank[Kind[d]]

Bug_AnswersOnce(p, c) ==
  /\ todo' = [todo EXCEPT ![p] = @ \ {c}]
  /\ reading' = [reading EXCEPT ![p] =
       IF rsp[p][c] # None \/ req[c] = None THEN None
       ELSE [unit |-> c, req |-> req[c], send |-> sends[c]]]

\* settings = relation_get(...); the rest of the handler needs a broker_req.
FetchRequest(p, c) ==
  /\ todo' = [todo EXCEPT ![p] = @ \ {c}]
  /\ reading' = [reading EXCEPT ![p] =
       IF req[c] = None THEN None
       ELSE [unit |-> c, req |-> req[c], send |-> sends[c]]]

\* Keys, addresses and fsid for the remote unit.
ProvideAccess(p, c) ==
  outGiven' = [outGiven EXCEPT ![p][c] = hookConf[p]]

ClientRelationJoined(p, c) ==
  /\ Serves(p, c)
  /\ Kind[c] = "client"
  /\ running[p].name # "changed"
  /\ FetchRequest(p, c)
  /\ ProvideAccess(p, c)
  /\ UNCHANGED <<juju, settings, want, running, phase, hookConf, outRsp,
                 outLegacy, faults, acked>>

ClientRelationChanged(p, c) ==
  /\ Serves(p, c)
  /\ Kind[c] = "client"
  /\ running[p].name = "changed"
  /\ IF leader = p
     THEN FetchRequest(p, c)
     ELSE /\ todo' = [todo EXCEPT ![p] = @ \ {c}]
          /\ UNCHANGED reading
  /\ UNCHANGED <<juju, settings, want, running, phase, hookConf, outGiven,
                 outRsp, outLegacy, faults, acked>>

\* The -joined and -changed hooks of these relations are the same function.
RadosgwRelation(p, c) ==
  /\ Serves(p, c)
  /\ Kind[c] = "radosgw"
  /\ FetchRequest(p, c)
  /\ ProvideAccess(p, c)
  /\ UNCHANGED <<juju, settings, want, running, phase, hookConf, outRsp,
                 outLegacy, faults, acked>>

MdsRelationJoined(p, c) ==
  /\ Serves(p, c)
  /\ Kind[c] = "mds"
  /\ FetchRequest(p, c)
  /\ ProvideAccess(p, c)
  /\ UNCHANGED <<juju, settings, want, running, phase, hookConf, outRsp,
                 outLegacy, faults, acked>>

Bug_RawResult(f, outcome) ==
  [id   |-> IF outcome = "aborted" THEN None ELSE f.req,
   code |-> IF outcome = "ok" THEN None ELSE 1,
   send |-> f.send]

\* process_requests: a result carries the request id, the answer to an
\* exception does not.
Answer(f, outcome) ==
  [id   |-> IF outcome = "aborted" THEN None ELSE f.req,
   code |-> IF outcome = "ok" THEN 0 ELSE 1,
   send |-> f.send]

\* The answer goes to the unit's own key; client_relation_changed also
\* leaves it in broker_rsp.
ProcessRequests(p, outcome) ==
  /\ phase[p] = "run"
  /\ reading[p] # None
  /\ LET f == reading[p]
         a == Answer(f, outcome)
     IN /\ outRsp' = [outRsp EXCEPT ![p][f.unit] = a]
        /\ outLegacy' =
             IF Kind[f.unit] = "client" /\ running[p].name = "changed"
             THEN [outLegacy EXCEPT ![p] = a] ELSE outLegacy
        /\ acked' = IF outcome = "ok"
                    THEN acked \union {<<p, f.unit, f.req>>} ELSE acked
  /\ reading' = [reading EXCEPT ![p] = None]
  /\ UNCHANGED <<juju, settings, want, running, phase, hookConf, todo,
                 outGiven, faults>>

ClearOutput(p) ==
  /\ outGiven' = [outGiven EXCEPT ![p] = NothingGiven]
  /\ outRsp' = [outRsp EXCEPT ![p] = NoSettings]
  /\ outLegacy' = [outLegacy EXCEPT ![p] = None]

Bug_PublishedReplaces(old, new, absent) == new

\* relation-set changes the keys it is given and keeps the others.
Published(old, new, absent) == IF new # absent THEN new ELSE old

\* The hook ends: Juju publishes what it set.
EndHook(p) ==
  /\ phase[p] = "run"
  /\ todo[p] = {}
  /\ reading[p] = None
  /\ given' = [given EXCEPT ![p] =
       [c \in Clients |-> Published(given[p][c], outGiven[p][c], 0)]]
  /\ rsp' = [rsp EXCEPT ![p] =
       [c \in Clients |-> Published(rsp[p][c], outRsp[p][c], None)]]
  /\ legacyRsp' = [legacyRsp EXCEPT ![p] =
       Published(legacyRsp[p], outLegacy[p], None)]
  /\ ClearOutput(p)
  /\ running' = [running EXCEPT ![p] = None]
  /\ phase' = [phase EXCEPT ![p] = "idle"]
  /\ UNCHANGED <<juju, req, sends, want, hookConf, todo, reading, faults,
                 acked>>

\* An exception leaves the hook, or the unit goes down in it: nothing is
\* published.  What process_requests did to the cluster stays done.
FailHook(p) ==
  /\ phase[p] = "run"
  /\ faults < MaxFaults
  /\ faults' = faults + 1
  /\ phase' = [phase EXCEPT ![p] = "failed"]
  /\ todo' = [todo EXCEPT ![p] = {}]
  /\ reading' = [reading EXCEPT ![p] = None]
  /\ ClearOutput(p)
  /\ UNCHANGED <<juju, settings, want, running, hookConf, acked>>

-----------------------------------------------------------------------------
ServeUnit(p) == \E c \in Clients :
  \/ ClientRelationJoined(p, c)
  \/ ClientRelationChanged(p, c)
  \/ RadosgwRelation(p, c)
  \/ MdsRelationJoined(p, c)

ProcessSome(p) == \E o \in Outcomes : ProcessRequests(p, o)

StartHook(p) ==
  \/ \E c \in Clients : RunJoinedHook(p, c) \/ RunChangedHook(p, c)
  \/ RunConfigChangedHook(p)
  \/ RetryHook(p)

\* What the uniter of one proxy unit does by itself.
Uniter(p) == StartHook(p) \/ ServeUnit(p) \/ ProcessSome(p) \/ EndHook(p)

Next ==
  \/ \E c \in Clients : SendRequestIfNeeded(c)
  \/ \E c \in Clients, r \in Requests : ChangeWant(c, r)
  \/ Configure
  \/ \E p \in Proxies : ElectLeader(p) \/ Uniter(p) \/ FailHook(p)

Spec == Init /\ [][Next]_vars

\* Juju runs due hooks, lets a running hook go on and runs a failed hook
\* again; a client charm evaluates its request in every hook of its own, and
\* update-status comes round for ever.  Elections, configurations and faults
\* are nobody's duty.
Fairness ==
  /\ \A p \in Proxies : WF_vars(Uniter(p))
  /\ \A c \in Clients : WF_vars(SendRequestIfNeeded(c))

FairSpec == Spec /\ Fairness

-----------------------------------------------------------------------------
(* Properties.                                                             *)

\* A unit takes its request for complete only when some proxy carried out
\* exactly that request, for that unit, with exit code 0: no answer to an
\* earlier request, to a sister unit or to a failed run may pass for it
\* (is_request_complete_for_rid against what the handlers publish).
CompletionIsEarned ==
  \A c \in Clients :
    IsRequestComplete(c) => \E p \in Proxies : <<p, c, req[c]>> \in acked

\* No hook that would still tell p about c is running or due.
Settled(p, c) ==
  /\ phase[p] = "idle"
  /\ c \notin newUnits[p] \union changed[p]
  /\ p \notin confDue

\* p answered the last broker_req that c wrote.
AnsweredLast(p, c) == rsp[p][c] # None /\ rsp[p][c].send = sends[c]

\* Nothing is lost between hooks: a ready proxy with no hook left to run shows
\* every unit the current configuration, and has answered its last request,
\* whenever the request came (before the proxy was configured, during a hook
\* that served the previous one, or in a hook that failed).  On the client
\* relation that holds of a leader that has always been it.
SettledUnitIsServed ==
  \A p \in Proxies, c \in Clients :
    Settled(p, c) /\ Ready(conf) =>
      /\ given[p][c] = conf
      /\ req[c] # None /\ (Kind[c] = "client" => elections = 0 /\ p = leader)
           => AnsweredLast(p, c)

\* What a proxy shows a unit never falls back to an older configuration or to
\* the answer to an older request, in whatever order hooks run, fail and are
\* run again.
SettingsNeverGoBack ==
  [][\A p \in Proxies, c \in Clients :
       /\ given'[p][c] >= given[p][c]
       /\ rsp[p][c] # None =>
            rsp'[p][c] # None /\ rsp'[p][c].send >= rsp[p][c].send]_vars

\* Every unit that keeps asking a configured application is answered ("Ceph
\* will also respond to each client unit individually", ceph.py of
\* charmhelpers, line 2074): a client unit as long as the leader stays, because
\* no hook reacts to a change of leader, and one of the other relations
\* whatever becomes of the leader.
AnsweredUnderOneLeader ==
  \A c \in Clients : []<>( \/ req[c] = None
                           \/ ~ Ready(conf)
                           \/ Kind[c] = "client" /\ elections > 0
                           \/ \E p \in Proxies : AnsweredLast(p, c))
=============================================================================
