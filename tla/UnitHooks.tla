----------------------------- MODULE UnitHooks -----------------------------
(***************************************************************************)
(* The hooks of one unit of the charm, one process each: what a hook reads *)
(* of the configuration, what it does to the machine, and what it leaves   *)
(* behind for the next one.                                                *)
(*                                                                         *)
(* Juju runs one hook at a time.  The first call of config() in a hook     *)
(* fetches the configuration of that moment, and a hook that succeeds      *)
(* saves what it fetched to .juju-persistent-config; config-changed        *)
(* installs packages only when the saved source differs from the fetched   *)
(* one.  A hook that raises, or is cut short by a reboot, saves nothing    *)
(* and is run again before any other hook.                                 *)
(*                                                                         *)
(* A source is the number of the release it offers; 0 is "distro".  What   *)
(* the hooks tell other units is in BrokerConversation.                    *)
(***************************************************************************)
EXTENDS Integers, Sequences, FiniteSets

CONSTANTS Pockets,      \* cloud archive pockets: cloud-archive.list holds one
          Archives,     \* ppa: and deb sources: each stays once added
          Unsupported,  \* cloud: pockets that nobody knows
          Unknown,      \* sources that no pattern matches
          Clusters,     \* settings of a cluster: fsid, monitors, admin key
          Unset,        \* the one of them without fsid and admin key
          None,
          MaxRetries,   \* CMD_RETRY_COUNT
          MaxChanges, MaxEvents, MaxFaults

VARIABLES config,     \* what the operator configured
          due,        \* the configuration changed since config-changed began
          retry,      \* the hook Juju is to run before any other
          preparing,  \* between pre-series-upgrade and post-series-upgrade
          hook, todo, \* the hook that runs and the steps it has left
          seen,       \* the configuration it fetched
          tries,      \* failures of the apt command it runs
          saved,      \* .juju-persistent-config
          flags,      \* unit-paused and unit-upgrading in the unit's store
          lists,      \* releases that sources.list.d enables
          index,      \* releases that apt knows of
          keyring,    \* ubuntu-cloud-keyring is installed
          installed,  \* the release of the ceph packages
          files,      \* what the files of emit_cephconf were rendered from
          status,     \* of the workload
          overlooked, \* and it was set without seeing the flag "upgrading"
          locked,     \* another process holds the dpkg lock
          missed,     \* a hook other than config-changed saw a new source first
          changes, events, faults

juju == <<config, due, retry, preparing>>
process == <<hook, todo, seen, tries>>
machine == <<saved, flags, lists, index, keyring, installed, files, status,
             overlooked>>
counters == <<changes, events, faults>>
vars == <<juju, process, machine, locked, missed, counters>>

Releases == {0} \union Pockets \union Archives
Sources == Releases \union Unsupported \union Unknown

ASSUME SourcesAssumption ==
  /\ Sources \subseteq Nat
  /\ (Unsupported \union Unknown) \intersect Releases = {}
  /\ 0 \notin Pockets \union Archives /\ Pockets \intersect Archives = {}
  /\ Unsupported \intersect Unknown = {}
ASSUME ClustersAssumption == Unset \in Clusters
ASSUME NoneAssumption ==
  None \notin Clusters \union Nat \union [source : Sources, cluster : Clusters]
ASSUME BoundsAssumption ==
  {MaxRetries, MaxChanges, MaxEvents, MaxFaults} \subseteq Nat

Configs == [source : Sources, cluster : Clusters]
Files == {"ceph.conf", "admin-keyring", "mon-keyring"}
Series == {"pre-series-upgrade", "post-series-upgrade"}
Hooks == {"install", "config-changed", "relation", "update-status"} \union Series

Ready(c) == c.cluster # Unset

\* The steps of package_install, emit_cephconf and of a hook that succeeds.
Bug_UpdatesFirst == <<"add-keyring", "apt-update", "add-source", "apt-install">>
PackageInstall == <<"add-keyring", "add-source", "apt-update", "apt-install">>
EmitCephconf == <<"ceph.conf", "admin-keyring", "mon-keyring">>
Success == <<"save", "assess">>

Body(h) == CASE h = "install" -> <<"fetch">> \o (PackageInstall \o Success)
             [] h = "config-changed" -> <<"fetch", "compare">>
             [] h = "relation" -> <<"fetch">> \o Success
             [] h = "update-status" -> <<"assess">>
             [] h \in Series -> <<"fetch", "paused", "upgrading">> \o Success

Steps == {"fetch", "compare", "paused", "upgrading", "save", "assess",
          "add-keyring", "add-source", "apt-update", "apt-install"} \union Files
Commands == {"add-keyring", "add-source", "apt-update", "apt-install"}

TypeOK ==
  /\ config \in Configs /\ due \in BOOLEAN
  /\ retry \in Hooks \union {"none"} /\ preparing \in BOOLEAN
  /\ hook \in Hooks \union {"none"} /\ todo \in Seq(Steps)
  /\ (todo = <<>>) = (hook = "none")
  /\ seen \in Configs \union {None} /\ tries \in 0 .. MaxRetries
  /\ saved \in Configs \union {None}
  /\ flags \in [{"paused", "upgrading"} -> BOOLEAN]
  /\ lists \subseteq Releases /\ index \subseteq Releases
  /\ keyring \in BOOLEAN /\ installed \in Releases \union {None}
  /\ files \in [Files -> Clusters \union {None}]
  /\ status \in {"unknown", "active", "blocked", "ready-for-upgrade"}
  /\ overlooked \in BOOLEAN
  /\ locked \in BOOLEAN /\ missed \in BOOLEAN
  /\ changes \in 0 .. MaxChanges /\ events \in 0 .. MaxEvents
  /\ faults \in 0 .. MaxFaults

Init ==
  /\ config \in Configs /\ due = TRUE /\ retry = "install" /\ preparing = FALSE
  /\ hook = "none" /\ todo = <<>> /\ seen = None /\ tries = 0
  /\ saved = None /\ flags = [f \in {"paused", "upgrading"} |-> FALSE]
  /\ lists = {} /\ index = {} /\ keyring = FALSE /\ installed = None
  /\ files = [f \in Files |-> None] /\ status = "unknown" /\ overlooked = FALSE
  /\ locked = FALSE /\ missed = FALSE
  /\ changes = 0 /\ events = 0 /\ faults = 0

-----------------------------------------------------------------------------
(* The operator, Juju and the other processes of the machine.               *)

Configure ==
  /\ changes < MaxChanges /\ changes' = changes + 1
  /\ config' \in Configs \ {config} /\ due' = TRUE
  /\ UNCHANGED <<retry, preparing, process, machine, locked, missed,
                 events, faults>>

Begin(h) ==
  /\ hook = "none"
  /\ hook' = h /\ todo' = Body(h)
  /\ due' = (due /\ h # "config-changed")
  /\ UNCHANGED <<config, retry, preparing, seen, tries, machine, locked, missed,
                 changes, faults>>

\* The hook that failed, or has not run yet, or config-changed.
RunDue ==
  /\ \/ retry # "none" /\ Begin(retry)
     \/ retry = "none" /\ due /\ Begin("config-changed")
  /\ UNCHANGED events

\* A hook that something outside the unit calls for.
RunEvent ==
  /\ retry = "none" /\ ~due
  /\ events < MaxEvents /\ events' = events + 1
  /\ \/ \E h \in {"relation", "update-status"} : Begin(h)
     \/ ~preparing /\ Begin("pre-series-upgrade")
     \/ preparing /\ Begin("post-series-upgrade")

TakeLock ==
  /\ ~locked /\ locked' = TRUE
  /\ faults < MaxFaults /\ faults' = faults + 1
  /\ UNCHANGED <<juju, process, machine, missed, changes, events>>

ReleaseLock ==
  /\ locked /\ locked' = FALSE
  /\ UNCHANGED <<juju, process, machine, missed, counters>>

-----------------------------------------------------------------------------
(* The steps of the hook that runs.                                         *)

At(step) == hook # "none" /\ Head(todo) = step
Advance == todo' = Tail(todo) /\ tries' = 0

\* The process ends.
Ends == hook' = "none" /\ todo' = <<>> /\ seen' = None /\ tries' = 0

\* It ends with an error: nothing is saved and Juju will run it again.
Raises == Ends /\ retry' = hook /\ UNCHANGED <<config, due, preparing>>

\* config() for the first time in this process.
Fetch ==
  /\ At("fetch") /\ Advance
  /\ seen' = config
  /\ missed' = (missed \/ /\ hook \notin {"install", "config-changed"}
                          /\ due /\ (saved = None \/ saved.source # config.source))
  /\ UNCHANGED <<juju, hook, machine, locked, counters>>

\* c.previous('source') != config('source'); the option key is taken to stay as it
\* is and to be one that can be imported.
SourceChanged == saved = None \/ saved.source # seen.source

Bug_OnlyIfChanged ==
  IF saved # seen THEN (IF SourceChanged THEN PackageInstall ELSE <<>>)
                       \o EmitCephconf \o Success
                  ELSE Success
Bug_NeverInstalls == EmitCephconf \o Success
AfterCompare ==
  (IF SourceChanged THEN PackageInstall ELSE <<>>) \o (EmitCephconf \o Success)

Compare ==
  /\ At("compare") /\ todo' = AfterCompare
  /\ UNCHANGED <<hook, seen, tries>>
  /\ UNCHANGED <<juju, machine, locked, missed, counters>>

CanRun == ~locked

Bug_OneTooMany == tries > MaxRetries
GivesUp == tries >= MaxRetries

NeedsKeyring == seen.source \in Pockets \union Unsupported /\ ~keyring

\* ppa: and deb sources are added by add-apt-repository, others by the charm.
NeedsCommand(step) ==
  /\ step = "add-keyring" => NeedsKeyring
  /\ step = "add-source" => seen.source \in Archives

\* _run_with_retries: a command that cannot get the lock, or fails with the
\* same exit code for another reason, is tried again MaxRetries times.
AptFails(step) ==
  /\ At(step) /\ NeedsCommand(step)
  /\ \/ locked /\ UNCHANGED faults
     \/ faults < MaxFaults /\ faults' = faults + 1
  /\ IF GivesUp
     THEN Raises
     ELSE tries' = tries + 1 /\ UNCHANGED <<juju, hook, todo, seen>>
  /\ UNCHANGED <<machine, locked, missed, changes, events>>

AddKeyring ==
  /\ At("add-keyring") /\ (NeedsKeyring => CanRun) /\ Advance
  /\ keyring' = (keyring \/ NeedsKeyring)
  /\ UNCHANGED <<juju, hook, seen, saved, flags, lists, index, installed, files,
                 status, overlooked, locked, missed, counters>>

\* The list file of the cloud archive is overwritten, other sources pile up,
\* "distro" and what no pattern matches change nothing.
Enabled(s) == CASE s \in Pockets -> (lists \ Pockets) \union {s}
                [] s \in Archives -> lists \union {s}
                [] OTHER -> lists

AddSource ==
  /\ At("add-source") /\ seen.source \notin Unsupported
  /\ (seen.source \in Archives => CanRun) /\ Advance
  /\ lists' = Enabled(seen.source)
  /\ UNCHANGED <<juju, hook, seen, saved, flags, index, keyring, installed, files,
                 status, overlooked, locked, missed, counters>>

RejectSource ==
  /\ At("add-source") /\ seen.source \in Unsupported /\ Raises
  /\ UNCHANGED <<machine, locked, missed, counters>>

AptUpdate ==
  /\ At("apt-update") /\ CanRun /\ Advance
  /\ index' = lists
  /\ UNCHANGED <<juju, hook, seen, saved, flags, lists, keyring, installed, files,
                 status, overlooked, locked, missed, counters>>

\* apt installs the newest release it knows of and never goes back to an older.
Offered == {0} \union index \union (IF installed = None THEN {} ELSE {installed})
Newest(r) == r \in Offered /\ \A q \in Offered : q <= r

AptInstall ==
  /\ At("apt-install") /\ CanRun /\ Advance
  /\ \E r \in Releases : Newest(r) /\ installed' = r
  /\ UNCHANGED <<juju, hook, seen, saved, flags, lists, index, keyring, files,
                 status, overlooked, locked, missed, counters>>

Render(f) ==
  /\ At(f) /\ Advance
  /\ files' = [files EXCEPT ![f] = seen.cluster]
  /\ UNCHANGED <<juju, hook, seen, saved, flags, lists, index, keyring, installed,
                 status, overlooked, locked, missed, counters>>

\* set_unit_paused, set_unit_upgrading and their counterparts: a transaction each.
SetFlag(f) ==
  /\ At(f) /\ Advance
  /\ flags' = [flags EXCEPT ![f] = (hook = "pre-series-upgrade")]
  /\ UNCHANGED <<juju, hook, seen, saved, lists, index, keyring, installed, files,
                 status, overlooked, locked, missed, counters>>

\* The callbacks of a hook that did not raise.
Save ==
  /\ At("save") /\ Advance
  /\ saved' = seen
  /\ missed' = (missed /\ ~(hook \in {"install", "config-changed"} /\ SourceChanged))
  /\ UNCHANGED <<juju, hook, seen, flags, lists, index, keyring, installed, files,
                 status, overlooked, locked, counters>>

Bug_ReadyFirst(c, upgrading) == CASE Ready(c) -> "active"
                                  [] upgrading /\ ~Ready(c) -> "ready-for-upgrade"
                                  [] OTHER -> "blocked"
Assessed(c, upgrading) == CASE upgrading -> "ready-for-upgrade"
                            [] Ready(c) /\ ~upgrading -> "active"
                            [] OTHER -> "blocked"

\* assess_status, after which the process ends.  update-status fetches only
\* here, when the callbacks have run, and so saves nothing.  When the unit's
\* store cannot be read, is_unit_upgrading_set answers that no upgrade is on.
AssessStatus ==
  /\ At("assess") /\ Ends
  /\ overlooked' \in {FALSE, flags["upgrading"]}
  /\ IF overlooked' THEN faults < MaxFaults /\ faults' = faults + 1
                    ELSE UNCHANGED faults
  /\ status' = Assessed(IF seen = None THEN config ELSE seen,
                        flags["upgrading"] /\ ~overlooked')
  /\ retry' = "none"
  /\ preparing' = CASE hook = "pre-series-upgrade" -> TRUE
                    [] hook = "post-series-upgrade" -> FALSE
                    [] OTHER -> preparing
  /\ UNCHANGED <<config, due, saved, flags, lists, index, keyring, installed,
                 files, locked, missed, changes, events>>

\* Any step may raise, and the machine may go down.  Both files that are
\* opened for writing are empty until they are written.
Interrupt ==
  /\ hook # "none" /\ Raises
  /\ faults < MaxFaults /\ faults' = faults + 1
  /\ \E torn \in BOOLEAN :
       /\ files' = [f \in Files |->
                      IF torn /\ At(f) /\ files[f] # seen.cluster THEN None ELSE files[f]]
       /\ saved' = IF torn /\ At("save") THEN None ELSE saved
  /\ UNCHANGED <<flags, lists, index, keyring, installed, status, overlooked,
                 locked, missed, changes, events>>

Step ==
  \/ Fetch \/ Compare
  \/ AddKeyring \/ AddSource \/ RejectSource \/ AptUpdate \/ AptInstall
  \/ \E s \in Commands : AptFails(s)
  \/ \E f \in Files : Render(f)
  \/ \E f \in {"paused", "upgrading"} : SetFlag(f)
  \/ Save \/ AssessStatus

Next == Configure \/ RunDue \/ RunEvent \/ TakeLock \/ ReleaseLock \/ Step \/ Interrupt

Spec == Init /\ [][Next]_vars

\* Juju runs what is due, a hook runs on, and nobody keeps the lock for good.
FairSpec == Spec /\ WF_vars(RunDue) /\ WF_vars(Step) /\ WF_vars(ReleaseLock)

-----------------------------------------------------------------------------
(* Properties.                                                              *)

\* Nothing runs and nothing is left to be run.
Quiet == hook = "none" /\ retry = "none" /\ ~due

Follows(c) == c.source \in Releases => installed # None /\ installed >= c.source

\* What the callbacks of a successful hook recorded as done is done: when no
\* relation hook was the first to see a new source, the packages are those of
\* the recorded source or newer, whatever hooks failed, were cut short or
\* retried apt in between.
SavedIsInstalled ==
  saved # None /\ ~missed => Follows(saved)

\* Once nothing is left to run, all three files of emit_cephconf are complete
\* and from the configuration of now, although a relation hook that saw the
\* change first makes config-changed believe that nothing changed.
FilesMatchConfig == Quiet => \A f \in Files : files[f] = config.cluster

\* The status the operator reads is about the configuration and the series
\* upgrade of now, not about what an earlier or failed hook saw.  Only a read
\* of the flag that failed in the very last hook hides the upgrade, and then
\* the status is still about the configuration of now.
StatusIsCurrent ==
  LET shown == preparing /\ ~overlooked
  IN Quiet => status = CASE shown -> "ready-for-upgrade"
                         [] ~shown /\ Ready(config) -> "active"
                         [] OTHER -> "blocked"

\* A configuration whose source can be added takes effect, however often hooks
\* fail and apt waits for its lock: again and again, and in the end for good,
\* nothing is left to run and the files and the packages are those of now.
ChangesTakeEffect ==
  []<>(\/ config.source \in Unsupported
       \/ /\ Quiet /\ (missed \/ Follows(config))
          /\ \A f \in Files : files[f] = config.cluster)

\* config.yaml of the source: "updating this setting to a source that is known
\* to provide a later version of OpenStack will trigger a software upgrade".
ChangeTriggersUpgrade == Quiet => Follows(config)

=============================================================================
