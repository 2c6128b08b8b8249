# A verification project for charm-ceph-proxy

charm-ceph-proxy stands in for a Ceph cluster that Juju does not manage: other
charms relate to it as they would to ceph-mon, and its units carry out what
those charms ask for with `ceph` commands against an external cluster.  The
modules here model the parts of the charm, and of the library it shares with
the other Ceph charms, that go wrong in ways a unit test hardly reaches: the
conversation with remote units, the execution of broker requests, the pool
groups that give cephx keys their capabilities, the keys themselves, the hooks
of one unit with packages and configuration, the preparation of devices, and
the rolling upgrade of a cluster.

## Inventory

| component | source | state it keeps | operations | interacts with | modules |
|---|---|---|---|---|---|
| Relation hooks, towards other units | `hooks/ceph_hooks.py` | relation settings (`key`, `auth`, `fsid`, `broker-rsp-<unit>`, `broker_rsp`) | `config-changed` with three `notify_*`, `radosgw-`, `mds-`, `client-relation-joined` and `-changed` | Juju runs one hook at a time on each unit, publishes its `relation-set` at the end, and repeats a failed hook | `BrokerConversation` |
| Unit hooks, towards their own machine | `hooks/ceph_hooks.py`, `charmhelpers/core`, `charmhelpers/fetch` | `.juju-persistent-config`, flags in the key-value store, apt sources, packages, `ceph.conf` and keyrings, workload status | `install`, `config-changed`, `update-status`, `pre-` and `post-series-upgrade` | apt with a lock that others hold; the operator, who changes the configuration at any time | `UnitHooks` |
| Client side of the protocol | `charmhelpers/contrib/storage/linux/ceph.py` 1680-2260 | `broker_req` in the remote unit's settings | `send_request_if_needed`, `is_request_complete` | reads the answers of every proxy unit | `BrokerConversation` |
| Broker request processing | `lib/charms_ceph/broker.py` | none of its own | `process_requests`, one handler for each operation | the pool classes, the group operations, `ceph` | `BrokerRequests` |
| Pool classes | `charmhelpers/contrib/storage/linux/ceph.py` 240-860 | pools and cache tiers in the cluster | `create`, `_post_create`, `update`, `add_cache_tier`, `remove_cache_tier` | `ceph osd` commands | `BrokerRequests` |
| Placement group sizing | `charmhelpers/contrib/storage/linux/ceph.py` 510-600 | none (pure) | `get_pgs` | the pool classes | `PlacementGroups` |
| Actions | `actions/` | none | one operator command each | share the pool functions with the broker | `BrokerRequests` |
| CRUSH map editing | `lib/charms_ceph/crush_utils.py` | text of the map | `move-osd-to-bucket` | broker | `BrokerRequests` |
| Groups and key capabilities | `lib/charms_ceph/broker.py` 202-393 | JSON objects in the monitors' config-key store; capabilities of cephx keys | `add-permissions-to-key`, `add_pool_to_group` | every proxy unit, with no lock | `KeyGroups` |
| cephx keys of relations | `hooks/ceph.py` | keys in the cluster | `get_named_entity_key`, `upgrade_key_caps` | handed out by the hooks; share capabilities with the groups | `NamedKeys` |
| Rolling upgrade | `lib/charms_ceph/utils.py` | `<service>_<host>_<version>_{start,alive,done}` in the config-key store; daemons and packages of each host | `roll_monitor_cluster`, `roll_osd_cluster`, `lock_and_roll`, `WatchDog` | other hosts, by timestamps | `Turns`, `RollingUpgrade` |
| OSD devices | `lib/charms_ceph/utils.py`, `charmhelpers/contrib/storage/linux/lvm.py` | disks, volumes, the record `osd-devices` in the unit's key-value store | `osdize_dev`, `_allocate_logical_volume`, `_ceph_disk` | hooks that run again | `OsdDevices` |
| Bootstrap of monitors | `hooks/ceph.py`, `lib/charms_ceph/utils.py` | files | `bootstrap_monitor_cluster` | nobody | |
| The rest of charmhelpers; packaging, templates, nagios | | | | | |

What is hard here, and what makes it correct:

- **Order of hooks.**  Joined, changed and config-changed hooks come in many
  orders on each proxy unit; a request may be written before the proxy is
  configured, during a hook that serves an earlier one, or lose its leader.
  Correct: nothing is lost between hooks, what is shown never goes back, a
  unit never takes somebody else's answer for its own.
- **Failed hooks.**  A hook that fails publishes nothing although the cluster
  has changed, and saves nothing of the configuration it saw.  Correct: the
  repetition makes up for it.
- **Stale configuration.**  config-changed compares with what the last
  successful hook saved, whichever hook that was.  Correct: what is recorded is
  installed, files and status follow the configuration of now.
- **Two proxies at once.**  `client_relation_joined` and the radosgw and mds
  hooks carry out requests on every unit, not only on the leader.  Correct:
  no key gains what it was not given, and a pool has what it was asked for.
- **Read, change, write back.**  Groups and services are read and written in
  separate commands.  Correct: what was reported done stays stored.
- **Partial failure.**  A handler is many commands, and so is the preparation
  of a device; any may fail, or the unit may go down between two.  Correct: an
  answer without an error means what it says, a record names an OSD, and the
  operation repeated ends where it should.
- **Time.**  Hosts of a rolling upgrade wait for each other by the clock, and
  their clocks differ.  Correct: one host at a time as long as the timing that
  the code counts on holds, and every roll ends.

`PROJECT.json` lists every hazard with its line and the properties about it, or why
no property about it holds.

## Modules

### BrokerConversation

The proxy's hooks on one side, the client side of the protocol on the other,
and Juju between them.  Each proxy runs one hook at a time: it begins
(`RunJoinedHook`, `RunChangedHook`, `RunConfigChangedHook`, `RetryHook`), reads
the settings of the units it serves (`ClientRelationJoined`,
`ClientRelationChanged`, `RadosgwRelation`, `MdsRelationJoined`), carries out
what it read (`ProcessRequests`) and ends (`EndHook`) or fails (`FailHook`).
What it passes to `relation-set` sits in `outGiven`, `outRsp` and `outLegacy`
until it ends, so that other units read it only then, and a request may be
overwritten between the reading and the answer.  The remote unit writes
`broker_req` when its charm wants another request than the one it sent
(`SendRequestIfNeeded`), and evaluates `IsRequestComplete`.

Abstractions: the request id is the sha1 of the ops, so a request is its own
id; `OpsClass` says which requests `_ops_equal` cannot tell apart; keys,
addresses and fsid together are the number of the configuration they come from
(`given`); `process_requests` ends in one of `Outcomes`.  `send` in an answer
and `acked` are history variables.  `config()` is read once in a hook, as
charmhelpers caches it.  The marks of broker actions and the builders of
requests are left out.

### BrokerRequests

`process_requests_v1` with every handler, and the actions, which call the same
functions.  Each handler is written as the list of its steps (`CreatePoolPlan`,
`AddCacheTier`, `CreateCephfsPlan`, ...), one command or check each, and
actions carry out the first step left: `IfThere` skips to the update of an
existing pool, `Returns` ends the handler with an error dict, `Raises` ends the
request with the answer of `process_requests`' except clause.  An operator's
action is a request of one operation with its own pre-flight checks
(`ActionPlan`), and its failure is that of the action.  `pools` has which
properties were set for each pool, `tiers` how far a cache tier is attached,
and `dirty` which tiers hold data that their cold pool lacks: clients write to
a writeback tier at any time (`ClientWrites`).  Of parameters only what the
handlers tell apart is kept: present, missing or invalid.  The radosgw-admin
handlers are one operation with two outcomes, `move-osd-to-bucket` is the error
it always ends in, and the group of a pool is one step here (`KeyGroups` has
the details).

External assumptions, on commands of Ceph that the code relies on: `osd pool
create` leaves a pool that is there alone, `osd pool rename` of a pool that was
renamed before succeeds, deleting a pool that is gone succeeds, `fs new` exits
with 22 for a file system that is there and may do so for other reasons, and a
tier with an overlay cannot be removed.

### PlacementGroups

`get_pgs` and what its callers make of it, as operators on integers.  The
products of floating point numbers are rounded either way where a rounding
error can matter (the operators return a set of results).  What the comments of
the code promise of the result are assumptions that TLC evaluates over bounded
inputs in every run of `BrokerRequests`: `NearestPowerIsRight`, `ShareIsKept`,
`NotTooManyCreated`.

### KeyGroups and NamedKeys

`KeyGroups` has `handle_add_permissions_to_key` and `add_pool_to_group`, one
`config-key` or `auth caps` command in each action, on any number of proxies.
A get that fails is one that finds nothing (`Get`), a set that fails or a crash
ends the operation (`Abort`), an `auth caps` that fails is passed over
(`SetCaps`).  The loop over `group['services']` runs over the copy that the
operation read (`toUpdate`), and each turn reads the service and its groups
anew (`NextService`, `ReadGroup`).  Lists whose order nobody depends on are
sets; `object_prefix_perms`, which travel with the service unchanged, are left
out.  Group names carry their namespace as a prefix sequence, so that a name
prefixed twice is another name, as in the code.

`NamedKeys` extends it with the hooks that hand out keys: `auth get` (`GetKey`),
the return to default capabilities on a machine where the monitors' leader runs
(`UpgradeCaps`), and `get-or-create` when the key was not found (`CreateKey`).
Both change `caps` of the same keys, and a unit does one or the other at a time.

### UnitHooks

One unit's hooks as lists of steps (`Body`): `config()` fetches the
configuration (`Fetch`), a new source is added, apt updated and the packages
installed (`AddSource`, `AptUpdate`, `AptInstall`), `emit_cephconf` writes three
files one by one (`Render`), and the callbacks at the end save the
configuration and set the workload status (`Save`, `AssessStatus`).  A hook that
raises or is cut short (`Interrupt`) saves nothing, may leave the file it was
writing empty, and is run again first (`retry`).  Another process may
hold the dpkg lock for as long as it likes; `apt` tries `MaxRetries` times.  A
source is the number of the release it offers, a cluster configuration a model
value.  `add-apt-repository` is retried like `apt`; one that fails is taken to
have added nothing.  `is_unit_upgrading_set` takes a read that fails for a flag
that is not set, and the status then hides a series upgrade (`overlooked`).  `missed` is a history variable: another hook than config-changed was
the first to see a new source.

### OsdDevices

`osdize_dev` for each device in turn, with the commands that prepare it
(`vaultlocker`, `pvcreate`, `vgcreate`, `lvcreate`, `ceph-volume`, or
`ceph-disk`: `InitializeDisk`, `CreatePv`, `CreateVg`, `CreateLv`, `Create`), the
same for a utility device that OSDs share (`LeastUsed`), and the record of
processed devices (`Record`).  Any command may fail, the unit may go down
between two (`Abort`), and the hook runs again (`Begin`).  `stage` is how far a
disk has come, `lvs` how many volumes or partitions it has.  A utility device
has room for `Capacity` volumes.

Most looks at a disk (`partx`, `sgdisk`, `lsblk`, `pvdisplay`, `cryptsetup`) say
the same when they fail as when there is nothing to see.  So every look takes
what was seen, any part of what there is to see (`Signs`): in `Look`, in
`InitializeDisk`, in `AllocateVolume` and in `ChooseUtility`.  One that misses
something costs a fault, and `missed` remembers it for the attempt it led to.
What then keeps an OSD from being lost is outside the charm: LVM refuses a
disk that is in use, in a group or partitioned (`CreatePv`), and `vaultlocker`
one that is mapped or held.  A disk of `ceph-disk`'s that is not mounted is
neither, and where `sgdisk` fails on it with keys in vault it is formatted:
`OsdsAreKept` names that exception.

### Turns and RollingUpgrade

`Turns` is the abstract specification: a host takes its turn when every host
before it has had its own or has given it up.  `RollingUpgrade` is the code:
each host's hook is a list of steps (`Plan`), the waiting loops look at the
three keys of the previous host at most `PollTime` apart, and time passes in
`Tick`.  Clocks differ by `Skew`; times are kept as ages, since what the code
computes are differences.  Upgrading OSDs one by one has the states that
`maintain_osd_state` remembers and restores.  Faults: a command fails, a host
goes down and boots, a daemon does not start, a look at a key finds nothing.
`Phase` is the refinement mapping, `InOrder` the instance of `Turns`.

### Proof modules and instances

Modules named `...Proofs`, and `BrokerConversationSettled`, extend the modules
above with theorems; modules named `MC...` have the instances for TLC.
Operators named `Bug_...` are mutated forms of a definition that follows; no
action uses them.  They are there to show that each property of each run can
fail.

## Runs

| run | instance | shows |
|---|---|---|
| `conv_one_proxy` | 1 proxy, 2 client units, 2 requests, 2 writes each, late configuration, all outcomes, 1 failed hook | `TypeOK`; an answer counts only for the request and the unit it was given to (`CompletionIsEarned`); nothing is lost between hooks (`SettledUnitIsServed`); what is shown never goes back (`SettingsNeverGoBack`) |
| `conv_mixed` | 1 proxy, a gateway and a metadata server, configuration set, taken away, set again, 1 failed hook | `SettledUnitIsServed` and `SettingsNeverGoBack` over the hooks of the other relations and the order of `notify_*` |
| `conv_live` | 2 proxies, 1 client unit, late configuration, 1 failed hook, 1 change of leader | every request is answered as long as the leader stays (`AnsweredUnderOneLeader`), `SettledUnitIsServed` with two proxies |
| `groups_one_proxy` | 1 proxy, 2 services that share a group, 2 pools in 2 groups, 6 operations, one of them cut short | `TypeOK`; what was reported stays stored (`AckedIsStored`), keys come to match their groups (`KeysMatchGroups`), no key loses a permission on the way (`KeysOnlyGain`) |
| `groups_two_proxies` | `NamedKeys` with 2 proxies, one of them beside the leading monitor, 3 operations on groups, 2 fetches of keys, 1 failed fetch | `NamedKeysTypeOK`; no key gains access its service was not given (`NoUnaskedAccess`); a key that was narrowed to its groups is opened again only by the proxy beside the leading monitor (`NarrowedStaysNarrowed`) |
| `requests_quiet` | 1 proxy, every operation of the broker and every action, with missing and invalid parameters, taken up 3 times, client writes to a tier, 1 failed look | `TypeOK`; an answer without an error means that what was asked for is there (`AnswerMeansDone`); no tier is removed with data that was not flushed (`NothingDirtyIsRemoved`); settings of creation stay (`CreationSettingsStick`) |
| `requests_faulty` | 2 proxies, requests of pools, profiles, file systems and tiers, 2 runs at once, one failed look, one failed command and one crash | the part of that promise which survives (`AnswerMeansUpdated`) |
| `roll_in_turn` | 3 hosts with 1 daemon each, monitors or OSDs with and without change of owner, one clock ahead, timing within the limits below, 1 fault of any kind | `TypeOK`; a finished host is upgraded (`DoneMeansUpgraded`); the cluster is told so only when it is true (`SettledMeansUpgraded`); the roll implements `Turns` (`TurnsAreTaken`); every hook ends or waits for an OSD nobody brings back (`EveryRollEnds`) |
| `osd_devices` | 3 devices, 2 utility devices with room for 2 volumes each, 4 setups, 3 commands or looks that fail | `TypeOK`; what is recorded is an OSD (`RecordedIsOsd`); a hook sets about an OSD again only after a look at it that failed (`PreparedOnce`), and does no harm to it (`OsdsAreKept`); volumes are spread evenly (`UtilitiesAreBalanced`); a hook that ends has dealt with every device (`EndedMeansPrepared`) |
| `unit_hooks` | sources `distro`, a pocket, an archive and an unsupported pocket, 2 cluster configurations, 2 changes at any moment, 2 other hooks, 1 fault, failed read of a flag or foreign apt lock | `TypeOK`; what is recorded is installed (`SavedIsInstalled`); at rest files and status are of now (`FilesMatchConfig`, `StatusIsCurrent`); every change takes effect (`ChangesTakeEffect`) |

Two more runs show a disagreement between the code and what its docstrings or
its documentation say; each ends in a counterexample.

| run | property | what happens |
|---|---|---|
| `requests_tier` | `RemovedMeansGone` | `remove_cache_tier` of a read-only tier leaves its overlay, ceph refuses the removal, and the request made again finds mode none, does nothing and is answered with exit code 0 |
| `unit_config_race` | `ChangeTriggersUpgrade` | a relation hook fetches a new source before config-changed does and saves it; config-changed finds no difference and installs nothing |

### Disagreements that no run is spent on

Met while reading and modelling; several of them are why a property above is
stated with a condition.

Conversation (`hooks/ceph_hooks.py`, `contrib/storage/linux/ceph.py`):
- The follower's changed hook ignores a request, leadership moves to it, and
  the old leader's hook ignores it too: no hook reacts to the election
  (`ceph_hooks.py` 291, `ceph.py` 2074).  Hence "as long as the leader stays".
- `client_relation_joined` processes requests on every unit although a comment
  says only the leader does (290 and 268).
- A request written again after another one takes its old answer for the new
  one, because its id is the sha1 of its ops; `_ops_equal` cannot tell apart
  requests that differ in `k` or `new-name`.

Groups and keys (`broker.py`, `hooks/ceph.py`):
- Two proxies read one group, each adds its pool, the second write drops the
  first (`broker.py` 269 and 265).  Hence one proxy in `groups_one_proxy`.
- `_build_service_groups` prefixes a name that has its prefix already, reads a
  group that does not exist, and the key gets no pool (354 and 207).  Hence no
  namespaces in the runs and `Plain` in the theorems.
- A failed read empties a group at the next save (`ceph.py` 934), a failed
  `auth caps` is not reported (`broker.py` 260), nor is one in
  `handle_set_key_permissions` (242).
- "Apply any changes to key capabilities, dealing with upgrades" (`hooks/ceph.py`
  433) never happens on a proxy without a monitor on its machine; beside the
  leading monitor it opens narrowed keys again.  `pool_list` changes the shared
  default capabilities (463).  A failed `auth get` or `auth caps` leads to
  `get-or-create`, which refuses, and the hook fails and is retried.  The
  capabilities of a service without key are passed over, and its key is later
  created with the default ones.

Requests, pools and actions:
- Operations after a failed one are carried out (`broker.py` 904 and 912, where
  the docstring says that processing stops), and an earlier error is swallowed
  when the last operation succeeds (977 and 907).
- The answer of the except clause has no request id (142); a result with the
  bytes of `err.output` cannot be encoded and fails the hook (744).
- A crash between `_create` and `_post_create`: the repetition finds the pool
  and never sets its size (`ceph.py` 381 and 634).  Hence `AnswerMeansUpdated`
  next to `AnswerMeansDone`.
- A file system whose `add_data_pool` failed is taken for done the next time
  (`broker.py` 772); an existing cephfs client is answered with its key whatever
  its capabilities.
- A `null` erasure profile raises in `ErasurePool._create` where the default was
  checked (`ceph.py` 731); the plugin "local" of `create_erasure_profile` is
  always invalid.
- The removal of a writeback tier that was cut short (mode forward) also ends in
  silent success at the next attempt.  A tier that one proxy adds while another
  removes it can lose dirty data: `NothingDirtyIsRemoved` is checked on one.
- `move-osd-to-bucket` always fails: `crush.stdout` is asked of a string
  (`crush_utils.py`).  `action_fail` in the actions' pre-flight checks does not
  return.  `pool-set` imports a module `ceph_broker` that is not there,
  so that of the actions only `set-pool-max-bytes` sets a value.  Handlers
  that use `err.message` raise AttributeError in Python 3.
- `get_pgs` (`ceph.py` 584 and 598): of about 413000 inputs tried, 31 miss the
  25 % rule by a rounding error (weight 1.4, 30 OSDs, k + m = 7: 4 groups where 8
  are due).  No OSD at all gives 200 groups, one OSD fewer.

Unit hooks:
- A source change that is undone while config-changed is failing leaves the other
  source's list enabled; `distro` after a `cloud:` source leaves the old list.
- A failed read of the flag shows a unit in a series upgrade as active
  (`contrib/openstack/utils.py` 2182), until the next hook.
- update-status fetches the configuration only after its callbacks, and so saves
  nothing.  An unknown source is only logged; an unsupported pocket fails the
  hook until the configuration changes.
- The keyring file of an earlier admin-user stays.  Nothing reads `unit-paused`.
- Packages of the gateway that cannot be installed do not fail the hook; a later
  broker operation then meets FileNotFoundError.

OSD devices (`utils.py` unless noted):
- With `ignore_errors` a failed device is recorded as processed, against the
  comment "Record processing of device only on success" (1650).
- A crash between `pvcreate` and `vgcreate`, or after `lvcreate`, makes every
  retry fail; on a shared utility device it blocks the OSDs that come later.
- Under vaultlocker a device that was cut short is passed over in silence by
  every later hook, and so is one for whose volume a utility device had no room;
  `EndedMeansPrepared` names the exception.  Utility devices under vaultlocker
  are not balanced, since no path shows their volumes (1510, and `get_lvs`).
- `is_device_mounted` is False when `lsblk` fails, and `lsblk_output` is then
  unbound in the error path.
- "A block device will only be prepared once" (1563): a hook sets about an OSD
  again when `pvdisplay` or `sgdisk` fails on it (`lvm.py` 46 and 994) and its
  record was lost with a crash.  A utility device whose look fails counts as
  empty (1488, `lvm.py` 49).  Hence `missed` and the faults in `PreparedOnce`
  and `UtilitiesAreBalanced`.

Rolling upgrade (`utils.py`):
- When the first host fails before it has set its `_start` key, the waits of all
  later hosts expire at the same moment and they restart together, against "It
  rolls an entire server at a time" (2605).  Hence no fault at `packages` in
  `roll_in_turn`.
- `wait_for_all_monitors_to_upgrade` "will return after a timeout" (2085) but
  raises, even if the last key came in time.
- The WatchDog "doesn't rely on the clock of the other side", but `timed_wait`
  compares its own clock with the other's time.  A failed read of a key looks
  like a host that never kicked; after ten minutes one such read ends the wait.
- A stopped or failed OSD keeps `get_osd_state` in its loop for ever; an error in
  the block of `maintain_osd_state` is held there.  A host that goes down between
  disable and enable leaves its OSD disabled and its retry hangs.  A remembered
  state "booting" never comes back.
- A failed `service_restart` is passed over and `_done` is set.  The start
  timeouts of later hosts expire when the hosts before them take longer than 30
  minutes together.  The retry of a failed host is not ordered.

### Bounds

Every bound is a constant whose name begins with `Max`, `Capacity`, or one of
the times of `RollingUpgrade`, and each run's `.cfg` gives its value.  Runs with
failures allow one of each kind at any step (three in `osd_devices`, so that a
crash, a look that misses its trace and a command that fails come together):
enough to cut every operation short once at every point and repeat it, and most
safety properties are proved without that bound.  `requests_quiet` allows one failed
look because two in a row do break `CreationSettingsStick` (both looks for an
existing pool must fail); it has no fault beyond that because the code does not
keep `AnswerMeansDone` under others.  Two writes of a request are needed for an
answer to be old, two proxies for interleavings, three configurations for one
that is taken away and comes back, two changes of a unit's configuration for one
that comes while the other is dealt with, three runs of a request for a removal
that failed to be repeated and followed by another.  Three devices on two utility
devices with room for two let them run full unevenly.  `groups_one_proxy` carries
out six operations, as many as its services and pools have, so that they may come
in every order.

`roll_in_turn` keeps the timing the code counts on, scaled down: kicks come at
least every `KickInterval` plus two of the longest steps (`StepTime`) plus the
difference of clocks, less than `MaxKickInterval`, and `StartTimeout` is longer
than the rolls of all hosts before.  The proportions of the code's constants (3,
5, 10 and 30 minutes) are of this kind as long as a step takes less than a
minute or so and hosts are few; with slower steps `TurnsAreTaken` fails, as it
must.  Three hosts are the fewest of which one waits while another waits.  Hooks
are run once (`MaxAttempts` is 1): what a retry does to the order is above.

`CHECK_DEADLOCK FALSE` is set where the bounds let the system come to rest;
`roll_in_turn` and `osd_devices` check for deadlock.  Symmetry is used in
`conv_one_proxy` only, for units of one relation and requests that nothing but
their identity tells apart; that run checks no liveness.

### Fairness

`FairSpec` of `BrokerConversation` assumes weak fairness of what one proxy's
uniter does (run a due hook, go on with a running one, run a failed one again)
and of each client's `SendRequestIfNeeded`.  Juju does the first by itself and
retries failed hooks; client charms evaluate their request in every hook, and
`update-status` comes round for ever.  Nothing is assumed of elections,
configurations or failures.

`FairSpec` of `UnitHooks` assumes that Juju runs a hook that is due, that a
running hook goes on, and that nobody keeps the dpkg lock for good.  Nothing is
assumed of changes, other hooks or faults.

`FairSpec` of `RollingUpgrade` assumes that a hook which can take a step takes it
(`Run`), that a started OSD boots (`Boot`), and that time passes.  Nothing is
assumed of faults.

## Proofs

All of the following hold for every value of the constants: any number of
proxies, units, requests, operations, devices, hosts, failures and runs, from the
assumptions named in the modules (`ConversationAssumption`, `NoneAssumption`,
`KeyGroupsAssumption`, `NamedKeysAssumption`, `BrokerRequestsAssumption`,
`ActionsAssumption`, `BrokerAssumption`, `KindsAssumption`, `OsdDevicesAssumption`,
`SourcesAssumption` and its neighbours, `RollingAssumption`: constants are of their
type, `None` is not one of the values it stands in for, an action asks for what its
parameters can name, only an action deletes a profile, and of a pool only what its
kind has is asked for).  What a single theorem assumes beyond these is in its row.

| theorem | states | along |
|---|---|---|
| `BrokerConversationProofs!TypeCorrect` | `Spec => []TypeOK` | by induction, one step for each action |
| `BrokerConversationProofs!CompletionEarned` | `Spec => []CompletionIsEarned` | `EarnedInv`: every answer with exit code 0, published or still in the output of a hook, is in `acked`, and an answer in `broker_rsp` that names no request has exit code 1 |
| `BrokerConversationSettled!UnitsAreServed` | `Spec => []SettledUnitIsServed` | `SettledInv`, below |
| `BrokerConversationSettled!SettingsOnlyAdvance` | `Spec => SettingsNeverGoBack` | the same invariant: what a hook publishes at its end is not older than what it replaces |
| `KeyGroupsProofs!TypeCorrect` | `Spec => []TypeOK` | with `StepInv`: a command belongs to the operation in progress |
| `KeyGroupsProofs!AccessAsked` | `Plain /\ Spec => []NoUnaskedAccess` | `AccessInv`, below; `Plain` says that requests carry no namespace |
| `KeyGroupsProofs!AcknowledgedIsStored` | `Spec => []AckedIsStored`, given `Reliable` | `SerialInv`, below; `Reliable` says that there is one proxy and that no read of the store fails |
| `KeyGroupsProofs!AccessOnlyGrows` | `Spec => KeysOnlyGain`, given `Reliable` and `Plain` | the same invariant: no key grants more than its service is entitled to, and what is collected for a key is just that |
| `KeyGroupsProofs!KeysAreCurrent` | `Spec => []KeysMatchGroups`, given `Reliable`, `Plain` and that no command that sets capabilities fails | `LateInv`, below |
| `NamedKeysProofs!NamedKeysTypeCorrect` | `NamedKeysSpec => []NamedKeysTypeOK` | the types, and that no key is handed out that is not there |
| `NamedKeysProofs!NarrowedKeysStay` | `NamedKeysSpec => NarrowedStaysNarrowed` | `LeaderInv`: only a proxy beside the leading monitor comes to set capabilities back; operations on groups never do (`OperationsNarrow`) |
| `NamedKeysProofs!HandedOutAccess` | `Plain /\ NamedKeysSpec => []NoUnaskedAccess` | the same `AccessInv`, whose lemmas are cited for the steps of `KeyGroups` |
| `BrokerRequestsProofs!AnswersAreKept` | `Spec => []AnswerMeansUpdated` | `PromiseInv`, below |
| `BrokerRequestsProofs!TypeCorrect` | `Spec => []TypeOK` | `FullInv`: with `WorkTypes`, the steps a run has left belong to its operation, and `AllMade`, a pool is added to a file system only after `fs new` |
| `BrokerRequestsProofs!FlushedBeforeRemoved` | `Spec => []NothingDirtyIsRemoved`, given `Serial` | `DrainInv`, below; `Serial` says that there is one proxy |
| `BrokerRequestsProofs!SettingsStick` | `Spec => CreationSettingsStick`, given `Serial`, `LooksSuffice` and `NoneReset` | `SettleInv`, below |
| `BrokerRequestsProofs!AllIsDone` | `Spec => []AnswerMeansDone`, given `Serial` and `Quiet` | `DoneInv`, below; `Serial` says that there is one proxy, `Quiet` says that no command that changes the cluster fails and no unit goes down |
| `OsdDevicesProofs!TypeCorrect` | `Spec => []TypeOK` | with `PlaceInv`: where a hook is, and what it holds there |
| `OsdDevicesProofs!RecordNamesOsds`, `NothingPreparedTwice` | `Spec => []RecordedIsOsd`, `Spec => []PreparedOnce` | `OsdInv`, below |
| `OsdDevicesProofs!OsdsStay` | `Spec => OsdsAreKept` | the same invariant: a disk that a command is run on although it holds an OSD is one that the command refuses |
| `OsdDevicesProofs!EndedHooksPrepared` | `Spec => EndedMeansPrepared` | `SilentInv`, below |
| `OsdDevicesProofs!UtilitiesUsedEvenly` | `Spec => []UtilitiesAreBalanced` | `BalanceInv`: the utility device that was chosen stays the least used until its volume is there |
| `UnitHooksProofs!TypeCorrect` | `Spec => []TypeOK` | with `HookInv`: the steps a hook has left are the end of those it began with |
| `UnitHooksProofs!RecordIsTrue` | `Spec => []SavedIsInstalled` | `WorkInv`, below |
| `UnitHooksProofs!FilesAreCurrent`, `StatusIsTrue` | `Spec => []FilesMatchConfig`, `Spec => []StatusIsCurrent` | `CurrentInv`, below |
| `RollingUpgradeProofs!TypeCorrect` | `Spec => []TypeOK` | by induction over the steps of a roll |
| `RollingUpgradeProofs!DoneIsUpgraded`, `SettledIsUpgraded` | `Spec => []DoneMeansUpgraded`, `Spec => []SettledMeansUpgraded` | `UpgradeInv`, below |
| `RollingUpgradeProofs!RollsInTurn` | `Spec /\ Patience => TurnsAreTaken` | `TurnInv`, below: the steps of the code map to steps of `Turns`; `Patience` says that the clock ends a wait only when all hosts before are through |
| `RollingUpgradeProofs!OneHostAtATime` | `Spec /\ Patience =>` of two hosts that are upgraded at the same time the earlier one is at it again after a failure | the same `TurnInv` |

`SettledUnitIsServed` speaks of proxies without a hook left to run, and says
nothing of the others, so it is not inductive.  `SettledInv` says where the
promise to a unit is while a proxy is busy: in the settings, in the output of
the running hook, in the request it is processing, in the units it has yet to
serve, or in the failed hook that will be run again (`PromiseInv`).  `OrderInv`
adds that published answers, answers in the output and the request in work are
in the order of the writes they belong to, and `HookInv` that a hook has work
and output only for units it is about.

`NoUnaskedAccess` is about capabilities, which are set from a copy that was
collected from reads at different moments.  `AccessInv` says of every place
such data passes through that it was asked for: the stored groups and services
(`StoreInv`), each proxy's copy of them (`CopyInv`), and the permissions
collected for one service (`GrantInv`).  Lost updates and failed reads only
take from these sets, which is why the theorem needs no bound on them.  Hooks
that hand out keys only set capabilities back to the default ones, which the
property does not count as access to a group.

What is acknowledged stays on record, keys come to match their groups and never
lose a permission only where one proxy writes the store and every read succeeds:
otherwise a write of one proxy undoes another's, or a failed read is taken for an
empty group (above), and the theorems say so in their hypotheses.  `SerialInv` is
that a proxy's copy of a group or of a service is what the store holds for as long
as it uses it (`CopyExact`), that its writes are there (`Written`), that a service
which names a group is a member of it, and that what has been collected for a key,
with the groups still to be read, is exactly what its service is entitled to
(`GrantsExact`).
`KeysMatchGroups` speaks of moments without an operation in progress; `LateInv`
says of the others that a key that does not grant what its groups say is so on
account of an operation that was cut short or is running, and that the running
one has yet to set that key.  Commands that set capabilities must not fail for
it: the failure is only logged.

`AnswerMeansUpdated` is about what a request did in many steps, while other
proxies carry out requests, the same one included, and commands fail.  `Goals`
lists what an operation promises, each promise as the step that brings it about
(`create`, the group, the quota, the four commands of a cache tier), and
`Reached` says of such a step that what it is for is so.  `PromiseInv` is then:
for each operation that a run is past without an error all is reached
(`GoalInv`); of the one it is at, each promise is reached or its step is still in
`todo`; and what an answer acknowledges is reached (`AnswerInv`).  That nobody
undoes it (`ChangeKeeps`, one case for each command) is where `Settled` counts:
nothing is promised of an operation that another one undoes, under the names it
is about (`Settles`) or through other ones (`Steady`: a tier that a request takes
apart and makes again is away for a moment whenever another proxy carries the
request out).  A
handler that finds the pool goes on with `UpdatePool` alone, which has every
step a change of a pool promises (`UpdateHas`), except for the one that adds it
to its group; `GroupsEarly` says that this one comes before the pool is looked
for.  What `PostCreate` sets cannot be among the goals: after a crash between
`create` and `PostCreate` a pool is answered for that never gets it (`ceph.py`
381, above).

Dirty data in a tier that is taken away is lost, and clients write at any moment.
`DrainInv` says that only tiers that clients are directed to hold dirty data
(`Hooked`), and that before the step which turns clients away the tier is flushed
and no longer in writeback mode, or both are still to be done, in that order.  A
second proxy breaks it: it sets the mode back between the two.

That no setting of creation changes rests on the looks for a pool before it is
created.  `SettleInv` says that before each step that sets such a property either
the pool, if it is there at all, has nothing but what the running operation
asked for (`Fresh`: this run made it), or the run has yet to look for it with a
look that does not fail, or ends before for its parameters (`Guarded`).  The
handlers look twice and an action once, which is what `LooksSuffice` is about: one
look may fail, and an action's pool must then be asked for by nobody else
otherwise.  `NoneReset` leaves out requests that ask for such a change themselves
with `set-pool-value`.  The runs' instances have both, by an assumption of
`MCBrokerRequests`.

`AnswerMeansDone` is false where a command fails (the file system and the pool that
was cut short, above), so `AllIsDone` is about one proxy on which none does, and
which stays up; looks may fail, requests be refused and be carried out any number
of times.  For each operation, `DoneInv` says what its handler has yet to do, by the
steps in `todo`.  A pool is not there, and `create` is to come with all that sets it
up behind it; or it is there, and each setting that it lacks is still to be made
(`Creating`, an instance of `Good`); and while no handler of it runs it lacks none
(`Unset`).  A file system with its pools (`Founding`, `Lacking`) and a tier with its
mode (`Adding`, `Unmoded`) are the same in other words, and a tier on its way out
goes from one known state to the next (`Removing`).  Of every operation, the last
step left is the one that brings it about (`Closing`, `EndState`), so it is done
when the handler ends without an error (`Kept`); what was done before stays done, as
nothing later in the request is about it (`KeptFrame`).  The promises of
`AnswerMeansUpdated` complete this.  The requests may be any: what `Steady` leaves
out are single operations of them.  A pool that is renamed is no longer in its file
system under the old name, and a removal of a read-only tier stops half-way, with
the mode `none`, since clients are still directed to the tier.  If the next run of the
request then fails to look up the pools for the creation, its removal finds that mode,
does nothing and is answered without an error, with the tier still there.

`EndedMeansPrepared` is about the devices that a hook passed over.  `SilentInv`
says of each device the hook is done with that it is an OSD, somebody else's, or
a disk of vaultlocker's left half prepared for a reason that can be named: until
the first fault each attempt finds its disk as far as it can be (`CleanInv`), so
that a preparation that was cut short is the trace of a fault or of a full
utility device (`TraceInv`).

`OsdInv` carries the record over the commands: a device that an OSD's directory
points to keeps its volume group (`ActiveInv`), and a hook records a device only
after `ceph-volume` or `ceph-disk` has made an OSD of it (`RecordInv`), which is
where `ignore_errors` is the exception.  Where an attempt is at an OSD, `missed`
says which look has let it through (`MissedInv`), and each command on the way
either leaves the OSD or refuses it (`OsdsStay`), so that the attempt never comes
to the command that makes an OSD.

`SavedIsInstalled` is about the end of a hook, and what it relies on was done by
earlier steps, of this run of the hook or of a failed one.  `WorkInv` follows a
source through a hook that packages: its list is enabled, apt knows it, it is
installed, then the configuration is saved; for each of these, either it is done
or the step that does it is still in `todo`, and a hook that was first to see a
source either packages it or is remembered in `missed`.  `CurrentInv` does the
same for the files, the flags and the status: as long as something is due or is
to be run again nothing is claimed, and otherwise what the running hook fetched
is the configuration of now, and each file is of it or still to be rendered.

`DoneMeansUpgraded` is about a key that a host sets at the end of many steps,
between which it may fail, go down, and be run again from the start with daemons
in any state.  `UpgradeInv` says of each host that rolls that it is either stuck,
waiting for an OSD that is down to come back (`Hung`), or that what is missing of
the upgrade is still done by the steps it has left (`StepsLeft`): for each daemon
that is not fresh a restart is to come, after the packages; for each that is not
enabled an enabling; and each of these steps is the last of its kind that touches
the daemon.  Predicates over the list of steps have a lemma each for dropping the
first one, and one lemma for each action says what the action does to the rest.

That a roll implements `Turns` depends on the clock in one place only: a wait that
ends without a `_done` key.  `Patience` says of those waits that they end when
every host before has had its turn or given it up.  Under the timing of
`roll_in_turn`, where hooks run once, that is just what TLC shows of them with
`TurnsAreTaken`, and hosts do give up on a failed one there.  Everything else that
the order rests on is proved, for any number of hosts, retries and faults
(`RollsInTurn`): that a `_done` key means not only that the host before is through
but all before it, that a host whose turn is over never comes back to it, and that
a host has its turn once.  `TurnInv` has, besides `UpgradeInv`, that a host which
has the lock, or set its key, began after all before it (`HadTurns`), and what the
turn of a host that is stuck needs: that it never comes unstuck.  An OSD that is
down would release a host which remembers that it was down; so every wait still to
come is for an OSD that was not, or for one whose state is yet to be read
(`GoalsUp`), until an exception leaves the host hanging.  Retries are why
`Patience` is about every run of a hook: a host that failed while it waited, ran
again and gave up early would set a key that its successor believes.

`Turns` is about first turns: a hook that is run again after a failure is not
ordered, as the code orders it only after the hosts before it.  `OneHostAtATime`
says of the hooks themselves what follows from `TurnInv`: two hosts are in
`lock_and_roll` at the same time only if the earlier one is there again after a
failure, or is stuck.

### Only model-checked

- Liveness: `AnsweredUnderOneLeader`, `EveryRollEnds`, `ChangesTakeEffect`, which
  are beyond the prover, as is `ENABLED`.
- That the code's timing gives the `Patience` which `RollsInTurn` assumes: `roll_in_turn`
  shows it for its instance.
- The three assumptions of `PlacementGroups`, over bounded inputs.

## Not modelled

- Bootstrap of monitors (`bootstrap_monitor_cluster`), `osdize_dir` and the
  bootstrap keys: a sequence of file operations that nobody else takes part in,
  and a proxy never calls them.
- Of `OsdDevices`: vault's key manager set to something invalid.  Of `RollingUpgrade`: a host that is not in the list and an
  empty monitor map, which raise; the config-key store is always there; the kicks
  within `upgrade_osd` at every hundredth step are kicks at any time.  Of
  `UnitHooks`: `resolved --no-retry`, a change of `key` alone (config-changed
  compares it like `source`) and one that cannot be imported.
- What the validator rejects in detail: a parameter is invalid or it is not.
- The text of the CRUSH map: `load_crushmap` raises before it is edited.
- Actions that only show something, nagios scripts, packaging, templates.
- Most of the vendored charmhelpers: OpenStack contexts, policies, hardening,
  network and command line helpers are not called by this charm.  What its hooks
  and library reach of them is modelled with the component that does.
- Text of messages and logs: no property is about it.

## Plan

What would come next, in this order:

1. `KeyGroups` with `BrokerRequests`: groups of pools that were deleted, renamed
   or never created.
2. `RollingUpgrade` with slow hosts, to show how many turns a timeout costs; the
   order of retries.
3. Two units of `UnitHooks` with `BrokerConversation`: a proxy that is blocked or
   in a series upgrade while units ask it.
4. `bootstrap_monitor_cluster` and `osdize_dir`, with a hook that is cut short.
