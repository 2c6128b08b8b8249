------------------------------ MODULE OsdDevices ------------------------------
(***************************************************************************)
(* How a unit turns block devices into OSDs: lib/charms_ceph/utils.py,     *)
(* osdize_dev with _ceph_volume, _allocate_logical_volume,                 *)
(* _initialize_disk, find_least_used_utility_device and _ceph_disk, and    *)
(* the record of processed devices in the unit's key-value store.          *)
(*                                                                         *)
(* A hook goes through the devices in some order.  For each it looks       *)
(* whether there is something to do, initialises disk, physical volume,    *)
(* volume group and logical volume, the same on a utility device (for a    *)
(* write-ahead log) that several OSDs share, and has ceph-volume make the  *)
(* OSD.  Any command may fail, the unit may go down between two, and the   *)
(* hook is then run again from the start.  Of the looks at a disk many say *)
(* the same when they fail as when there is nothing to see.                *)
(***************************************************************************)
EXTENDS Naturals, FiniteSets

CONSTANTS
  Devices,      \* config option osd-devices
  Utilities,    \* config option bluestore-wal
  Capacity,     \* how many volumes a utility device has room for
  Setups,       \* ways to set up devices, see Setup
  None,
  MaxFaults     \* bound on commands and looks that fail, and on units that
                \* go down

Disks == Devices \union Utilities
Setup == [tool : {"ceph-volume", "ceph-disk"}, vault : BOOLEAN,
          ignoreErrors : BOOLEAN]

ASSUME OsdDevicesAssumption ==
  /\ Devices \intersect Utilities = {}
  /\ None \notin Disks
  /\ {Capacity, MaxFaults} \subseteq Nat
  /\ Setups \subseteq Setup

VARIABLES
  setup,    \* the tool of the release, whether encryption keys are kept in
            \* vault, and what the caller passes as ignore_errors
  stage,    \* how far each disk is, see Stages
  lvs,      \* number of logical volumes, or of partitions, on each disk
  active,   \* devices whose volume an OSD's directory points to
  recorded, \* osd-devices in the unit's key-value store
  pc,       \* of the running hook
  left,     \* devices the hook has yet to look at
  dev,      \* the one it is at, or None
  target,   \* the disk it allocates a volume from, or None
  faults,
  missed    \* history: what failed looks at the device did not show when the
            \* attempt at it began

vars == <<setup, stage, lvs, active, recorded, pc, left, dev, target, faults, missed>>

\* "foreign" is mounted by somebody else, "luks" is encrypted by vaultlocker,
\* "gpt" has the partitions of ceph-disk, "mounted" has them in use.
Stages == {"absent", "foreign", "raw", "luks", "pv", "vg", "gpt", "mounted"}
PCs == {"idle", "ended", "failed", "each", "look", "disk", "isPv", "pvcreate",
        "vgcreate", "lvcreate", "choose", "create", "record"}
AtRest == {"idle", "ended", "failed"}
Attempt == {"disk", "isPv", "pvcreate", "vgcreate", "lvcreate", "choose", "create"}

\* What sgdisk, lsblk, pvdisplay and cryptsetup may show of a disk.
Sign == {"partitions", "mount", "pv", "luks"}

TypeOK ==
  /\ setup \in Setups
  /\ stage \in [Disks -> Stages]
  /\ lvs \in [Disks -> Nat]
  /\ active \subseteq Devices
  /\ recorded \subseteq Devices
  /\ pc \in PCs
  /\ left \subseteq Devices
  /\ dev \in Devices \union {None}
  /\ target \in Disks \union {None}
  /\ faults \in 0..MaxFaults
  /\ missed \subseteq Sign

Init ==
  /\ setup \in Setups
  /\ stage \in [Disks -> {"absent", "foreign", "raw", "gpt"}]
  /\ \A u \in Utilities : stage[u] = "raw"
  /\ lvs = [x \in Disks |-> 0]
  /\ active = {}
  /\ recorded = {}
  /\ pc = "idle"
  /\ left = {}
  /\ dev = None
  /\ target = None
  /\ faults = 0
  /\ missed = {}

-----------------------------------------------------------------------------
(* What the code sees. *)

\* Of a path as it is in the configuration: with vaultlocker the physical
\* volume is on the mapped device, and the path shows none of it.
Shows(x, sign) ==
  \/ sign = "partitions" /\ stage[x] \in {"gpt", "mounted"}
  \/ sign = "mount" /\ stage[x] \in {"foreign", "mounted"}
  \/ sign = "pv" /\ stage[x] \in {"pv", "vg"} /\ ~setup.vault
  \/ sign = "luks" /\ stage[x] \in {"luks", "pv", "vg"} /\ setup.vault
Signs(x) == {sign \in Sign : Shows(x, sign)}

\* is_osd_disk, is_active_bluestore_device and is_mapped_luks_device, given
\* what the looks have shown: each takes a look that fails for one that finds
\* nothing.  Mutated: whatever has a signature, and only what was recorded.
Bug_AnySignature(d, seen) == d \in recorded \/ stage[d] \notin {"raw", "foreign"}
IsOsdDisk(d, seen) == d \in recorded \/ "partitions" \in seen
Bug_OnlyRecorded(d, seen) == "pv" \in seen /\ d \in recorded
IsActiveBluestore(d, seen) == "pv" \in seen /\ d \in active
IsMappedLuks(d, seen) == "luks" \in seen

\* find_least_used_utility_device: volumes, or partitions with ceph-disk, of
\* those whose look succeeds.
Usage(u, listed) ==
  IF u \in listed /\ (setup.tool = "ceph-disk" \/ Shows(u, "pv")) THEN lvs[u] ELSE 0
\* Mutated: the first device that is not full.
Bug_FirstWithRoom(u, listed) == u \in Utilities /\ Usage(u, listed) < Capacity
LeastUsed(u, listed) ==
  u \in Utilities /\ \A v \in Utilities : Usage(u, listed) <= Usage(v, listed)

\* A volume takes what is left of its own device, or a part of a utility one.
HasRoom(x) == lvs[x] < IF x \in Devices THEN 1 ELSE Capacity

-----------------------------------------------------------------------------
Goto(label) == pc' = label
Fault == faults < MaxFaults /\ faults' = faults + 1
disks == <<stage, lvs, active>>

Begin ==
  /\ pc \in AtRest
  /\ Goto("each")
  /\ left' = Devices
  /\ UNCHANGED <<setup, disks, recorded, dev, target, faults, missed>>

NextDevice(d) ==
  /\ pc = "each"
  /\ d \in left
  /\ Goto("look")
  /\ left' = left \ {d}
  /\ dev' = d
  /\ UNCHANGED <<setup, disks, recorded, target, faults, missed>>

End ==
  /\ pc = "each"
  /\ left = {}
  /\ Goto("ended")
  /\ UNCHANGED <<setup, disks, recorded, left, dev, target, faults, missed>>

\* The checks of osdize_dev, in their order.
Skips(d, seen) ==
  \/ d \in recorded
  \/ stage[d] = "absent"
  \/ IsOsdDisk(d, seen) /\ "mount" \notin seen
  \/ ~IsOsdDisk(d, seen) /\ "mount" \in seen
  \/ ~IsOsdDisk(d, seen) /\ ~IsActiveBluestore(d, seen) /\ IsMappedLuks(d, seen)
Records(d, seen) ==
  /\ d \notin recorded
  /\ stage[d] # "absent"
  /\ \/ IsOsdDisk(d, seen) /\ "mount" \in seen
     \/ ~IsOsdDisk(d, seen) /\ "mount" \notin seen /\ IsActiveBluestore(d, seen)

Look ==
  /\ pc = "look"
  /\ \E seen \in SUBSET Signs(dev) :
       /\ IF seen = Signs(dev) THEN UNCHANGED faults ELSE Fault
       /\ \/ /\ Skips(dev, seen)
             /\ Goto("each")
             /\ dev' = None
             /\ UNCHANGED <<target, missed>>
          \/ /\ Records(dev, seen)
             /\ Goto("record")
             /\ UNCHANGED <<dev, target, missed>>
          \/ /\ ~Skips(dev, seen) /\ ~Records(dev, seen)
             /\ IF setup.tool = "ceph-volume"
                THEN Goto("disk") /\ target' = dev
                ELSE Goto(IF Utilities = {} THEN "create" ELSE "choose") /\ UNCHANGED target
             /\ missed' = Signs(dev) \ seen
             /\ UNCHANGED dev
  /\ UNCHANGED <<setup, disks, recorded, left>>

-----------------------------------------------------------------------------
(* _ceph_volume: _allocate_logical_volume on the device, then on a utility  *)
(* device.                                                                  *)

\* The exception leaves the hook; what finally writes to the key-value store
\* is what was there.
Raise ==
  /\ Goto("failed")
  /\ left' = {}
  /\ dev' = None
  /\ target' = None
  /\ missed' = {}
  /\ UNCHANGED <<setup, disks, recorded>>

\* A command fails, or the unit goes down.
Abort == pc \notin AtRest /\ Raise /\ Fault

Becomes(s, label) ==
  /\ stage' = [stage EXCEPT ![target] = s]
  /\ Goto(label)
  /\ UNCHANGED <<setup, lvs, active, recorded, left, dev, target, missed>>

\* _initialize_disk.  Where cryptsetup shows nothing vaultlocker is to encrypt
\* the disk: it refuses one in use, as a mapped one is, and formats any other.
InitializeDisk ==
  /\ pc = "disk"
  /\ \/ /\ setup.vault => Shows(target, "luks")
        /\ Becomes(stage[target], "isPv")
        /\ UNCHANGED faults
     \/ /\ setup.vault /\ stage[target] \in {"raw", "gpt"}
        /\ Becomes("luks", "isPv")
        /\ UNCHANGED faults
     \/ /\ setup.vault /\ stage[target] \notin {"raw", "gpt"}
        /\ Raise
        /\ IF Shows(target, "luks") THEN Fault ELSE UNCHANGED faults

\* Looks at the device that _initialize_disk returned, the mapped one.  Of a
\* physical volume without a group the name of the group is empty.
AllocateVolume ==
  /\ pc = "isPv"
  /\ \/ stage[target] \in {"pv", "vg"} /\ Becomes(stage[target], "lvcreate") /\ UNCHANGED faults
     \/ /\ Becomes(stage[target], "pvcreate")
        /\ IF stage[target] \in {"pv", "vg"} THEN Fault ELSE UNCHANGED faults

\* Mutated: pvcreate -ff.
Bug_ForcedPv == pc = "pvcreate" /\ Becomes("pv", "vgcreate") /\ UNCHANGED faults
\* LVM refuses a disk that is in use, has partitions or is in a group.
CreatePv ==
  /\ pc = "pvcreate"
  /\ IF stage[target] \in {"raw", "luks", "pv"} THEN Becomes("pv", "vgcreate") ELSE Raise
  /\ UNCHANGED faults

CreateVg ==
  /\ pc = "vgcreate"
  /\ Becomes("vg", "lvcreate")
  /\ UNCHANGED faults

CreateLv ==
  /\ pc = "lvcreate"
  /\ IF stage[target] = "vg" /\ HasRoom(target)
     THEN /\ lvs' = [lvs EXCEPT ![target] = @ + 1]
          /\ Goto(IF target = dev /\ Utilities # {} THEN "choose" ELSE "create")
          /\ UNCHANGED <<setup, stage, active, recorded, left, dev, target, missed>>
     ELSE Raise
  /\ UNCHANGED faults

\* find_least_used_utility_device
ChooseUtility ==
  /\ pc = "choose"
  /\ \E listed \in SUBSET Utilities :
       /\ \E u \in Utilities : LeastUsed(u, listed) /\ target' = u
       /\ IF listed = Utilities THEN UNCHANGED faults ELSE Fault
  /\ Goto(IF setup.tool = "ceph-volume" THEN "disk" ELSE "create")
  /\ UNCHANGED <<setup, disks, recorded, left, dev, missed>>

-----------------------------------------------------------------------------
(* ceph-volume lvm create, or ceph-disk prepare. *)

Created ==
  IF setup.tool = "ceph-volume"
  THEN active' = active \union {dev} /\ UNCHANGED <<stage, lvs>>
  ELSE /\ stage' = [stage EXCEPT ![dev] = "gpt"]
       /\ lvs' = IF target = None THEN lvs ELSE [lvs EXCEPT ![target] = @ + 1]
       /\ UNCHANGED active

CanCreate ==
  setup.tool = "ceph-disk" =>
    /\ stage[dev] = "raw"
    /\ target # None => HasRoom(target)

Create ==
  /\ pc = "create"
  /\ CanCreate
  /\ Created
  /\ Goto("record")
  /\ missed' = {}
  /\ UNCHANGED <<setup, recorded, left, dev, target, faults>>

\* Mutated: the error is not raised again.
Bug_RecordsFailure ==
  /\ pc = "create"
  /\ IF CanCreate THEN Fault ELSE UNCHANGED faults
  /\ UNCHANGED <<disks, setup, recorded, left, dev, target>>
  /\ missed' = {}
  /\ Goto("record")

\* What a failed command leaves may be an OSD or not.  An error that is to be
\* ignored is raised nonetheless when lsblk fails as well, whose output is
\* then unbound.
CreateFails ==
  /\ pc = "create"
  /\ IF CanCreate THEN Fault ELSE UNCHANGED faults
  /\ \/ UNCHANGED disks
     \/ CanCreate /\ Created
  /\ \/ setup.ignoreErrors /\ Goto("record") /\ UNCHANGED <<left, dev, target>>
     \/ Goto("failed") /\ left' = {} /\ dev' = None /\ target' = None
  /\ missed' = {}
  /\ UNCHANGED <<setup, recorded>>

\* Mutated: records the device it allocated from last.
Bug_RecordsTarget ==
  /\ pc = "record"
  /\ recorded' = recorded \union {target}
  /\ Goto("each")
  /\ dev' = None
  /\ target' = None
  /\ UNCHANGED <<setup, disks, left, faults, missed>>

\* osd_devices.append(dev), db.set and db.flush
Record ==
  /\ pc = "record"
  /\ recorded' = recorded \union {dev}
  /\ Goto("each")
  /\ dev' = None
  /\ target' = None
  /\ UNCHANGED <<setup, disks, left, faults, missed>>

-----------------------------------------------------------------------------
(* The machine. *)

\* udev mounts what ceph-disk has prepared.
Mount(d) ==
  /\ stage[d] = "gpt"
  /\ stage' = [stage EXCEPT ![d] = "mounted"]
  /\ UNCHANGED <<setup, lvs, active, recorded, pc, left, dev, target, faults, missed>>

\* Storage is attached between two hooks.
Attach(d) ==
  /\ pc \in AtRest
  /\ stage[d] = "absent"
  /\ stage' = [stage EXCEPT ![d] = "raw"]
  /\ UNCHANGED <<setup, lvs, active, recorded, pc, left, dev, target, faults, missed>>

Next ==
  \/ Begin \/ (\E d \in Devices : NextDevice(d)) \/ End
  \/ Look \/ InitializeDisk \/ AllocateVolume
  \/ CreatePv \/ CreateVg \/ CreateLv \/ ChooseUtility
  \/ Create \/ CreateFails \/ Record \/ Abort
  \/ \E d \in Devices : Mount(d) \/ Attach(d)

Spec == Init /\ [][Next]_vars

-----------------------------------------------------------------------------
\* The device holds an OSD, or what ceph-disk has prepared for one.
IsOsd(d) ==
  \/ d \in active /\ stage[d] = "vg"
  \/ stage[d] \in {"gpt", "mounted"}

\* vaultlocker's disk is mapped, and there is no OSD on it.
CutShort(d) == Shows(d, "luks") /\ ~IsOsd(d)

\* What is recorded as processed is an OSD: the record is the reason why the
\* device is never looked at again ("Record processing of device only on
\* success", 1650).  With ignore_errors it is not so: the error is lost.
RecordedIsOsd == setup.ignoreErrors \/ \A d \in recorded : IsOsd(d)

\* "A block device will only be prepared once" (1563).  Whatever failed before
\* and is run again, a hook sets about an OSD a second time only when a look
\* at it, other than lsblk's, fails in that same hook; and even then it never
\* gets as far as making another OSD of it.
PreparedOnce ==
  /\ pc \in Attempt /\ IsOsd(dev) => missed \intersect {"partitions", "pv", "luks"} # {}
  /\ pc = "create" /\ CanCreate => ~IsOsd(dev)

\* An attempt that failed looks have let through harms no OSD: LVM and
\* vaultlocker refuse its disk.  It is not so with one of ceph-disk's that is
\* not mounted when sgdisk fails (997) and keys are kept in vault: vaultlocker
\* formats it.
OsdsAreKept ==
  [][\A d \in Devices :
       IsOsd(d) => \/ IsOsd(d)'
                   \/ stage[d] = "gpt" /\ setup.vault /\ "partitions" \in missed]_vars

\* A hook that ends well has made an OSD of every device it found: what it
\* passes over in silence is somebody else's, or a disk of vaultlocker's
\* whose preparation was cut short, by an earlier fault or for want of room on
\* a utility device.
EndedMeansPrepared ==
  [][End /\ ~setup.ignoreErrors =>
       \A d \in Devices :
         \/ IsOsd(d)
         \/ stage[d] \in {"absent", "foreign"}
         \/ CutShort(d) /\ (faults > 0 \/ \E u \in Utilities : ~HasRoom(u))]_vars

\* The volumes that OSDs share are spread over the utility devices
\* (find_least_used_utility_device, 1510: "Find a utility device which has the
\* smallest number of partitions among other devices"), those of failed
\* attempts included.  A look at a device that fails makes it appear empty
\* (1490), and costs one volume of balance, not more.  Under vaultlocker no
\* path shows its volumes, and they all come from the first device.
UtilitiesAreBalanced ==
  setup.vault \/ \A u, v \in Utilities : lvs[u] <= lvs[v] + 1 + faults
=============================================================================
