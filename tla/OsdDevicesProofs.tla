--------------------------- MODULE OsdDevicesProofs ---------------------------
(***************************************************************************)
(* Proofs about OsdDevices, for any devices, utility devices, setups and   *)
(* number of faults: the types, that a recorded device is an OSD, that an  *)
(* OSD is never made a second time, which failed looks it takes to set     *)
(* about one again and what they can harm, how evenly utility devices are  *)
(* used, and what a hook that ends well has made of its devices.           *)
(***************************************************************************)
EXTENDS OsdDevices, TLAPS

\* The hook is at a device.
Busy == pc \in {"look", "record"} \union Attempt

\* It is initialising a disk and the volume on it.
Allocating == {"disk", "isPv", "pvcreate", "vgcreate", "lvcreate"}

\* The volume on the device is there, and ceph-volume has yet to use it.
Begun ==
  /\ setup.tool = "ceph-volume"
  /\ pc \in {"choose", "create"} \/ (pc \in Allocating /\ target # dev)

\* Only ceph-volume gets this far, and a device is done before its utility
\* device is begun.
PlaceInv ==
  /\ Busy => dev \in Devices
  /\ pc \in AtRest \union {"each", "look"} => target = None
  /\ pc \in Allocating => target \in {dev} \union Utilities /\ setup.tool = "ceph-volume"
  /\ pc \in {"choose", "create"} /\ setup.tool = "ceph-disk" => target \in Utilities \union {None}
  /\ Begun => stage[dev] = "vg"
  /\ pc = "vgcreate" => stage[target] = "pv"

TypeInv == TypeOK /\ PlaceInv

\* Of ceph-volume's OSDs the volume group stays, and it is full: no attempt
\* that gets past the volume is at an OSD.
ActiveInv ==
  /\ \A d \in active : stage[d] = "vg" /\ lvs[d] > 0
  /\ Begun => lvs[dev] > 0 /\ dev \notin active

\* An attempt is at an OSD only after a look at it has failed, and never at
\* one that is recorded.
MissedInv ==
  pc \in Attempt =>
    /\ stage[dev] \in {"gpt", "mounted"} => "partitions" \in missed
    /\ dev \in active => missed \intersect {"pv", "luks"} # {}
    /\ dev \notin recorded

RecordInv == pc = "record" /\ ~setup.ignoreErrors => IsOsd(dev)

OsdInv == ActiveInv /\ MissedInv /\ RecordInv /\ RecordedIsOsd

\* The utility device that comes next has no more volumes than the others, but
\* for what failed looks cost, and one without a volume group has none.
ChosenInv ==
  /\ ~setup.vault /\ target \in Utilities
       /\ (pc \in Allocating \/ (pc = "create" /\ setup.tool = "ceph-disk")) =>
         \A v \in Utilities : lvs[target] <= lvs[v] + faults
  /\ setup.tool = "ceph-volume" =>
       \A u \in Utilities : stage[u] \notin {"pv", "vg"} => lvs[u] = 0

BalanceInv == ChosenInv /\ UtilitiesAreBalanced

USE DEF Disks, AtRest, Attempt, Allocating, Busy, Sign

LEMMA ToolType == ASSUME TypeOK PROVE setup.tool \in {"ceph-volume", "ceph-disk"}
BY OsdDevicesAssumption DEF TypeOK, Setup

LEMMA InitType == Init => TypeInv
<1> SUFFICES ASSUME Init PROVE TypeInv
  OBVIOUS
<1>1. 0 \in 0 .. MaxFaults
  BY OsdDevicesAssumption
<1> QED
  BY <1>1 DEF Init, TypeInv, TypeOK, PlaceInv, Begun, Stages, PCs

LEMMA FaultType == ASSUME TypeOK, Fault PROVE faults' \in 0 .. MaxFaults
BY OsdDevicesAssumption DEF TypeOK, Fault

\* The hook ends with an error.
LEMMA RaiseType ==
  ASSUME TypeInv, Raise, faults' \in 0 .. MaxFaults
  PROVE  TypeInv'
BY DEF TypeInv, TypeOK, PlaceInv, Begun, Raise, Goto, disks, PCs

\* A disk gets to another stage.
LEMMA BecomesType ==
  ASSUME TypeInv, NEW s \in Stages, NEW label \in PCs, pc \in Allocating, label \in Allocating,
         Becomes(s, label), stage[target] = "vg" => s = "vg", label = "vgcreate" => s = "pv",
         faults' \in 0 .. MaxFaults
  PROVE  TypeInv'
<1>1. target \in Disks
  BY DEF TypeInv, PlaceInv
<1>2. TypeOK'
  BY <1>1 DEF TypeInv, TypeOK, Becomes, Goto
<1>3. PlaceInv'
  BY <1>1, OsdDevicesAssumption DEF TypeInv, TypeOK, PlaceInv, Begun, Becomes, Goto
<1> QED
  BY <1>2, <1>3 DEF TypeInv

LEMMA LookType == TypeInv /\ Look => TypeInv'
<1> SUFFICES ASSUME TypeInv, Look PROVE TypeInv'
  OBVIOUS
<1>1. PICK seen \in SUBSET Signs(dev) :
        /\ IF seen = Signs(dev) THEN UNCHANGED faults ELSE Fault
        /\ \/ Goto("each") /\ dev' = None /\ UNCHANGED <<target, missed>>
           \/ Goto("record") /\ UNCHANGED <<dev, target, missed>>
           \/ /\ IF setup.tool = "ceph-volume"
                 THEN Goto("disk") /\ target' = dev
                 ELSE Goto(IF Utilities = {} THEN "create" ELSE "choose") /\ UNCHANGED target
              /\ missed' = Signs(dev) \ seen
              /\ UNCHANGED dev
  BY DEF Look
<1>2. faults' \in 0 .. MaxFaults
  BY <1>1, FaultType DEF TypeInv, TypeOK
<1>3. /\ UNCHANGED <<setup, disks, recorded, left>> /\ dev \in Devices /\ target = None
      /\ Signs(dev) \subseteq Sign
  BY DEF Look, TypeInv, PlaceInv, Signs
<1>4. /\ target' \in Disks \union {None} /\ dev' \in Devices \union {None} /\ pc' \in PCs
      /\ missed' \subseteq Sign
  BY <1>1, <1>3 DEF TypeInv, TypeOK, Goto, PCs
<1>5. TypeOK'
  BY <1>2, <1>3, <1>4 DEF TypeInv, TypeOK, disks
<1>6. PlaceInv'
  BY <1>1, <1>3, ToolType DEF TypeInv, PlaceInv, Begun, Goto, disks
<1> QED
  BY <1>5, <1>6 DEF TypeInv

LEMMA InitializeDiskType == TypeInv /\ InitializeDisk => TypeInv'
<1> SUFFICES ASSUME TypeInv, InitializeDisk PROVE TypeInv'
  OBVIOUS
<1>1. target \in Disks /\ pc = "disk" /\ stage[target] \in Stages /\ faults \in 0 .. MaxFaults
  BY DEF InitializeDisk, TypeInv, TypeOK, PlaceInv
<1>2. CASE Becomes(stage[target], "isPv") /\ UNCHANGED faults
  BY <1>1, <1>2, BecomesType DEF PCs
<1>3. CASE stage[target] \in {"raw", "gpt"} /\ Becomes("luks", "isPv") /\ UNCHANGED faults
  BY <1>1, <1>3, BecomesType DEF PCs, Stages
<1>4. CASE Raise /\ (IF Shows(target, "luks") THEN Fault ELSE UNCHANGED faults)
  BY <1>1, <1>4, RaiseType, FaultType DEF TypeInv
<1> QED
  BY <1>2, <1>3, <1>4 DEF InitializeDisk

LEMMA AllocateVolumeType == TypeInv /\ AllocateVolume => TypeInv'
<1> SUFFICES ASSUME TypeInv, AllocateVolume PROVE TypeInv'
  OBVIOUS
<1>1. target \in Disks /\ pc = "isPv" /\ stage[target] \in Stages
  BY DEF AllocateVolume, TypeInv, TypeOK, PlaceInv
<1>2. faults' \in 0 .. MaxFaults
  BY FaultType DEF AllocateVolume, TypeInv, TypeOK
<1>3. PICK label \in {"lvcreate", "pvcreate"} : Becomes(stage[target], label)
  BY DEF AllocateVolume
<1> QED
  BY <1>1, <1>2, <1>3, BecomesType DEF PCs

LEMMA CreateLvType == TypeInv /\ CreateLv => TypeInv'
<1> SUFFICES ASSUME TypeInv, CreateLv PROVE TypeInv'
  OBVIOUS
<1>1. CASE Raise /\ UNCHANGED faults
  BY <1>1, RaiseType DEF TypeInv, TypeOK
<1>2. CASE /\ stage[target] = "vg"
           /\ lvs' = [lvs EXCEPT ![target] = @ + 1]
           /\ Goto(IF target = dev /\ Utilities # {} THEN "choose" ELSE "create")
           /\ UNCHANGED <<setup, stage, active, recorded, left, dev, target, missed, faults>>
  <2>1. target \in Disks /\ dev \in Devices /\ setup.tool = "ceph-volume"
        /\ target \in {dev} \union Utilities /\ pc = "lvcreate"
    BY DEF CreateLv, TypeInv, PlaceInv
  <2>2. lvs' \in [Disks -> Nat]
    BY <1>2, <2>1 DEF TypeInv, TypeOK
  <2>3. pc' \in {"choose", "create"}
    BY <1>2, <2>1 DEF Goto
  <2>4. TypeOK'
    BY <1>2, <2>2, <2>3 DEF TypeInv, TypeOK, PCs
  <2>5. stage[dev] = "vg"
    BY <1>2, <2>1 DEF TypeInv, PlaceInv, Begun
  <2>6. PlaceInv'
    BY <1>2, <2>1, <2>3, <2>5 DEF PlaceInv, Begun
  <2> QED
    BY <2>4, <2>6 DEF TypeInv
<1> QED
  BY <1>1, <1>2 DEF CreateLv

LEMMA ChooseUtilityType == TypeInv /\ ChooseUtility => TypeInv'
<1> SUFFICES ASSUME TypeInv, ChooseUtility PROVE TypeInv'
  OBVIOUS
<1>1. /\ target' \in Utilities /\ pc = "choose"
      /\ pc' = IF setup.tool = "ceph-volume" THEN "disk" ELSE "create"
      /\ UNCHANGED <<setup, disks, recorded, left, dev, missed>>
      /\ UNCHANGED faults \/ Fault
  BY DEF ChooseUtility, Goto
<1>2. faults' \in 0 .. MaxFaults
  BY <1>1, FaultType DEF TypeInv, TypeOK
<1>3. TypeOK'
  BY <1>1, <1>2 DEF TypeInv, TypeOK, disks, PCs
<1>4. PlaceInv'
  BY <1>1, ToolType DEF TypeInv, PlaceInv, Begun, disks
<1> QED
  BY <1>3, <1>4 DEF TypeInv

\* What ceph-volume or ceph-disk made.
LEMMA CreatedType ==
  ASSUME TypeInv, pc = "create", Created
  PROVE  /\ stage' \in [Disks -> Stages]
         /\ lvs' \in [Disks -> Nat]
         /\ active' \subseteq Devices
<1>1. CASE setup.tool = "ceph-volume"
  BY <1>1 DEF Created, TypeInv, TypeOK, PlaceInv, Begun
<1>2. CASE setup.tool = "ceph-disk"
  <2>1. target = None \/ target \in Disks
    BY <1>2 DEF TypeInv, PlaceInv, Begun
  <2>2. lvs' \in [Disks -> Nat]
    BY <1>2, <2>1 DEF Created, TypeInv, TypeOK
  <2> QED
    BY <1>2, <2>2 DEF Created, TypeInv, TypeOK, Stages
<1> QED
  BY <1>1, <1>2, ToolType DEF TypeInv

LEMMA CreateFailsType == TypeInv /\ CreateFails => TypeInv'
<1> SUFFICES ASSUME TypeInv, CreateFails PROVE TypeInv'
  OBVIOUS
<1>1. faults' \in 0 .. MaxFaults
  BY FaultType DEF CreateFails, TypeInv, TypeOK
<1>2. /\ stage' \in [Disks -> Stages]
      /\ lvs' \in [Disks -> Nat]
      /\ active' \subseteq Devices
  BY CreatedType DEF CreateFails, disks, TypeInv, TypeOK
<1>3. \/ pc' = "record" /\ UNCHANGED <<left, dev, target>>
      \/ pc' = "failed" /\ left' = {} /\ dev' = None /\ target' = None
  BY DEF CreateFails, Goto
<1>4. UNCHANGED <<setup, recorded>> /\ dev \in Devices /\ missed' = {}
  BY DEF CreateFails, TypeInv, PlaceInv
<1>5. TypeOK'
  BY <1>1, <1>2, <1>3, <1>4 DEF TypeInv, TypeOK, PCs
<1>6. PlaceInv'
  BY <1>3, <1>4 DEF PlaceInv, Begun
<1> QED
  BY <1>5, <1>6 DEF TypeInv

LEMMA NextType == TypeInv /\ [Next]_vars => TypeInv'
<1> SUFFICES ASSUME TypeInv, [Next]_vars PROVE TypeInv'
  OBVIOUS
<1>1. CASE Begin
  BY <1>1 DEF Begin, Goto, disks, TypeInv, TypeOK, PlaceInv, Begun, PCs
<1>2. ASSUME NEW d \in Devices, NextDevice(d) PROVE TypeInv'
  BY <1>2 DEF NextDevice, Goto, disks, TypeInv, TypeOK, PlaceInv, Begun, PCs
<1>3. CASE End
  BY <1>3 DEF End, Goto, disks, TypeInv, TypeOK, PlaceInv, Begun, PCs
<1>4. CASE Look
  BY <1>4, LookType
<1>5. CASE InitializeDisk
  BY <1>5, InitializeDiskType
<1>6. CASE AllocateVolume
  BY <1>6, AllocateVolumeType
<1>7. CASE CreatePv
  <2>1. CASE Raise /\ UNCHANGED faults
    BY <2>1, RaiseType DEF TypeInv, TypeOK
  <2>2. CASE stage[target] \in {"raw", "luks", "pv"} /\ Becomes("pv", "vgcreate") /\ UNCHANGED faults
    BY <1>7, <2>2, BecomesType DEF CreatePv, Stages, PCs, TypeInv, TypeOK
  <2> QED
    BY <1>7, <2>1, <2>2 DEF CreatePv
<1>8. CASE CreateVg
  BY <1>8, BecomesType DEF CreateVg, Stages, PCs, TypeInv, TypeOK
<1>9. CASE CreateLv
  BY <1>9, CreateLvType
<1>16. CASE ChooseUtility
  BY <1>16, ChooseUtilityType
<1>10. CASE Create
  <2>1. /\ stage' \in [Disks -> Stages]
        /\ lvs' \in [Disks -> Nat]
        /\ active' \subseteq Devices
    BY <1>10, CreatedType DEF Create
  <2>2. TypeOK'
    BY <1>10, <2>1 DEF Create, Goto, TypeInv, TypeOK, PCs
  <2>3. PlaceInv'
    BY <1>10 DEF Create, Goto, TypeInv, PlaceInv, Begun
  <2> QED
    BY <2>2, <2>3 DEF TypeInv
<1>11. CASE CreateFails
  BY <1>11, CreateFailsType
<1>12. CASE Record
  BY <1>12 DEF Record, Goto, disks, TypeInv, TypeOK, PlaceInv, Begun, PCs
<1>13. CASE Abort
  BY <1>13, RaiseType, FaultType DEF Abort, TypeInv
<1>14. ASSUME NEW d \in Devices, Mount(d) \/ Attach(d) PROVE TypeInv'
  <2>1. /\ UNCHANGED <<setup, lvs, active, recorded, pc, left, dev, target, faults, missed>>
        /\ stage[d] \in {"gpt", "absent"}
        /\ stage' \in [Disks -> Stages]
        /\ \A x \in Disks : stage[x] \notin {"gpt", "absent"} => stage'[x] = stage[x]
    BY <1>14 DEF Mount, Attach, TypeInv, TypeOK, Stages
  <2>2. TypeOK'
    BY <2>1 DEF TypeInv, TypeOK
  <2>3. PlaceInv'
    BY <2>1 DEF TypeInv, PlaceInv, Begun
  <2> QED
    BY <2>2, <2>3 DEF TypeInv
<1>15. CASE UNCHANGED vars
  BY <1>15 DEF vars, TypeInv, TypeOK, PlaceInv, Begun
<1> QED
  BY <1>1, <1>2, <1>3, <1>4, <1>5, <1>6, <1>7, <1>8, <1>9, <1>10, <1>11, <1>12, <1>13,
     <1>14, <1>15, <1>16 DEF Next

\* Every variable keeps its type through failing commands and retried hooks.
THEOREM TypeCorrect == Spec => []TypeOK
<1>1. TypeInv => TypeOK
  BY DEF TypeInv
<1> QED
  BY InitType, NextType, <1>1, PTL DEF Spec

-----------------------------------------------------------------------------
(* OSDs stay what they are.                                                *)

LEMMA InitOsd == Init => OsdInv
BY DEF Init, OsdInv, ActiveInv, Begun, MissedInv, RecordInv, RecordedIsOsd

\* An OSD stays one, or is one of ceph-disk's that sgdisk did not show to a hook
\* that uses vaultlocker.
Kept(d) == IsOsd(d) => IsOsd(d)' \/ (stage[d] = "gpt" /\ setup.vault /\ "partitions" \in missed)

\* A step that makes no OSD and records none.
LEMMA NoNewOsd ==
  ASSUME TypeInv, OsdInv, UNCHANGED <<setup, active, recorded>>,
         \A d \in Devices : IsOsd(d) => IsOsd(d)',
         \A d \in active : stage'[d] = stage[d] /\ (lvs[d] > 0 => lvs'[d] > 0),
         pc' = "record" => UNCHANGED <<pc, dev>>,
         pc' \in Attempt =>
           /\ pc \in Attempt /\ UNCHANGED <<dev, missed>>
           /\ stage'[dev] \in {"gpt", "mounted"} => stage[dev] \in {"gpt", "mounted"},
         Begun' => lvs'[dev'] > 0 /\ dev' \notin active
  PROVE  OsdInv'
<1>1. ActiveInv'
  BY DEF OsdInv, ActiveInv
<1>2. RecordInv'
  BY DEF OsdInv, RecordInv, TypeInv, PlaceInv
<1>3. RecordedIsOsd'
  BY DEF OsdInv, RecordedIsOsd, TypeInv, TypeOK
<1>4. MissedInv'
  BY DEF OsdInv, MissedInv
<1> QED
  BY <1>1, <1>2, <1>3, <1>4 DEF OsdInv

LEMMA RaiseOsd == ASSUME TypeInv, OsdInv, Raise PROVE OsdInv' /\ \A d \in Devices : Kept(d)
<1>1. UNCHANGED <<setup, stage, lvs, active, recorded>> /\ pc' = "failed"
  BY DEF Raise, Goto, disks
<1>2. \A d \in Devices : IsOsd(d)' = IsOsd(d)
  BY <1>1 DEF IsOsd
<1>3. OsdInv'
  BY <1>1, <1>2 DEF OsdInv, ActiveInv, Begun, MissedInv, RecordInv, RecordedIsOsd, TypeInv, TypeOK
<1> QED
  BY <1>2, <1>3 DEF Kept

LEMMA BecomesOsd ==
  ASSUME TypeInv, OsdInv, NEW s, NEW label \in Allocating, pc \in Allocating, Becomes(s, label),
         s # stage[target] =>
           /\ s \in {"luks", "pv", "vg"}
           /\ stage[target] \in {"raw", "luks", "pv"} \/ (stage[target] = "gpt" /\ setup.vault)
  PROVE  OsdInv' /\ \A d \in Devices : Kept(d)
<1>1. target \in {dev} \union Utilities /\ stage \in [Disks -> Stages] /\ dev \in Devices
  BY DEF TypeInv, TypeOK, PlaceInv
<1>2. /\ UNCHANGED <<setup, lvs, active, recorded, left, dev, target, missed>>
      /\ pc' = label
      /\ \A d \in Devices : d # dev => stage'[d] = stage[d]
      /\ stage'[dev] = stage[dev]
           \/ /\ stage[dev] \in {"raw", "luks", "pv"} \/ (stage[dev] = "gpt" /\ setup.vault)
              /\ stage'[dev] \in {"luks", "pv", "vg"}
  BY <1>1, OsdDevicesAssumption DEF Becomes, Goto
<1>3. /\ dev \notin recorded
      /\ stage[dev] \in {"gpt", "mounted"} => "partitions" \in missed
      /\ dev \in active => missed \intersect {"pv", "luks"} # {}
      /\ \A d \in active : stage[d] = "vg" /\ lvs[d] > 0
      /\ active \subseteq Devices /\ recorded \subseteq Devices
  BY DEF OsdInv, MissedInv, ActiveInv, TypeInv, TypeOK
<1>4. \A d \in active : stage'[d] = stage[d]
  BY <1>2, <1>3
<1>5. ActiveInv'
  BY <1>2, <1>3, <1>4 DEF OsdInv, ActiveInv, Begun
<1>6. MissedInv'
  BY <1>2, <1>3 DEF MissedInv
<1>7. \A d \in Devices : d # dev => IsOsd(d)' = IsOsd(d)
  BY <1>2 DEF IsOsd
<1>8. RecordedIsOsd' /\ RecordInv'
  BY <1>2, <1>3, <1>7 DEF OsdInv, RecordedIsOsd, RecordInv
<1>9. Kept(dev)
  BY <1>2, <1>3, <1>4 DEF Kept, IsOsd
<1>10. \A d \in Devices : d # dev => Kept(d)
  BY <1>7 DEF Kept
<1> QED
  BY <1>5, <1>6, <1>8, <1>9, <1>10 DEF OsdInv

\* Where no look fails the checks see every OSD: one on an encrypted disk of
\* vaultlocker's by its mapping.
LEMMA LookOsd == TypeInv /\ OsdInv /\ Look => OsdInv' /\ \A d \in Devices : Kept(d)
<1> SUFFICES ASSUME TypeInv, OsdInv, Look PROVE OsdInv' /\ \A d \in Devices : Kept(d)
  OBVIOUS
<1>1. UNCHANGED <<setup, stage, lvs, active, recorded, left>> /\ dev \in Devices
      /\ pc = "look" /\ target = None
  BY DEF Look, disks, TypeInv, PlaceInv
<1>2. \A d \in Devices : IsOsd(d)' = IsOsd(d)
  BY <1>1 DEF IsOsd
<1>3. RecordedIsOsd'
  BY <1>1, <1>2 DEF OsdInv, RecordedIsOsd, TypeInv, TypeOK
<1>4. \A d \in active : stage[d] = "vg" /\ lvs[d] > 0
  BY DEF OsdInv, ActiveInv
<1>5. PICK seen \in SUBSET Signs(dev) :
        \/ /\ Skips(dev, seen)
           /\ Goto("each")
        \/ /\ Records(dev, seen)
           /\ Goto("record")
           /\ UNCHANGED dev
        \/ /\ ~Skips(dev, seen) /\ ~Records(dev, seen)
           /\ \/ pc' = "disk" /\ target' = dev
              \/ pc' \in {"create", "choose"} /\ setup.tool # "ceph-volume"
           /\ missed' = Signs(dev) \ seen
           /\ UNCHANGED dev
  BY DEF Look, Goto
<1>6. CASE Skips(dev, seen) /\ Goto("each")
  BY <1>1, <1>2, <1>3, <1>4, <1>6 DEF OsdInv, ActiveInv, Begun, MissedInv, RecordInv, Goto, Kept
<1>7. CASE Records(dev, seen) /\ Goto("record") /\ UNCHANGED dev
  <2>1. IsOsd(dev)
    BY <1>4, <1>7 DEF Records, IsOsdDisk, IsActiveBluestore, IsOsd, Signs, Shows
  <2> QED
    BY <1>1, <1>2, <1>3, <1>4, <1>7, <2>1
       DEF OsdInv, ActiveInv, Begun, MissedInv, RecordInv, Goto, Kept
<1>8. CASE /\ ~Skips(dev, seen) /\ ~Records(dev, seen)
           /\ \/ pc' = "disk" /\ target' = dev
              \/ pc' \in {"create", "choose"} /\ setup.tool # "ceph-volume"
           /\ missed' = Signs(dev) \ seen
           /\ UNCHANGED dev
  <2>1. ~IsOsdDisk(dev, seen) /\ "mount" \notin seen /\ dev \notin recorded
        /\ ~IsActiveBluestore(dev, seen) /\ ~IsMappedLuks(dev, seen)
    BY <1>8 DEF Skips, Records
  <2>2. "partitions" \notin seen /\ ("pv" \in seen => dev \notin active) /\ "luks" \notin seen
    BY <2>1 DEF IsOsdDisk, IsActiveBluestore, IsMappedLuks
  <2>3. stage[dev] \in {"gpt", "mounted"} => "partitions" \in Signs(dev)
    BY DEF Signs, Shows
  <2>4. dev \in active => "pv" \in Signs(dev) \/ "luks" \in Signs(dev)
    BY <1>4 DEF Signs, Shows
  <2>5. MissedInv'
    BY <1>1, <1>8, <2>1, <2>2, <2>3, <2>4 DEF MissedInv
  <2>6. ActiveInv'
    BY <1>1, <1>4, <1>8 DEF ActiveInv, Begun
  <2>7. RecordInv'
    BY <1>8 DEF RecordInv
  <2> QED
    BY <1>2, <1>3, <2>5, <2>6, <2>7 DEF OsdInv, Kept
<1> QED
  BY <1>5, <1>6, <1>7, <1>8

\* A volume is allocated only from a disk with room, so not from an OSD.
LEMMA CreateLvOsd == TypeInv /\ OsdInv /\ CreateLv => OsdInv' /\ \A d \in Devices : Kept(d)
<1> SUFFICES ASSUME TypeInv, OsdInv, CreateLv PROVE OsdInv' /\ \A d \in Devices : Kept(d)
  OBVIOUS
<1>1. CASE Raise
  BY <1>1, RaiseOsd
<1>2. CASE /\ HasRoom(target)
           /\ lvs' = [lvs EXCEPT ![target] = @ + 1]
           /\ pc' \in {"choose", "create"}
           /\ UNCHANGED <<setup, stage, active, recorded, left, dev, target, missed>>
  <2>1. /\ target \in {dev} \union Utilities /\ dev \in Devices /\ setup.tool = "ceph-volume"
        /\ lvs \in [Disks -> Nat] /\ active \subseteq Devices /\ pc = "lvcreate"
    BY DEF CreateLv, TypeInv, TypeOK, PlaceInv
  <2>2. \A d \in Devices : IsOsd(d)' = IsOsd(d)
    BY <1>2 DEF IsOsd
  <2>3. \A d \in active : lvs[d] > 0 => lvs'[d] > 0
    BY <1>2, <2>1
  <2>4. lvs'[dev] > 0 /\ dev \notin active
    <3>1. CASE target = dev
      BY <1>2, <2>1, <3>1, OsdDevicesAssumption DEF OsdInv, ActiveInv, HasRoom
    <3>2. CASE target # dev
      BY <1>2, <2>1, <3>2, OsdDevicesAssumption DEF OsdInv, ActiveInv, Begun
    <3> QED
      BY <3>1, <3>2
  <2>5. OsdInv'
    BY <1>2, <2>1, <2>2, <2>3, <2>4, NoNewOsd
  <2> QED
    BY <2>2, <2>5 DEF Kept
<1> QED
  BY <1>1, <1>2 DEF CreateLv, Goto

\* The volume on the device is there, so it is not an OSD.
LEMMA ChooseUtilityOsd ==
  TypeInv /\ OsdInv /\ ChooseUtility => OsdInv' /\ \A d \in Devices : Kept(d)
<1> SUFFICES ASSUME TypeInv, OsdInv, ChooseUtility PROVE OsdInv' /\ \A d \in Devices : Kept(d)
  OBVIOUS
<1>1. /\ UNCHANGED <<setup, stage, lvs, active, recorded, left, dev, missed>>
      /\ pc = "choose" /\ pc' \in {"disk", "create"}
  BY DEF ChooseUtility, Goto, disks
<1>2. \A d \in Devices : IsOsd(d)' = IsOsd(d)
  BY <1>1 DEF IsOsd
<1>3. Begun' => Begun
  BY <1>1 DEF Begun
<1>4. OsdInv'
  BY <1>1, <1>2, <1>3, NoNewOsd DEF OsdInv, ActiveInv
<1> QED
  BY <1>2, <1>4 DEF Kept

\* ceph-volume and ceph-disk make OSDs of the device they are given, which is
\* none yet.
LEMMA CreatedOsd ==
  ASSUME TypeInv, OsdInv, pc = "create", CanCreate, Created, UNCHANGED <<setup, recorded>>,
         pc' \in {"record", "failed"}
  PROVE  /\ ActiveInv' /\ RecordedIsOsd' /\ (dev' = dev => IsOsd(dev)')
         /\ \A d \in Devices : Kept(d)
<1>1. dev \in Devices /\ stage \in [Disks -> Stages] /\ lvs \in [Disks -> Nat]
      /\ recorded \subseteq Devices /\ active \subseteq Devices
  BY DEF TypeInv, TypeOK, PlaceInv
<1>2. ~Begun'
  BY DEF Begun
<1>3. CASE setup.tool = "ceph-volume"
  <2>1. active' = active \union {dev} /\ UNCHANGED <<stage, lvs>>
    BY <1>3 DEF Created
  <2>2. stage[dev] = "vg" /\ lvs[dev] > 0
    BY <1>3 DEF TypeInv, PlaceInv, OsdInv, ActiveInv, Begun
  <2>3. ActiveInv'
    BY <1>2, <2>1, <2>2 DEF OsdInv, ActiveInv
  <2>4. \A d \in Devices : IsOsd(d) => IsOsd(d)'
    BY <2>1 DEF IsOsd
  <2>5. dev' = dev => IsOsd(dev)'
    BY <2>1, <2>2 DEF IsOsd
  <2> QED
    BY <1>1, <2>3, <2>4, <2>5 DEF OsdInv, RecordedIsOsd, Kept
<1>4. CASE setup.tool = "ceph-disk"
  <2>1. stage' = [stage EXCEPT ![dev] = "gpt"] /\ UNCHANGED active /\ stage[dev] = "raw"
    BY <1>4 DEF Created, CanCreate
  <2>2. \A d \in Devices : d # dev => stage'[d] = stage[d]
    BY <1>1, <2>1
  <2>3. stage'[dev] = "gpt" /\ dev \notin active
    BY <1>1, <2>1 DEF OsdInv, ActiveInv
  <2>4. \A d \in active : lvs[d] > 0 => lvs'[d] > 0
    <3>1. UNCHANGED lvs \/ (target \in Utilities /\ lvs' = [lvs EXCEPT ![target] = @ + 1])
      BY <1>4 DEF Created, TypeInv, PlaceInv
    <3> QED
      BY <1>1, <3>1
  <2>5. ActiveInv'
    BY <1>1, <1>2, <2>1, <2>2, <2>3, <2>4 DEF OsdInv, ActiveInv, TypeInv, TypeOK
  <2>6. \A d \in Devices : IsOsd(d) => IsOsd(d)'
    BY <2>1, <2>2, <2>3 DEF IsOsd
  <2>7. dev' = dev => IsOsd(dev)'
    BY <2>3 DEF IsOsd
  <2> QED
    BY <1>1, <2>5, <2>6, <2>7 DEF OsdInv, RecordedIsOsd, Kept
<1> QED
  BY <1>3, <1>4, ToolType DEF TypeInv

LEMMA NextOsd == TypeInv /\ OsdInv /\ [Next]_vars => OsdInv' /\ \A d \in Devices : Kept(d)
<1> SUFFICES ASSUME TypeInv, OsdInv, [Next]_vars PROVE OsdInv' /\ \A d \in Devices : Kept(d)
  OBVIOUS
<1>1. CASE Begin \/ End \/ \E d \in Devices : NextDevice(d)
  <2>1. /\ UNCHANGED <<setup, stage, lvs, active, recorded>>
        /\ pc' \in {"each", "ended", "look"}
    BY <1>1 DEF Begin, End, NextDevice, Goto, disks
  <2>2. \A d \in Devices : IsOsd(d)' = IsOsd(d)
    BY <2>1 DEF IsOsd
  <2>3. OsdInv'
    BY <2>1, <2>2 DEF OsdInv, ActiveInv, Begun, MissedInv, RecordInv, RecordedIsOsd, TypeInv, TypeOK
  <2> QED
    BY <2>2, <2>3 DEF Kept
<1>2. CASE Look
  BY <1>2, LookOsd
<1>3. CASE InitializeDisk
  <2>1. CASE Raise
    BY <2>1, RaiseOsd
  <2>2. CASE Becomes(stage[target], "isPv")
    BY <1>3, <2>2, BecomesOsd DEF InitializeDisk
  <2>3. CASE setup.vault /\ stage[target] \in {"raw", "gpt"} /\ Becomes("luks", "isPv")
    BY <1>3, <2>3, BecomesOsd DEF InitializeDisk
  <2> QED
    BY <1>3, <2>1, <2>2, <2>3 DEF InitializeDisk
<1>4. CASE AllocateVolume
  <2>1. PICK label \in {"lvcreate", "pvcreate"} : Becomes(stage[target], label) /\ pc = "isPv"
    BY <1>4 DEF AllocateVolume
  <2> QED
    BY <2>1, BecomesOsd
<1>5. CASE CreatePv
  <2>1. CASE Raise
    BY <2>1, RaiseOsd
  <2>2. CASE stage[target] \in {"raw", "luks", "pv"} /\ Becomes("pv", "vgcreate")
    BY <1>5, <2>2, BecomesOsd DEF CreatePv
  <2> QED
    BY <1>5, <2>1, <2>2 DEF CreatePv
<1>6. CASE CreateVg
  BY <1>6, BecomesOsd DEF CreateVg, TypeInv, PlaceInv
<1>7. CASE CreateLv
  BY <1>7, CreateLvOsd
<1>14. CASE ChooseUtility
  BY <1>14, ChooseUtilityOsd
<1>8. CASE Create
  <2>1. pc' = "record" /\ dev' = dev /\ UNCHANGED <<setup, recorded>>
    BY <1>8 DEF Create, Goto
  <2>2. ActiveInv' /\ RecordedIsOsd' /\ IsOsd(dev)' /\ \A d \in Devices : Kept(d)
    BY <1>8, <2>1, CreatedOsd DEF Create
  <2> QED
    BY <2>1, <2>2 DEF OsdInv, RecordInv, MissedInv
<1>9. CASE CreateFails
  <2>1. pc' \in {"record", "failed"} /\ (pc' = "record" => setup.ignoreErrors)
        /\ UNCHANGED <<setup, recorded>> /\ pc = "create"
    BY <1>9 DEF CreateFails, Goto
  <2>2. ActiveInv' /\ RecordedIsOsd' /\ \A d \in Devices : Kept(d)
    <3>1. CASE UNCHANGED disks
      BY <2>1, <3>1 DEF OsdInv, ActiveInv, Begun, RecordedIsOsd, IsOsd, disks, Kept
    <3>2. CASE CanCreate /\ Created
      BY <2>1, <3>2, CreatedOsd
    <3> QED
      BY <1>9, <3>1, <3>2 DEF CreateFails
  <2> QED
    BY <2>1, <2>2 DEF OsdInv, RecordInv, MissedInv
<1>10. CASE Record
  <2>1. /\ UNCHANGED <<setup, stage, lvs, active>> /\ pc = "record" /\ pc' = "each"
        /\ recorded' = recorded \union {dev}
    BY <1>10 DEF Record, disks, Goto
  <2>2. \A d : IsOsd(d)' = IsOsd(d)
    BY <2>1 DEF IsOsd
  <2>3. ActiveInv' /\ MissedInv' /\ RecordInv'
    BY <2>1 DEF OsdInv, ActiveInv, Begun, MissedInv, RecordInv
  <2>4. RecordedIsOsd'
    BY <2>1, <2>2 DEF OsdInv, RecordInv, RecordedIsOsd
  <2> QED
    BY <2>2, <2>3, <2>4 DEF OsdInv, Kept
<1>11. CASE Abort
  BY <1>11, RaiseOsd DEF Abort
<1>12. ASSUME NEW d \in Devices, Mount(d) \/ Attach(d)
       PROVE  OsdInv' /\ \A x \in Devices : Kept(x)
  <2>1. /\ UNCHANGED <<setup, lvs, active, recorded, pc, dev, target, missed>>
        /\ \/ stage[d] = "gpt" /\ stage'[d] = "mounted"
           \/ stage[d] = "absent" /\ stage'[d] = "raw" /\ pc \in AtRest
        /\ \A x \in Disks : x # d => stage'[x] = stage[x]
    <3>1. d \in Disks /\ stage \in [Disks -> Stages]
      BY DEF TypeInv, TypeOK
    <3>2. CASE Mount(d)
      BY <3>1, <3>2 DEF Mount
    <3>3. CASE Attach(d)
      BY <3>1, <3>3 DEF Attach
    <3> QED
      BY <1>12, <3>2, <3>3
  <2>2. \A x \in Devices : IsOsd(x) => IsOsd(x)'
    BY <2>1 DEF IsOsd
  <2>3. \A x \in active : stage'[x] = stage[x] /\ lvs'[x] = lvs[x]
    BY <2>1 DEF OsdInv, ActiveInv, TypeInv, TypeOK
  <2>4. pc \in Attempt =>
          /\ dev \in Devices
          /\ stage'[dev] \in {"gpt", "mounted"} => stage[dev] \in {"gpt", "mounted"}
    BY <2>1 DEF TypeInv, PlaceInv
  <2>5. Begun' => Begun
    BY <2>1 DEF Begun
  <2>6. Begun' => lvs'[dev'] > 0 /\ dev' \notin active
    BY <2>1, <2>5 DEF OsdInv, ActiveInv
  <2>7. OsdInv'
    BY <2>1, <2>2, <2>3, <2>4, <2>6, NoNewOsd
  <2> QED
    BY <2>2, <2>7 DEF Kept
<1>13. CASE UNCHANGED vars
  <2>1. UNCHANGED <<setup, stage, lvs, active, recorded, pc, left, dev, target, faults, missed>>
    BY <1>13 DEF vars
  <2>2. \A d : IsOsd(d)' = IsOsd(d)
    BY <2>1 DEF IsOsd
  <2>3. OsdInv'
    BY <2>1, <2>2 DEF OsdInv, ActiveInv, Begun, MissedInv, RecordInv, RecordedIsOsd
  <2> QED
    BY <2>2, <2>3 DEF Kept
<1> QED
  BY <1>1, <1>2, <1>3, <1>4, <1>5, <1>6, <1>7, <1>8, <1>9, <1>10, <1>11, <1>12, <1>13, <1>14 DEF Next

LEMMA OsdInvariant == Spec => [](TypeInv /\ OsdInv)
<1>1. Init => TypeInv /\ OsdInv
  BY InitType, InitOsd
<1>2. TypeInv /\ OsdInv /\ [Next]_vars => (TypeInv /\ OsdInv)'
  BY NextType, NextOsd
<1> QED
  BY <1>1, <1>2, PTL DEF Spec

\* The record of processed devices names OSDs only, unless the caller has errors
\* ignored: a device is never left unprepared because an attempt failed.
THEOREM RecordNamesOsds == Spec => []RecordedIsOsd
<1>1. OsdInv => RecordedIsOsd
  BY DEF OsdInv
<1> QED
  BY OsdInvariant, <1>1, PTL

\* Whatever failed or went down before, an OSD is set about a second time only
\* after a look at it that failed in the same hook, and no second OSD is made
\* of it even then.
THEOREM NothingPreparedTwice == Spec => []PreparedOnce
<1>1. TypeInv /\ OsdInv => PreparedOnce
  <2> SUFFICES ASSUME TypeInv, OsdInv PROVE PreparedOnce
    OBVIOUS
  <2>1. pc \in Attempt /\ IsOsd(dev) => missed \intersect {"partitions", "pv", "luks"} # {}
    BY DEF OsdInv, MissedInv, IsOsd
  <2>2. pc = "create" /\ setup.tool = "ceph-volume" => ~IsOsd(dev)
    BY DEF OsdInv, ActiveInv, TypeInv, PlaceInv, Begun, IsOsd
  <2>3. pc = "create" /\ setup.tool = "ceph-disk" /\ CanCreate => ~IsOsd(dev)
    BY DEF CanCreate, IsOsd
  <2> QED
    BY <2>1, <2>2, <2>3, ToolType DEF PreparedOnce, TypeInv
<1> QED
  BY OsdInvariant, <1>1, PTL

\* No failed look costs an OSD, but for one of ceph-disk's that is not mounted,
\* when sgdisk fails and vaultlocker formats its disk.
THEOREM OsdsStay == Spec => OsdsAreKept
<1>1. TypeInv /\ OsdInv /\ [Next]_vars =>
        [\A d \in Devices :
           IsOsd(d) => \/ IsOsd(d)'
                       \/ stage[d] = "gpt" /\ setup.vault /\ "partitions" \in missed]_vars
  BY NextOsd DEF Kept
<1> QED
  BY OsdInvariant, <1>1, PTL DEF Spec, OsdsAreKept

-----------------------------------------------------------------------------
(* Utility devices are used evenly.                                        *)

LEMMA InitBalance == Init => BalanceInv
<1> SUFFICES ASSUME Init PROVE BalanceInv
  OBVIOUS
<1>1. /\ \A x \in Disks : lvs[x] = 0
      /\ pc = "idle" /\ faults = 0
  BY DEF Init
<1> QED
  BY <1>1 DEF BalanceInv, ChosenInv, UtilitiesAreBalanced

LEMMA FaultsGrow ==
  ASSUME TypeOK, [Next]_vars
  PROVE  faults \in Nat /\ faults' \in {faults, faults + 1}
<1>1. faults \in Nat
  BY OsdDevicesAssumption DEF TypeOK
<1>2. CASE Begin \/ End \/ \E d \in Devices : NextDevice(d) \/ Mount(d) \/ Attach(d)
  BY <1>1, <1>2 DEF Begin, End, NextDevice, Mount, Attach
<1>3. CASE Look \/ ChooseUtility
  BY <1>1, <1>3 DEF Look, ChooseUtility, Fault
<1>4. CASE InitializeDisk \/ AllocateVolume \/ CreatePv \/ CreateVg \/ CreateLv
  BY <1>1, <1>4 DEF InitializeDisk, AllocateVolume, CreatePv, CreateVg, CreateLv, Fault
<1>5. CASE Create \/ CreateFails \/ Record \/ Abort
  BY <1>1, <1>5 DEF Create, CreateFails, Record, Abort, Fault
<1>6. CASE UNCHANGED vars
  BY <1>1, <1>6 DEF vars
<1> QED
  BY <1>1, <1>2, <1>3, <1>4, <1>5, <1>6 DEF Next

\* Without vaultlocker the usage that the code sees is the real one, where no
\* look fails.
LEMMA LeastUsedIsLeast ==
  ASSUME TypeInv, BalanceInv, ~setup.vault, NEW u, LeastUsed(u, Utilities), NEW v \in Utilities
  PROVE  u \in Utilities /\ lvs[u] <= lvs[v]
<1>1. \A w \in Utilities : Usage(w, Utilities) = lvs[w]
  BY ToolType DEF TypeInv, BalanceInv, ChosenInv, Usage, Shows
<1> QED
  BY <1>1 DEF LeastUsed

\* A volume from the device that was chosen.
LEMMA OneMore ==
  ASSUME TypeInv, BalanceInv, UNCHANGED setup, lvs' = [lvs EXCEPT ![target] = @ + 1],
         pc \in Allocating \/ (pc = "create" /\ setup.tool = "ceph-disk"),
         target \in Disks, faults' \in {faults, faults + 1}
  PROVE  UtilitiesAreBalanced'
<1> SUFFICES ASSUME ~setup.vault, NEW u \in Utilities, NEW v \in Utilities
             PROVE  lvs'[u] <= lvs'[v] + 1 + faults'
  BY DEF UtilitiesAreBalanced
<1>1. lvs \in [Disks -> Nat] /\ faults \in Nat
  BY OsdDevicesAssumption DEF TypeInv, TypeOK
<1>2. lvs[u] \in Nat /\ lvs[v] \in Nat /\ lvs[u] <= lvs[v] + 1 + faults
  BY <1>1 DEF BalanceInv, UtilitiesAreBalanced
<1>3. /\ lvs'[u] = IF u = target THEN lvs[u] + 1 ELSE lvs[u]
      /\ lvs'[v] = IF v = target THEN lvs[v] + 1 ELSE lvs[v]
  BY <1>1
<1>4. u = target => lvs[u] <= lvs[v] + faults
  BY DEF BalanceInv, ChosenInv
<1> QED
  BY <1>1, <1>2, <1>3, <1>4

\* A step that allocates nothing.
LEMMA NoNewVolume ==
  ASSUME TypeInv, BalanceInv, UNCHANGED <<setup, lvs>>, faults' \in {faults, faults + 1},
         \A u \in Utilities : stage[u] \in {"pv", "vg"} => stage'[u] \in {"pv", "vg"},
         \/ pc' \in AtRest \union {"each", "look", "record", "choose"}
         \/ pc' = "create" /\ setup.tool = "ceph-volume"
         \/ target' \notin Utilities
         \/ pc \in Allocating /\ UNCHANGED target
  PROVE  BalanceInv'
<1>0. faults \in Nat /\ \A u \in Utilities : lvs[u] \in Nat
  BY OsdDevicesAssumption DEF TypeInv, TypeOK
<1>1. UtilitiesAreBalanced'
  BY <1>0 DEF BalanceInv, UtilitiesAreBalanced
<1>2. setup'.tool = "ceph-volume" =>
        \A u \in Utilities : stage'[u] \notin {"pv", "vg"} => lvs'[u] = 0
  BY DEF BalanceInv, ChosenInv
<1>3. ASSUME ~setup'.vault, target' \in Utilities,
             pc' \in Allocating \/ (pc' = "create" /\ setup'.tool = "ceph-disk"),
             NEW v \in Utilities
      PROVE  lvs'[target'] <= lvs'[v] + faults'
  <2>1. pc \in Allocating /\ target' = target
    BY <1>3
  <2>2. lvs[target] <= lvs[v] + faults
    BY <1>3, <2>1 DEF BalanceInv, ChosenInv
  <2> QED
    BY <1>0, <1>3, <2>1, <2>2
<1> QED
  BY <1>1, <1>2, <1>3 DEF BalanceInv, ChosenInv

LEMMA BecomesBalance ==
  ASSUME TypeInv, BalanceInv, NEW s, NEW label, pc \in Allocating, Becomes(s, label),
         stage[target] \in {"pv", "vg"} => s \in {"pv", "vg"}, faults' \in {faults, faults + 1}
  PROVE  BalanceInv'
<1>1. stage \in [Disks -> Stages] /\ target \in Disks
  BY DEF TypeInv, TypeOK, PlaceInv
<1>2. \A u \in Utilities : stage[u] \in {"pv", "vg"} => stage'[u] \in {"pv", "vg"}
  BY <1>1 DEF Becomes
<1> QED
  BY <1>2, NoNewVolume DEF Becomes

LEMMA LookBalance ==
  ASSUME TypeInv, BalanceInv, Look, faults' \in {faults, faults + 1} PROVE BalanceInv'
<1>1. UNCHANGED <<setup, stage, lvs>> /\ dev \in Devices /\ target = None
  BY DEF Look, disks, TypeInv, PlaceInv
<1>2. target' \in {None, dev}
  BY <1>1 DEF Look
<1>3. target' \notin Utilities
  BY <1>1, <1>2, OsdDevicesAssumption
<1> QED
  BY <1>1, <1>3, NoNewVolume

LEMMA CreateLvBalance ==
  ASSUME TypeInv, BalanceInv, CreateLv, faults' \in {faults, faults + 1} PROVE BalanceInv'
<1>1. CASE Raise
  BY <1>1, NoNewVolume DEF Raise, Goto, disks
<1>2. CASE /\ stage[target] = "vg"
           /\ lvs' = [lvs EXCEPT ![target] = @ + 1]
           /\ pc' \in {"choose", "create"}
           /\ UNCHANGED <<setup, stage, target>>
  <2>1. /\ target \in Disks /\ dev \in Devices /\ setup.tool = "ceph-volume"
        /\ lvs \in [Disks -> Nat]
    BY DEF CreateLv, TypeInv, TypeOK, PlaceInv
  <2>2. UtilitiesAreBalanced'
    BY <1>2, <2>1, OneMore DEF CreateLv
  <2>3. \A u \in Utilities : stage'[u] \notin {"pv", "vg"} => lvs'[u] = 0
    BY <1>2, <2>1 DEF BalanceInv, ChosenInv
  <2> QED
    BY <1>2, <2>1, <2>2, <2>3 DEF BalanceInv, ChosenInv
<1> QED
  BY <1>1, <1>2 DEF CreateLv, Goto

\* A device whose look failed may be the fullest, and the fault makes up for it.
LEMMA ChooseUtilityBalance ==
  ASSUME TypeInv, BalanceInv, ChooseUtility PROVE BalanceInv'
<1>1. PICK listed \in SUBSET Utilities :
        /\ LeastUsed(target', listed) /\ target' \in Utilities
        /\ IF listed = Utilities THEN UNCHANGED faults ELSE Fault
  BY DEF ChooseUtility
<1>2. UNCHANGED <<setup, stage, lvs>>
  BY DEF ChooseUtility, disks
<1>3. faults \in Nat /\ \A u \in Utilities : lvs[u] \in Nat
  BY OsdDevicesAssumption DEF TypeInv, TypeOK
<1>4. faults' \in {faults, faults + 1}
  BY <1>1 DEF Fault
<1>5. UtilitiesAreBalanced'
  BY <1>2, <1>3, <1>4 DEF BalanceInv, UtilitiesAreBalanced
<1>6. ASSUME ~setup.vault, NEW v \in Utilities PROVE lvs[target'] <= lvs[v] + faults'
  <2>1. CASE listed = Utilities
    BY <1>1, <1>3, <1>6, <2>1, LeastUsedIsLeast
  <2>2. CASE listed # Utilities
    <3>1. faults' = faults + 1
      BY <1>1, <2>2 DEF Fault
    <3>2. lvs[target'] <= lvs[v] + 1 + faults
      BY <1>1, <1>6 DEF BalanceInv, UtilitiesAreBalanced
    <3> QED
      BY <1>1, <1>3, <3>1, <3>2
  <2> QED
    BY <2>1, <2>2
<1> QED
  BY <1>2, <1>5, <1>6 DEF BalanceInv, ChosenInv

\* ceph-disk makes a partition on the utility device itself.
LEMMA CreatedBalance ==
  ASSUME TypeInv, BalanceInv, pc = "create", Created, UNCHANGED setup,
         pc' \in {"record", "failed"}, faults' \in {faults, faults + 1}
  PROVE  BalanceInv'
<1>1. CASE setup.tool = "ceph-volume"
  BY <1>1, NoNewVolume DEF Created
<1>2. CASE setup.tool = "ceph-disk"
  <2>1. UtilitiesAreBalanced'
    <3>1. CASE target = None
      <4>1. faults \in Nat /\ \A u \in Utilities : lvs[u] \in Nat
        BY OsdDevicesAssumption DEF TypeInv, TypeOK
      <4> QED
        BY <1>2, <3>1, <4>1 DEF Created, BalanceInv, UtilitiesAreBalanced
    <3>2. CASE target # None
      BY <1>2, <3>2, OneMore DEF Created, TypeInv, PlaceInv
    <3> QED
      BY <3>1, <3>2
  <2> QED
    BY <1>2, <2>1 DEF BalanceInv, ChosenInv
<1> QED
  BY <1>1, <1>2, ToolType DEF TypeInv

LEMMA NextBalance == TypeInv /\ BalanceInv /\ [Next]_vars => BalanceInv'
<1> SUFFICES ASSUME TypeInv, BalanceInv, [Next]_vars PROVE BalanceInv'
  OBVIOUS
<1>f. faults' \in {faults, faults + 1}
  BY FaultsGrow DEF TypeInv
<1>1. CASE Begin \/ End \/ \E d \in Devices : NextDevice(d)
  BY <1>1, <1>f, NoNewVolume DEF Begin, End, NextDevice, Goto, disks
<1>2. CASE Look
  BY <1>2, <1>f, LookBalance
<1>3. CASE InitializeDisk
  <2>1. CASE Raise
    BY <1>f, <2>1, NoNewVolume DEF Raise, Goto, disks
  <2>2. CASE ~Raise
    BY <1>3, <1>f, <2>2, BecomesBalance DEF InitializeDisk
  <2> QED
    BY <2>1, <2>2
<1>4. CASE AllocateVolume
  <2>1. PICK label : Becomes(stage[target], label) /\ pc = "isPv"
    BY <1>4 DEF AllocateVolume
  <2> QED
    BY <1>f, <2>1, BecomesBalance
<1>5. CASE CreatePv
  <2>1. CASE Raise
    BY <1>f, <2>1, NoNewVolume DEF Raise, Goto, disks
  <2>2. CASE Becomes("pv", "vgcreate")
    BY <1>5, <1>f, <2>2, BecomesBalance DEF CreatePv
  <2> QED
    BY <1>5, <2>1, <2>2 DEF CreatePv
<1>6. CASE CreateVg
  BY <1>6, <1>f, BecomesBalance DEF CreateVg
<1>7. CASE CreateLv
  BY <1>7, <1>f, CreateLvBalance
<1>14. CASE ChooseUtility
  BY <1>14, ChooseUtilityBalance
<1>8. CASE Create
  BY <1>8, <1>f, CreatedBalance DEF Create, Goto
<1>9. CASE CreateFails
  <2>1. CASE UNCHANGED disks
    BY <1>9, <1>f, <2>1, NoNewVolume DEF CreateFails, Goto, disks
  <2>2. CASE Created
    BY <1>9, <1>f, <2>2, CreatedBalance DEF CreateFails, Goto
  <2> QED
    BY <1>9, <2>1, <2>2 DEF CreateFails
<1>10. CASE Record
  BY <1>10, <1>f, NoNewVolume DEF Record, Goto, disks
<1>11. CASE Abort
  BY <1>11, <1>f, NoNewVolume DEF Abort, Raise, Goto, disks
<1>12. ASSUME NEW d \in Devices, Mount(d) \/ Attach(d) PROVE BalanceInv'
  <2>1. \A u \in Utilities : stage'[u] = stage[u]
    BY <1>12, OsdDevicesAssumption DEF Mount, Attach, TypeInv, TypeOK
  <2>2. UNCHANGED <<setup, lvs, pc, target, faults>>
    BY <1>12 DEF Mount, Attach
  <2> QED
    BY <2>1, <2>2 DEF BalanceInv, ChosenInv, UtilitiesAreBalanced
<1>13. CASE UNCHANGED vars
  BY <1>13 DEF vars, BalanceInv, ChosenInv, UtilitiesAreBalanced
<1> QED
  BY <1>1, <1>2, <1>3, <1>4, <1>5, <1>6, <1>7, <1>8, <1>9, <1>10, <1>11, <1>12, <1>13, <1>14 DEF Next

\* Without vaultlocker the volumes of any number of OSDs are spread evenly over
\* the utility devices, those that failed attempts left behind included: by no
\* more than one volume, and one for each fault.
THEOREM UtilitiesUsedEvenly == Spec => []UtilitiesAreBalanced
<1>1. BalanceInv => UtilitiesAreBalanced
  BY DEF BalanceInv
<1> QED
  BY InitType, InitBalance, NextType, NextBalance, <1>1, PTL DEF Spec
-----------------------------------------------------------------------------
(* What a hook passes over in silence.                                     *)

\* Something has happened that can cut a preparation short.
Traced == faults > 0 \/ \E u \in Utilities : ~HasRoom(u)

\* The volumes of a device are in its volume group, and a utility device is
\* never anybody else's.
DiskInv ==
  /\ \A d \in Devices : stage[d] # "vg" => lvs[d] = 0
  /\ \A u \in Utilities : stage[u] \in {"raw", "luks", "pv", "vg"}

\* What _allocate_logical_volume has found out still holds, and, until the
\* first fault, ceph-disk is not given a disk of vaultlocker's.
AttemptInv ==
  /\ pc = "lvcreate" => stage[target] \in {"pv", "vg"}
  /\ faults = 0 =>
       /\ pc = "pvcreate" => stage[target] \notin {"pv", "vg"}
       /\ pc \in {"choose", "create"} /\ setup.tool = "ceph-disk" => ~Shows(dev, "luks")

\* Until the first fault each disk gets as far as it can: the device of an
\* attempt is raw, encrypted, then a volume group without a volume, and no
\* utility device is left without its group.
CleanInv ==
  setup.vault /\ faults = 0 =>
    /\ pc \in Allocating /\ target = dev =>
         /\ lvs[dev] = 0
         /\ pc = "disk" => stage[dev] = "raw"
         /\ pc \in {"isPv", "pvcreate"} => stage[dev] = "luks"
         /\ pc = "lvcreate" => stage[dev] = "vg"
    /\ \A u \in Utilities : stage[u] = "pv" => pc = "vgcreate" /\ target = u

\* A preparation that is cut short had a reason.
TraceInv ==
  \A d \in Devices : CutShort(d) => (pc \in Attempt /\ d = dev) \/ Traced

\* What the property says of a device.
Passed(d) ==
  \/ IsOsd(d)
  \/ stage[d] \in {"absent", "foreign"}
  \/ CutShort(d) /\ Traced

\* It holds of the devices the hook is done with.
EndInv ==
  pc \notin AtRest /\ ~setup.ignoreErrors =>
    \A d \in Devices \ left : (Busy /\ d = dev) \/ Passed(d)

SilentInv == DiskInv /\ AttemptInv /\ CleanInv /\ TraceInv /\ EndInv

LEMMA InitSilent == Init => SilentInv
<1> SUFFICES ASSUME Init PROVE SilentInv
  OBVIOUS
<1>1. DiskInv
  BY DEF Init, DiskInv
<1>2. AttemptInv /\ CleanInv /\ EndInv
  BY DEF Init, AttemptInv, CleanInv, EndInv
<1>3. TraceInv
  BY DEF Init, TraceInv, CutShort, Shows
<1> QED
  BY <1>1, <1>2, <1>3 DEF SilentInv

\* Faults and volumes only become more.
LEMMA TracedStays ==
  ASSUME TypeOK, Traced, faults' \in {faults, faults + 1},
         \A u \in Utilities : lvs'[u] \in {lvs[u], lvs[u] + 1}
  PROVE  Traced'
<1>1. faults \in Nat /\ \A u \in Utilities : lvs[u] \in Nat /\ u \notin Devices
  BY OsdDevicesAssumption DEF TypeOK
<1>2. CASE faults > 0
  BY <1>1, <1>2 DEF Traced
<1>3. CASE \E u \in Utilities : ~HasRoom(u)
  <2>1. PICK u \in Utilities : ~HasRoom(u)
    BY <1>3
  <2>2. ~HasRoom(u)'
    BY <1>1, <2>1, OsdDevicesAssumption DEF HasRoom
  <2> QED
    BY <2>2 DEF Traced
<1> QED
  BY <1>2, <1>3 DEF Traced

\* An exception leaves the disks as they are.
LEMMA RaiseSilent ==
  ASSUME TypeInv, SilentInv, Raise, faults' \in {faults, faults + 1},
         pc \in Attempt /\ CutShort(dev) => Traced',
         faults' = faults => pc # "vgcreate"
  PROVE  SilentInv'
<1>1. /\ UNCHANGED <<setup, stage, lvs, active, recorded>>
      /\ pc' = "failed"
  BY DEF Raise, Goto, disks
<1>2. DiskInv'
  BY <1>1 DEF SilentInv, DiskInv
<1>3. AttemptInv' /\ EndInv'
  BY <1>1 DEF AttemptInv, EndInv
<1>4. CleanInv'
  <2>1. faults' = 0 => faults = 0 /\ faults' = faults
    BY OsdDevicesAssumption DEF TypeInv, TypeOK
  <2> QED
    BY <1>1, <2>1 DEF SilentInv, CleanInv
<1>5. TraceInv'
  <2>1. \A d \in Devices : CutShort(d)' = CutShort(d)
    BY <1>1 DEF CutShort, Shows, IsOsd
  <2>2. Traced => Traced'
    BY <1>1, TracedStays DEF TypeInv
  <2> QED
    BY <2>1, <2>2 DEF SilentInv, TraceInv
<1> QED
  BY <1>2, <1>3, <1>4, <1>5 DEF SilentInv

\* While disks are initialised the other devices stay as they are.
LEMMA BecomesTrace ==
  ASSUME TypeInv, SilentInv, NEW s, NEW label \in Allocating, pc \in Allocating,
         Becomes(s, label), faults' \in {faults, faults + 1}
  PROVE  TraceInv' /\ EndInv'
<1>1. /\ target \in {dev} \union Utilities /\ dev \in Devices
      /\ stage \in [Disks -> Stages]
  BY DEF TypeInv, TypeOK, PlaceInv
<1>2. UNCHANGED <<setup, lvs, active, recorded, left, dev, target>>
      /\ pc' \in Allocating
  BY DEF Becomes, Goto
<1>3. \A d \in Devices : d # dev => stage'[d] = stage[d]
  BY <1>1, OsdDevicesAssumption DEF Becomes
<1>4. Traced => Traced'
  BY <1>2, TracedStays DEF TypeInv
<1>5. \A d \in Devices : d # dev =>
        /\ CutShort(d)' = CutShort(d)
        /\ IsOsd(d)' = IsOsd(d)
        /\ Passed(d) => Passed(d)'
  BY <1>2, <1>3, <1>4 DEF Passed, CutShort, Shows, IsOsd
<1>6. TraceInv'
  BY <1>2, <1>4, <1>5 DEF SilentInv, TraceInv
<1>7. EndInv'
  BY <1>2, <1>5 DEF SilentInv, EndInv
<1> QED
  BY <1>6, <1>7

\* The four commands that take a disk from one stage to the next.
LEMMA BecomesSilent ==
  ASSUME TypeInv, SilentInv, NEW s, NEW label \in Allocating, pc \in Allocating,
         Becomes(s, label), faults' \in {faults, faults + 1},
         \* a volume group stays, and a utility device stays the code's
         stage[target] = "vg" => s = "vg",
         s = stage[target] \/ s \in {"luks", "pv", "vg"},
         label = "lvcreate" => s \in {"pv", "vg"},
         faults' = 0 =>
           /\ label = "pvcreate" => s \notin {"pv", "vg"}
           /\ setup.vault =>
                /\ target = dev =>
                     /\ label # "disk"
                     /\ label \in {"isPv", "pvcreate"} => s = "luks"
                     /\ label = "lvcreate" => s = "vg"
                /\ target \in Utilities /\ s = "pv" => label = "vgcreate"
                /\ pc = "vgcreate" => s = "vg"
  PROVE  SilentInv'
<1>1. /\ target \in {dev} \union Utilities /\ dev \in Devices
      /\ stage \in [Disks -> Stages] /\ target \in Disks
      /\ \A u \in Utilities : u \notin Devices
      /\ faults \in Nat
  BY OsdDevicesAssumption DEF TypeInv, TypeOK, PlaceInv
<1>2. /\ UNCHANGED <<setup, lvs, active, recorded, left, dev, target>>
      /\ pc' = label /\ stage'[target] = s
      /\ \A x \in Disks : x # target => stage'[x] = stage[x]
  BY <1>1 DEF Becomes, Goto
<1>i. DiskInv /\ AttemptInv /\ CleanInv
  BY DEF SilentInv
<1>3. DiskInv'
  BY <1>1, <1>2, <1>i DEF DiskInv
<1>4. AttemptInv'
  BY <1>2 DEF AttemptInv
<1>5. CleanInv'
  <2> SUFFICES ASSUME setup.vault, faults' = 0
               PROVE  /\ target = dev =>
                           /\ lvs[dev] = 0
                           /\ label # "disk"
                           /\ label \in {"isPv", "pvcreate"} => stage'[dev] = "luks"
                           /\ label = "lvcreate" => stage'[dev] = "vg"
                      /\ \A u \in Utilities : stage'[u] = "pv" => label = "vgcreate" /\ target = u
    BY <1>2 DEF CleanInv
  <2>1. faults = 0
    BY <1>1
  <2>2. target = dev => lvs[dev] = 0
    BY <1>i, <2>1 DEF CleanInv
  <2>3. ASSUME NEW u \in Utilities, stage'[u] = "pv" PROVE label = "vgcreate" /\ target = u
    <3>1. CASE u = target
      BY <1>2, <2>3, <3>1
    <3>2. CASE u # target
      <4>1. stage[u] = "pv"
        BY <1>2, <2>3, <3>2
      <4> QED
        BY <1>i, <2>1, <3>2, <4>1 DEF CleanInv
    <3> QED
      BY <3>1, <3>2
  <2> QED
    BY <1>2, <2>2, <2>3
<1>6. TraceInv' /\ EndInv'
  BY BecomesTrace
<1> QED
  BY <1>3, <1>4, <1>5, <1>6 DEF SilentInv

LEMMA LookSilent ==
  ASSUME TypeInv, OsdInv, SilentInv, Look, faults' \in {faults, faults + 1} PROVE SilentInv'
<1>1. PICK seen \in SUBSET Signs(dev) :
        /\ IF seen = Signs(dev) THEN UNCHANGED faults ELSE Fault
        /\ \/ Skips(dev, seen) /\ Goto("each") /\ dev' = None
           \/ Records(dev, seen) /\ Goto("record") /\ dev' = dev
           \/ /\ ~Skips(dev, seen) /\ ~Records(dev, seen)
              /\ \/ pc' = "disk" /\ target' = dev
                 \/ pc' \in {"create", "choose"} /\ setup.tool # "ceph-volume"
              /\ dev' = dev
  BY DEF Look, Goto
<1>2. /\ UNCHANGED <<setup, stage, lvs, active, recorded, left>>
      /\ pc = "look" /\ dev \in Devices /\ stage[dev] \in Stages
      /\ faults \in Nat
  BY OsdDevicesAssumption DEF Look, disks, TypeInv, TypeOK, PlaceInv
<1>3. faults' = 0 => faults = 0 /\ seen = Signs(dev)
  BY <1>1, <1>2 DEF Fault
<1>4. Traced => Traced'
  BY <1>2, TracedStays DEF TypeInv
<1>i. DiskInv /\ CleanInv /\ TraceInv /\ EndInv
  BY DEF SilentInv
<1>5. /\ \A d \in Devices : CutShort(d)' = CutShort(d)
      /\ \A d \in Devices : Passed(d) => Passed(d)'
  BY <1>2, <1>4 DEF Passed, CutShort, Shows, IsOsd
<1>6. DiskInv'
  BY <1>2, <1>i DEF DiskInv
<1>7. TraceInv'
  BY <1>2, <1>4, <1>5, <1>i DEF TraceInv
<1>8. CASE Skips(dev, seen) /\ Goto("each") /\ dev' = None
  <2>1. AttemptInv' /\ CleanInv'
    BY <1>2, <1>3, <1>8, <1>i DEF AttemptInv, CleanInv, Goto
  <2>2. ~setup.ignoreErrors => Passed(dev)
    <3> SUFFICES ASSUME ~setup.ignoreErrors PROVE Passed(dev)
      OBVIOUS
    <3>1. dev \in recorded => IsOsd(dev)
      BY DEF OsdInv, RecordedIsOsd
    <3>2. CASE dev \in recorded \/ "partitions" \in seen
      BY <3>1, <3>2 DEF Signs, Shows, IsOsd, Passed
    <3>3. CASE "mount" \in seen
      BY <3>3 DEF Signs, Shows, IsOsd, Passed
    <3>4. CASE "luks" \in seen
      <4>1. Shows(dev, "luks")
        BY <3>4 DEF Signs
      <4> QED
        BY <1>2, <1>i, <4>1 DEF Passed, TraceInv, CutShort
    <3>5. CASE stage[dev] = "absent"
      BY <3>5 DEF Passed
    <3> QED
      BY <1>8, <3>2, <3>3, <3>4, <3>5 DEF Skips, IsOsdDisk, IsMappedLuks
  <2>3. EndInv'
    BY <1>2, <1>5, <1>8, <1>i, <2>2 DEF EndInv, Goto
  <2> QED
    BY <1>6, <1>7, <2>1, <2>3 DEF SilentInv
<1>9. CASE Records(dev, seen) /\ Goto("record") /\ dev' = dev
  <2>1. AttemptInv' /\ CleanInv'
    BY <1>2, <1>3, <1>9, <1>i DEF AttemptInv, CleanInv, Goto
  <2>2. EndInv'
    BY <1>2, <1>5, <1>9, <1>i DEF EndInv, Goto
  <2> QED
    BY <1>6, <1>7, <2>1, <2>2 DEF SilentInv
<1>10. CASE /\ ~Skips(dev, seen) /\ ~Records(dev, seen)
            /\ \/ pc' = "disk" /\ target' = dev
               \/ pc' \in {"create", "choose"} /\ setup.tool # "ceph-volume"
            /\ dev' = dev
  <2>1. /\ "partitions" \notin seen /\ "mount" \notin seen
        /\ "luks" \notin seen /\ stage[dev] # "absent"
    BY <1>10 DEF Skips, Records, IsOsdDisk, IsActiveBluestore, IsMappedLuks
  <2>2. faults' = 0 => stage[dev] \notin {"gpt", "mounted", "foreign"} /\ ~Shows(dev, "luks")
    BY <1>3, <2>1 DEF Signs, Shows
  <2>3. AttemptInv'
    BY <1>2, <1>10, <2>2 DEF AttemptInv, Shows
  <2>4. setup.vault /\ faults' = 0 => stage[dev] = "raw"
    BY <1>2, <2>1, <2>2 DEF Shows, Stages
  <2>5. CleanInv'
    BY <1>2, <1>3, <1>10, <1>i, <2>4 DEF CleanInv, DiskInv
  <2>6. EndInv'
    BY <1>2, <1>5, <1>10, <1>i DEF EndInv
  <2> QED
    BY <1>6, <1>7, <2>3, <2>5, <2>6 DEF SilentInv
<1> QED
  BY <1>1, <1>8, <1>9, <1>10

\* Where a preparation raises of itself the device is not one of those that
\* are passed over later, or the utility device is full.
LEMMA DiskRaiseSilent ==
  ASSUME TypeInv, SilentInv, pc = "disk", stage[target] \notin {"raw", "gpt"}, setup.vault,
         Raise, IF Shows(target, "luks") THEN Fault ELSE UNCHANGED faults
  PROVE  SilentInv'
<1>1. target \in {dev} \union Utilities /\ faults \in Nat
  BY OsdDevicesAssumption DEF TypeInv, TypeOK, PlaceInv
<1>2. faults' \in {faults, faults + 1}
  BY DEF Fault
<1>3. CutShort(dev) => Traced'
  <2>1. CASE Shows(target, "luks")
    BY <1>1, <2>1 DEF Fault, Traced
  <2>2. CASE ~Shows(target, "luks")
    <3>1. target \notin Utilities
      BY <2>2 DEF SilentInv, DiskInv, Shows
    <3> QED
      BY <1>1, <2>2, <3>1 DEF CutShort
  <2> QED
    BY <2>1, <2>2
<1> QED
  BY <1>2, <1>3, RaiseSilent

LEMMA PvRaiseSilent ==
  ASSUME TypeInv, SilentInv, pc = "pvcreate", stage[target] \notin {"raw", "luks", "pv"},
         Raise, UNCHANGED faults
  PROVE  SilentInv'
<1>1. target \in {dev} \union Utilities /\ faults \in Nat
  BY OsdDevicesAssumption DEF TypeInv, TypeOK, PlaceInv
<1>2. faults = 0 => target \notin Utilities
  BY DEF SilentInv, DiskInv, AttemptInv
<1>3. CutShort(dev) => Traced
  <2>1. CASE faults > 0
    BY <2>1 DEF Traced
  <2>2. CASE faults = 0
    BY <1>1, <1>2, <2>2 DEF SilentInv, CleanInv, CutShort, Shows
  <2> QED
    BY <1>1, <2>1, <2>2
<1>4. Traced => Traced'
  BY DEF Traced, HasRoom, Raise, disks
<1> QED
  BY <1>3, <1>4, RaiseSilent

LEMMA LvRaiseSilent ==
  ASSUME TypeInv, SilentInv, pc = "lvcreate", ~(stage[target] = "vg" /\ HasRoom(target)),
         Raise, UNCHANGED faults
  PROVE  SilentInv'
<1>1. /\ target \in {dev} \union Utilities /\ faults \in Nat
      /\ dev \in Devices
  BY OsdDevicesAssumption DEF TypeInv, TypeOK, PlaceInv
<1>2. CutShort(dev) => Traced
  <2>1. CASE faults > 0
    BY <2>1 DEF Traced
  <2>2. CASE faults = 0
    <3> SUFFICES ASSUME setup.vault PROVE Traced
      BY DEF CutShort, Shows
    <3>1. target # dev
      BY <1>1, <2>2 DEF SilentInv, CleanInv, HasRoom
    <3>2. stage[target] = "vg"
      BY <1>1, <2>2, <3>1 DEF SilentInv, CleanInv, AttemptInv
    <3> QED
      BY <1>1, <3>1, <3>2 DEF Traced
  <2> QED
    BY <1>1, <2>1, <2>2
<1>3. Traced => Traced'
  BY DEF Traced, HasRoom, Raise, disks
<1> QED
  BY <1>2, <1>3, RaiseSilent

LEMMA ChooseUtilitySilent ==
  ASSUME TypeInv, SilentInv, ChooseUtility, faults' \in {faults, faults + 1} PROVE SilentInv'
<1>1. /\ UNCHANGED <<setup, stage, lvs, active, recorded, left, dev>>
      /\ pc = "choose" /\ target' \in Utilities
      /\ pc' = IF setup.tool = "ceph-volume" THEN "disk" ELSE "create"
  BY DEF ChooseUtility, Goto, disks
<1>2. /\ dev \in Devices /\ target' # dev /\ faults \in Nat
      /\ setup.tool \in {"ceph-volume", "ceph-disk"}
  BY <1>1, OsdDevicesAssumption, ToolType DEF TypeInv, TypeOK, PlaceInv
<1>3. Traced => Traced'
  BY <1>1, TracedStays DEF TypeInv
<1>4. faults' = 0 => faults = 0
  BY <1>2
<1>5. DiskInv' /\ CleanInv'
  BY <1>1, <1>2, <1>4 DEF SilentInv, DiskInv, CleanInv
<1>6. AttemptInv'
  BY <1>1, <1>2, <1>4 DEF SilentInv, AttemptInv, Shows
<1>7. \A d \in Devices : CutShort(d)' = CutShort(d) /\ (Passed(d) => Passed(d)')
  BY <1>1, <1>3 DEF Passed, CutShort, Shows, IsOsd
<1>8. TraceInv' /\ EndInv'
  BY <1>1, <1>3, <1>7 DEF SilentInv, TraceInv, EndInv
<1> QED
  BY <1>5, <1>6, <1>8 DEF SilentInv

LEMMA CreateLvSilent == TypeInv /\ SilentInv /\ CreateLv => SilentInv'
<1> SUFFICES ASSUME TypeInv, SilentInv, CreateLv PROVE SilentInv'
  OBVIOUS
<1>1. CASE stage[target] = "vg" /\ HasRoom(target)
  <2>1. /\ pc = "lvcreate"
        /\ lvs' = [lvs EXCEPT ![target] = @ + 1]
        /\ UNCHANGED <<setup, stage, active, recorded, left, dev, target, faults>>
        /\ pc' \in {"choose", "create"}
    BY <1>1 DEF CreateLv, Goto
  <2>2. /\ target \in {dev} \union Utilities /\ dev \in Devices /\ dev \notin Utilities
        /\ setup.tool = "ceph-volume" /\ lvs \in [Disks -> Nat]
    BY <2>1, OsdDevicesAssumption DEF TypeInv, TypeOK, PlaceInv
  <2>3. Traced => Traced'
    BY <2>1, <2>2, TracedStays DEF TypeInv
  <2>4. DiskInv'
    BY <1>1, <2>1, <2>2 DEF SilentInv, DiskInv
  <2>5. AttemptInv'
    BY <2>1, <2>2 DEF AttemptInv
  <2>6. CleanInv'
    BY <2>1, <2>2 DEF SilentInv, CleanInv
  <2>7. \A d \in Devices : CutShort(d)' = CutShort(d) /\ (Passed(d) => Passed(d)')
    BY <2>1, <2>3 DEF Passed, CutShort, Shows, IsOsd
  <2>8. TraceInv' /\ EndInv'
    BY <2>1, <2>3, <2>7 DEF SilentInv, TraceInv, EndInv
  <2> QED
    BY <2>4, <2>5, <2>6, <2>8 DEF SilentInv
<1>2. CASE ~(stage[target] = "vg" /\ HasRoom(target))
  BY <1>2, LvRaiseSilent DEF CreateLv
<1> QED
  BY <1>1, <1>2

\* An OSD is made of the device, and nothing else changes.
LEMMA CreatedSilent ==
  ASSUME TypeInv, SilentInv, pc = "create", CanCreate, Created, UNCHANGED setup,
         faults' \in {faults, faults + 1}
  PROVE  /\ DiskInv'
         /\ \A u \in Utilities : stage'[u] = stage[u]
         /\ \A d \in Devices : d # dev => CutShort(d)' = CutShort(d) /\ (Passed(d) => Passed(d)')
         /\ Traced => Traced'
         /\ \A d : d = dev => ~CutShort(d)'
<1>1. /\ dev \in Devices /\ dev \notin Utilities
      /\ stage \in [Disks -> Stages] /\ lvs \in [Disks -> Nat]
      /\ setup.tool \in {"ceph-volume", "ceph-disk"}
      /\ setup.tool = "ceph-disk" => target \in Utilities \union {None}
  BY OsdDevicesAssumption, ToolType DEF TypeInv, TypeOK, PlaceInv
<1>2. CASE setup.tool = "ceph-volume"
  <2>1. UNCHANGED <<stage, lvs>> /\ active' = active \union {dev}
    BY <1>2 DEF Created
  <2>2. Traced => Traced'
    BY <2>1, TracedStays DEF TypeInv
  <2>3. DiskInv' /\ \A u \in Utilities : stage'[u] = stage[u]
    BY <2>1 DEF SilentInv, DiskInv
  <2>4. \A d \in Devices : d # dev => CutShort(d)' = CutShort(d) /\ (Passed(d) => Passed(d)')
    BY <2>1, <2>2 DEF Passed, CutShort, Shows, IsOsd
  <2>5. stage[dev] = "vg"
    BY <1>2 DEF TypeInv, PlaceInv, Begun
  <2>6. \A d : d = dev => ~CutShort(d)'
    BY <2>1, <2>5 DEF CutShort, IsOsd
  <2> QED
    BY <2>2, <2>3, <2>4, <2>6
<1>3. CASE setup.tool = "ceph-disk"
  <2>1. /\ stage[dev] = "raw" /\ stage'[dev] = "gpt"
        /\ \A x \in Disks : x # dev => stage'[x] = stage[x]
        /\ lvs' = lvs \/ (target \in Utilities /\ lvs' = [lvs EXCEPT ![target] = @ + 1])
        /\ active' = active
    BY <1>1, <1>3 DEF Created, CanCreate
  <2>2. Traced => Traced'
    BY <1>1, <2>1, TracedStays DEF TypeInv
  <2>3. DiskInv'
    BY <1>1, <2>1, OsdDevicesAssumption DEF SilentInv, DiskInv
  <2>4. \A u \in Utilities : stage'[u] = stage[u]
    BY <1>1, <2>1
  <2>5. \A d \in Devices : d # dev => CutShort(d)' = CutShort(d) /\ (Passed(d) => Passed(d)')
    BY <2>1, <2>2 DEF Passed, CutShort, Shows, IsOsd
  <2>6. \A d : d = dev => ~CutShort(d)'
    BY <2>1 DEF CutShort, IsOsd
  <2> QED
    BY <2>2, <2>3, <2>4, <2>5, <2>6
<1> QED
  BY <1>1, <1>2, <1>3

LEMMA CreateFailsSilent == TypeInv /\ SilentInv /\ CreateFails => SilentInv'
<1> SUFFICES ASSUME TypeInv, SilentInv, CreateFails PROVE SilentInv'
  OBVIOUS
<1>1. /\ pc = "create" /\ UNCHANGED setup
      /\ IF CanCreate THEN Fault ELSE UNCHANGED faults
      /\ UNCHANGED disks \/ (CanCreate /\ Created)
      /\ pc' = "failed" \/ (setup.ignoreErrors /\ pc' = "record")
  BY DEF CreateFails, Goto
<1>2. dev \in Devices /\ faults \in Nat /\ setup.tool \in {"ceph-volume", "ceph-disk"}
  BY <1>1, OsdDevicesAssumption, ToolType DEF TypeInv, TypeOK, PlaceInv
<1>3. faults' \in {faults, faults + 1} /\ (faults' = 0 => ~CanCreate /\ faults = 0)
      /\ (CanCreate => Traced')
  BY <1>1, <1>2 DEF Fault, Traced
<1>4. AttemptInv' /\ EndInv'
  BY <1>1 DEF AttemptInv, EndInv
<1>5. CASE UNCHANGED disks
  <2>1. UNCHANGED <<stage, lvs, active>>
    BY <1>5 DEF disks
  <2>2. Traced => Traced'
    BY <1>3, <2>1, TracedStays DEF TypeInv
  <2>3. DiskInv' /\ CleanInv'
    BY <1>1, <1>3, <2>1 DEF SilentInv, DiskInv, CleanInv
  <2>4. \A d \in Devices : CutShort(d)' = CutShort(d)
    BY <1>1, <2>1 DEF CutShort, Shows, IsOsd
  <2>5. CutShort(dev) => Traced'
    <3>1. CASE faults = 0
      BY <1>1, <1>2, <1>3, <3>1 DEF CanCreate, SilentInv, AttemptInv, CutShort
    <3>2. CASE faults > 0
      BY <2>2, <3>2 DEF Traced
    <3> QED
      BY <1>2, <3>1, <3>2
  <2>6. TraceInv'
    BY <2>2, <2>4, <2>5 DEF SilentInv, TraceInv
  <2> QED
    BY <1>4, <2>3, <2>6 DEF SilentInv
<1>6. CASE CanCreate /\ Created
  <2>1. DiskInv'
    BY <1>1, <1>3, <1>6, CreatedSilent
  <2>2. CleanInv' /\ TraceInv'
    BY <1>3, <1>6 DEF CleanInv, TraceInv
  <2> QED
    BY <1>4, <2>1, <2>2 DEF SilentInv
<1> QED
  BY <1>1, <1>5, <1>6

LEMMA NextSilent == TypeInv /\ OsdInv /\ SilentInv /\ [Next]_vars => SilentInv'
<1> SUFFICES ASSUME TypeInv, OsdInv, SilentInv, [Next]_vars PROVE SilentInv'
  OBVIOUS
<1>i. DiskInv /\ AttemptInv /\ CleanInv /\ TraceInv /\ EndInv
  BY DEF SilentInv
<1>1. CASE Begin \/ End \/ \E d \in Devices : NextDevice(d)
  <2>1. /\ UNCHANGED <<setup, stage, lvs, active, faults>>
        /\ pc \notin Attempt /\ pc' \in {"each", "ended", "look"}
        /\ pc # "vgcreate"
    BY <1>1 DEF Begin, End, NextDevice, Goto, disks
  <2>2. DiskInv' /\ AttemptInv' /\ CleanInv'
    BY <1>i, <2>1 DEF DiskInv, AttemptInv, CleanInv
  <2>3. /\ \A d \in Devices : CutShort(d)' = CutShort(d) /\ Passed(d)' = Passed(d)
        /\ Traced' = Traced
    BY <2>1 DEF Passed, CutShort, Shows, IsOsd, Traced, HasRoom
  <2>4. TraceInv'
    BY <1>i, <2>1, <2>3 DEF TraceInv
  <2>5. EndInv'
    <3>1. CASE Begin
      BY <3>1 DEF Begin, EndInv
    <3>2. CASE End
      BY <2>1, <3>2 DEF End, EndInv, Goto
    <3>3. ASSUME NEW d \in Devices, NextDevice(d) PROVE EndInv'
      BY <1>i, <2>1, <2>3, <3>3 DEF NextDevice, EndInv, Goto
    <3> QED
      BY <1>1, <3>1, <3>2, <3>3
  <2> QED
    BY <2>2, <2>4, <2>5 DEF SilentInv
<1>2. CASE Look
  BY <1>2, LookSilent, FaultsGrow DEF TypeInv
<1>p. /\ faults' \in {faults, faults + 1} /\ faults \in Nat
      /\ pc \in Allocating => target \in {dev} \union Utilities
      /\ pc = "vgcreate" => stage[target] = "pv"
  BY FaultsGrow DEF TypeInv, PlaceInv
<1>3. CASE InitializeDisk
  <2>1. CASE Becomes(stage[target], "isPv") /\ (setup.vault => Shows(target, "luks"))
    <3>1. setup.vault /\ faults' = 0 =>
            /\ target = dev => FALSE
            /\ target \in Utilities => stage[target] # "pv"
      BY <1>3, <1>i, <1>p, <2>1 DEF InitializeDisk, CleanInv, Shows
    <3> QED
      BY <1>3, <1>p, <2>1, <3>1, BecomesSilent DEF InitializeDisk
  <2>2. CASE stage[target] \in {"raw", "gpt"} /\ Becomes("luks", "isPv")
    BY <1>3, <1>p, <2>2, BecomesSilent DEF InitializeDisk
  <2>3. CASE /\ setup.vault /\ stage[target] \notin {"raw", "gpt"} /\ Raise
             /\ IF Shows(target, "luks") THEN Fault ELSE UNCHANGED faults
    BY <1>3, <2>3, DiskRaiseSilent DEF InitializeDisk
  <2> QED
    BY <1>3, <2>1, <2>2, <2>3 DEF InitializeDisk
<1>12. CASE AllocateVolume
  <2>1. PICK label \in {"lvcreate", "pvcreate"} :
          /\ Becomes(stage[target], label) /\ pc = "isPv"
          /\ label = "lvcreate" => stage[target] \in {"pv", "vg"}
          /\ label = "pvcreate" /\ faults' = 0 => stage[target] \notin {"pv", "vg"}
    BY <1>12, <1>p DEF AllocateVolume, Fault
  <2>2. setup.vault /\ faults' = 0 =>
          /\ target = dev => stage[target] = "luks"
          /\ target \in Utilities => stage[target] # "pv"
    BY <1>i, <1>p, <2>1 DEF CleanInv
  <2> QED
    BY <1>p, <2>1, <2>2, BecomesSilent
<1>13. CASE CreateVg
  BY <1>13, <1>p, BecomesSilent DEF CreateVg
<1>4. CASE CreatePv
  <2>1. CASE stage[target] \in {"raw", "luks", "pv"}
    BY <1>4, <1>p, <2>1, BecomesSilent DEF CreatePv
  <2>2. CASE stage[target] \notin {"raw", "luks", "pv"}
    BY <1>4, <2>2, PvRaiseSilent DEF CreatePv
  <2> QED
    BY <2>1, <2>2
<1>14. CASE ChooseUtility
  BY <1>14, <1>p, ChooseUtilitySilent
<1>5. CASE CreateLv
  BY <1>5, CreateLvSilent
<1>6. CASE Create
  <2>1. /\ pc = "create" /\ CanCreate /\ Created /\ pc' = "record"
        /\ UNCHANGED <<setup, recorded, left, dev, target, faults>>
    BY <1>6 DEF Create, Goto
  <2>2. /\ DiskInv'
        /\ \A u \in Utilities : stage'[u] = stage[u]
        /\ \A d \in Devices : d # dev => CutShort(d)' = CutShort(d) /\ (Passed(d) => Passed(d)')
        /\ Traced => Traced'
        /\ \A d : d = dev => ~CutShort(d)'
    BY <2>1, CreatedSilent
  <2>3. AttemptInv' /\ CleanInv'
    BY <1>i, <2>1, <2>2 DEF AttemptInv, CleanInv
  <2>4. TraceInv'
    BY <1>i, <2>1, <2>2 DEF TraceInv
  <2>5. EndInv'
    BY <1>i, <2>1, <2>2 DEF EndInv
  <2> QED
    BY <2>2, <2>3, <2>4, <2>5 DEF SilentInv
<1>7. CASE CreateFails
  BY <1>7, CreateFailsSilent
<1>8. CASE Record
  <2>1. /\ pc = "record" /\ pc' = "each"
        /\ UNCHANGED <<setup, stage, lvs, active, left, faults>>
    BY <1>8 DEF Record, Goto, disks
  <2>2. DiskInv' /\ AttemptInv' /\ CleanInv'
    BY <1>i, <2>1 DEF DiskInv, AttemptInv, CleanInv
  <2>3. /\ \A d \in Devices : CutShort(d)' = CutShort(d) /\ Passed(d)' = Passed(d)
        /\ Traced' = Traced
    BY <2>1 DEF Passed, CutShort, Shows, IsOsd, Traced, HasRoom
  <2>4. TraceInv'
    BY <1>i, <2>1, <2>3 DEF TraceInv
  <2>5. ~setup.ignoreErrors => Passed(dev)
    BY <2>1 DEF OsdInv, RecordInv, Passed
  <2>6. EndInv'
    BY <1>i, <2>1, <2>3, <2>5 DEF EndInv
  <2> QED
    BY <2>2, <2>4, <2>6 DEF SilentInv
<1>9. CASE Abort
  <2>1. Raise /\ faults' = faults + 1 /\ faults \in Nat
    BY <1>9, OsdDevicesAssumption DEF Abort, Fault, TypeInv, TypeOK
  <2>2. Traced' /\ faults' # faults
    BY <2>1 DEF Traced
  <2> QED
    BY <2>1, <2>2, RaiseSilent
<1>10. ASSUME NEW d \in Devices, Mount(d) \/ Attach(d) PROVE SilentInv'
  <2>1. /\ UNCHANGED <<setup, lvs, active, recorded, pc, left, dev, target, faults>>
        /\ \/ stage[d] = "gpt" /\ stage'[d] = "mounted"
           \/ stage[d] = "absent" /\ stage'[d] = "raw" /\ pc \in AtRest
        /\ \A x \in Disks : x # d => stage'[x] = stage[x]
    <3>1. d \in Disks /\ stage \in [Disks -> Stages]
      BY DEF TypeInv, TypeOK
    <3>2. CASE Mount(d)
      BY <3>1, <3>2 DEF Mount
    <3>3. CASE Attach(d)
      BY <3>1, <3>3 DEF Attach
    <3> QED
      BY <1>10, <3>2, <3>3
  <2>2. /\ d \notin Utilities
        /\ pc \in Allocating => target \in {dev} \union Utilities /\ dev \in Devices
    BY OsdDevicesAssumption DEF TypeInv, PlaceInv
  <2>3. DiskInv'
    BY <1>i, <2>1, <2>2 DEF DiskInv
  <2>4. AttemptInv'
    <3>1. Shows(dev, "luks")' => Shows(dev, "luks") \/ dev \notin Devices
      BY <2>1 DEF Shows
    <3>2. pc \in Attempt => dev \in Devices
      BY DEF TypeInv, PlaceInv
    <3> QED
      BY <1>i, <2>1, <2>2, <3>1, <3>2 DEF AttemptInv
  <2>5. CleanInv'
    BY <1>i, <2>1, <2>2 DEF CleanInv
  <2>6. Traced' = Traced
    BY <2>1 DEF Traced, HasRoom
  <2>7. \A x \in Devices : (CutShort(x)' => CutShort(x)) /\ (pc \notin AtRest /\ Passed(x) => Passed(x)')
    BY <2>1, <2>6 DEF Passed, CutShort, Shows, IsOsd
  <2>8. TraceInv'
    BY <1>i, <2>1, <2>6, <2>7 DEF TraceInv
  <2>9. EndInv'
    BY <1>i, <2>1, <2>7 DEF EndInv
  <2> QED
    BY <2>3, <2>4, <2>5, <2>8, <2>9 DEF SilentInv
<1>11. CASE UNCHANGED vars
  <2>1. UNCHANGED <<setup, stage, lvs, active, recorded, pc, left, dev, target, faults>>
    BY <1>11 DEF vars
  <2>2. DiskInv' /\ AttemptInv' /\ CleanInv'
    BY <1>i, <2>1 DEF DiskInv, AttemptInv, CleanInv, Shows
  <2>3. /\ \A d \in Devices : CutShort(d)' = CutShort(d) /\ Passed(d)' = Passed(d)
        /\ Traced' = Traced
    BY <2>1 DEF Passed, CutShort, Shows, IsOsd, Traced, HasRoom
  <2>4. TraceInv' /\ EndInv'
    BY <1>i, <2>1, <2>3 DEF TraceInv, EndInv
  <2> QED
    BY <2>2, <2>4 DEF SilentInv
<1> QED
  BY <1>1, <1>2, <1>3, <1>4, <1>5, <1>6, <1>7, <1>8, <1>9, <1>10, <1>11,
     <1>12, <1>13, <1>14 DEF Next

\* However often hooks are cut short and run again: a hook that ends well leaves
\* no device of its configuration without an OSD, except what is missing or
\* somebody else's, and disks of vaultlocker's whose preparation a fault or a
\* full utility device has cut short.  Nothing else is passed over in silence.
THEOREM EndedHooksPrepared == Spec => EndedMeansPrepared
<1>1. TypeInv /\ SilentInv /\ [Next]_vars =>
        [End /\ ~setup.ignoreErrors =>
           \A d \in Devices :
             \/ IsOsd(d)
             \/ stage[d] \in {"absent", "foreign"}
             \/ CutShort(d) /\ (faults > 0 \/ \E u \in Utilities : ~HasRoom(u))]_vars
  <2>1. ASSUME SilentInv, End, ~setup.ignoreErrors, NEW d \in Devices
        PROVE  Passed(d)
    BY <2>1 DEF SilentInv, EndInv, End
  <2> QED
    BY <2>1 DEF Passed, Traced
<1>2. Spec => [](TypeInv /\ OsdInv /\ SilentInv)
  <2>1. Init => TypeInv /\ OsdInv /\ SilentInv
    BY InitType, InitOsd, InitSilent
  <2>2. TypeInv /\ OsdInv /\ SilentInv /\ [Next]_vars => (TypeInv /\ OsdInv /\ SilentInv)'
    BY NextType, NextOsd, NextSilent
  <2> QED
    BY <2>1, <2>2, PTL DEF Spec
<1> QED
  BY <1>1, <1>2, PTL DEF Spec, EndedMeansPrepared
=============================================================================
