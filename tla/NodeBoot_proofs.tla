---------------------------- MODULE NodeBoot_proofs ----------------------------
(***************************************************************************)
(* Proofs about NodeBoot, for every number of images, boots and attempts.  *)
(***************************************************************************)
EXTENDS NodeBootInv, TLAPS

\* The type invariant is inductive once an armed counter has a fallback.
TypeInv == TypeOK /\ (counter # Unset => fallback # 0)

\* The machine comes up from two entries of the boot order and a counter that
\* may only be armed beside a fallback.
LEMMA PowerOnTypes ==
    ASSUME HostTypeOK, NEW image \in Images, NEW other \in 0 .. MaxImages,
           NEW count \in Unset .. MaxAttempts, count # Unset => other # 0,
           PowerOn(image, other, count)
    PROVE  HostTypeOK' /\ (counter # Unset => fallback # 0)'
<1>1. boot' \in Boots
  BY HostAssumption DEF PowerOn, HostTypeOK, Boots
<1>2. staged' \in 0 .. MaxImages /\ newest' \in Images
      /\ verdict' \in {"pending", "green", "red"}
  BY HostAssumption DEF PowerOn, HostTypeOK, Images
<1>3. CASE count = 0
  <2>1. other \in Images /\ image \in 0 .. MaxImages /\ image # 0
    BY <1>3 DEF Images, Unset
  <2>2. booted' = other /\ fallback' = image /\ counter' = Unset
    BY <1>3 DEF PowerOn
  <2>3. Unset \in Unset .. MaxAttempts
    BY HostAssumption DEF Unset
  <2> QED BY <1>1, <1>2, <2>1, <2>2, <2>3 DEF HostTypeOK
<1>4. CASE count # 0
  <2>1. booted' = image /\ fallback' = other
    BY <1>4 DEF PowerOn
  <2>2. counter' = IF count = Unset THEN Unset ELSE count - 1
    BY <1>4 DEF PowerOn
  <2>3. counter' \in Unset .. MaxAttempts /\ (counter' # Unset => count # Unset)
    BY <1>4, <2>2, HostAssumption DEF Unset
  <2> QED BY <1>1, <1>2, <2>1, <2>3 DEF HostTypeOK
<1> QED BY <1>3, <1>4

LEMMA HostTypes ==
    ASSUME TypeInv, Stage \/ Reboot \/ PowerCut \/ HostGreen \/ HostRed
    PROVE  HostTypeOK' /\ (counter # Unset => fallback # 0)'
<1>0. HostTypeOK /\ (counter # Unset => fallback # 0)
  BY DEF TypeInv, TypeOK
<1>1. CASE Stage
  BY <1>0, <1>1, HostAssumption DEF Stage, HostTypeOK, Images
<1>2. CASE Reboot
  <2>1. CASE staged # 0
    <3>1. staged \in Images /\ booted \in 0 .. MaxImages /\ booted # 0
      BY <1>0, <2>1 DEF HostTypeOK, Images
    <3>2. MaxAttempts \in Unset .. MaxAttempts
      BY HostAssumption DEF Unset
    <3>3. PowerOn(staged, booted, MaxAttempts)
      BY <1>2, <2>1 DEF Reboot
    <3> QED BY <1>0, <3>1, <3>2, <3>3, PowerOnTypes
  <2>2. CASE staged = 0
    <3>1. PowerOn(booted, fallback, counter)
      BY <1>2, <2>2 DEF Reboot
    <3> QED BY <1>0, <3>1, PowerOnTypes DEF HostTypeOK
  <2> QED BY <2>1, <2>2
<1>3. CASE PowerCut
  BY <1>0, <1>3, PowerOnTypes DEF PowerCut, HostTypeOK
<1>4. CASE HostGreen
  BY <1>0, <1>4, HostAssumption DEF HostGreen, HostTypeOK, Unset
<1>5. CASE HostRed
  BY <1>0, <1>5 DEF HostRed, HostTypeOK
<1> QED BY <1>1, <1>2, <1>3, <1>4, <1>5

LEMMA NoLastBootType == NoLastBoot \in LastBoots
  BY HostAssumption DEF NoLastBoot, LastBoots, BootIds

\* What a boot of the machine does to the two copies of /etc.
LEMMA EtcTypes ==
    ASSUME TypeInv, EtcCopied \/ EtcFollows
    PROVE  /\ live' \in [Trees -> SUBSET BootIds]
           /\ torn' \subseteq Trees
           /\ etcAside' \in [data : SUBSET BootIds, torn : BOOLEAN]
           /\ \A t \in Trees : live'[t] = live[t] \/ live'[t] = etcAside.data
           /\ etcAside'.data \in {live["kubernetes"], etcAside.data}
<1> USE DEF TypeInv, TypeOK
<1>0. "kubernetes" \in Trees
  BY DEF Trees
<1>1. /\ ThisEtc \in [data : SUBSET BootIds, torn : BOOLEAN]
      /\ ThisEtc.data = live["kubernetes"]
  BY <1>0 DEF ThisEtc
<1>2. CASE UNCHANGED <<live, torn>> /\ (etcAside' = ThisEtc \/ etcAside' = etcAside)
  BY <1>1, <1>2
<1>3. CASE /\ live' = [live EXCEPT !["kubernetes"] = etcAside.data]
           /\ torn' \subseteq torn \cup {"kubernetes"}
           /\ etcAside' = ThisEtc
  <2>1. etcAside.data \in SUBSET BootIds
    OBVIOUS
  <2>2. live' \in [Trees -> SUBSET BootIds]
    BY <1>3, <2>1
  <2>3. \A t \in Trees : live'[t] = live[t] \/ live'[t] = etcAside.data
    BY <1>3
  <2> QED BY <1>0, <1>1, <1>3, <2>2, <2>3
<1> HIDE DEF TypeInv, TypeOK
<1> QED BY <1>2, <1>3 DEF EtcCopied, EtcFollows

\* What Ensure writes, whether or not it reaches its end.
LEMMA WrittenType ==
    ASSUME TypeInv, NEW trees
    PROVE  Written(trees) \in [Trees -> SUBSET BootIds]
<1>1. boot \in BootIds /\ live \in [Trees -> SUBSET BootIds]
  BY DEF TypeInv, TypeOK, HostTypeOK, BootIds, Boots
<1> QED BY <1>1 DEF Written

\* What a removal that stopped half-way leaves under the backup's name.
LEMMA RemainsType ==
    ASSUME NEW b \in BackupRecords, NEW lost, NEW metaLost, NEW m \in 1 .. MaxTime
    PROVE  Remains(b, lost, metaLost, m) \in BackupRecords
<1>1. /\ b.dep \in Images /\ b.boot \in Boots /\ b.meta \in LastBoots
      /\ b.data \in [Trees -> SUBSET BootIds]
  BY DEF BackupRecords
<1>2. [t \in Trees |-> IF t \in lost THEN {} ELSE b.data[t]] \in [Trees -> SUBSET BootIds]
  BY <1>1
<1>3. (IF metaLost THEN NoLastBoot ELSE b.meta) \in LastBoots
  BY <1>1, NoLastBootType
<1> QED BY <1>1, <1>2, <1>3 DEF Remains, BackupRecords

LEMMA TypeStep == TypeInv /\ [Next]_vars => TypeInv'
<1> SUFFICES ASSUME TypeInv, [Next]_vars PROVE TypeInv'
  OBVIOUS
<1> USE NodeAssumption, HostAssumption, NoLastBootType
    DEF TypeInv, TypeOK, vars, hostVars, diskVars, localVars, historyVars,
        Goto, Fail, Halt, Steps, Ended
<1>detect. CASE Detect
  BY <1>detect DEF Detect, HostTypeOK
<1>early. CASE EarlyError
  BY <1>early DEF EarlyError, HostTypeOK, Trees
<1>noRequest. CASE NoRestoreRequested
  BY <1>noRequest DEF NoRestoreRequested, HostTypeOK
<1>noBackup. CASE NoBackupToRestore
  BY <1>noBackup DEF NoBackupToRestore, HostTypeOK
<1>begin. CASE BeginRestore
  BY <1>begin DEF BeginRestore, HostTypeOK, LatestForDeployment
<1>wipe. CASE WipeTree
  <2>1. target.data[tree] \in SUBSET BootIds
    BY DEF NoBackup, BackupRecords
  <2> QED
    BY <1>wipe, <2>1 DEF WipeTree, HostTypeOK
<1>swap. CASE SwapTree
  <2>1. target.data[tree] \in SUBSET BootIds
    BY DEF NoBackup, BackupRecords
  <2> QED
    BY <1>swap, <2>1 DEF SwapTree, HostTypeOK, TreeAfter, Trees
<1>meta. CASE RestoreMeta
  <2>1. target.meta \in LastBoots
    BY DEF NoBackup, BackupRecords
  <2> QED
    BY <1>meta, <2>1 DEF RestoreMeta, HostTypeOK, Trees
<1>restoreFails. CASE RestoreFails
  BY <1>restoreFails DEF RestoreFails, HostTypeOK, Trees
<1>clear. CASE ClearMarker
  BY <1>clear DEF ClearMarker, HostTypeOK
<1>read. CASE ReadLastBoot
  BY <1>read DEF ReadLastBoot, HostTypeOK
<1>skipped. CASE SnapshotSkipped
  BY <1>skipped DEF SnapshotSkipped, HostTypeOK
<1>taken. CASE SnapshotTaken
  <2>1. \A m \in 1 .. MaxTime : Snapshot(m) \in BackupRecords
    <3>1. prev.dep \in Images /\ prev.boot \in Boots
      BY <1>taken DEF SnapshotTaken, SnapshotDue, LastBoots, Images, Boots, BootIds
    <3> QED BY <3>1 DEF Snapshot, BackupRecords
  <2> QED
    BY <1>taken, <2>1 DEF SnapshotTaken, HostTypeOK
<1>snapshotFails. CASE SnapshotFails
  BY <1>snapshotFails DEF SnapshotFails, HostTypeOK, Trees
<1>ensure. CASE Ensure
  <2>1. live' \in [Trees -> SUBSET BootIds]
    BY <1>ensure, WrittenType DEF Ensure
  <2> QED
    BY <1>ensure, <2>1 DEF Ensure, HostTypeOK
<1>ensureFails. CASE EnsureFails
  <2>1. live' \in [Trees -> SUBSET BootIds]
    BY <1>ensureFails, WrittenType DEF EnsureFails
  <2> QED
    BY <1>ensureFails, <2>1 DEF EnsureFails, HostTypeOK, Trees
<1>start. CASE StartKubelet
  BY <1>start DEF StartKubelet, HostTypeOK
<1>readyz. CASE WaitReadyz
  BY <1>readyz DEF WaitReadyz, HostTypeOK
<1>rbac. CASE EnsureAdminRBAC
  BY <1>rbac DEF EnsureAdminRBAC, HostTypeOK
<1>controlPlane. CASE WaitControlPlane
  BY <1>controlPlane DEF WaitControlPlane, HostTypeOK
<1>mark. CASE MarkControlPlane
  BY <1>mark DEF MarkControlPlane, HostTypeOK
<1>phase. CASE PhaseFails
  BY <1>phase DEF PhaseFails, HostTypeOK, Trees
<1>addons. CASE EnsureAddons
  BY <1>addons DEF EnsureAddons, HostTypeOK
<1>pruneSkipped. CASE PruneSkipped
  BY <1>pruneSkipped DEF PruneSkipped, HostTypeOK
<1>pruneBegin. CASE PruneBegin
  BY <1>pruneBegin DEF PruneBegin, HostTypeOK
<1>partly. CASE PrunePartly
  <2>1. doomed \subseteq BackupRecords /\ backups \subseteq BackupRecords
    OBVIOUS
  <2>2. PICK b \in doomed, m \in 1 .. MaxTime, lost \in SUBSET Trees,
             metaLost \in BOOLEAN :
           /\ target' = Remains(b, lost, metaLost, m)
           /\ backups' = (backups \ {b}) \cup {target'}
           /\ doomed' = (doomed \ {b}) \cup {target'}
    BY <1>partly DEF PrunePartly
  <2>3. target' \in BackupRecords
    BY <2>1, <2>2, RemainsType
  <2>4. doomed' \subseteq BackupRecords /\ backups' \subseteq BackupRecords
    BY <2>1, <2>2, <2>3
  <2>5. UNCHANGED <<hostVars, live, torn, etcAside, lastBoot, marker, pc, prev,
                    tree, kubelet, historyVars>>
    BY <1>partly DEF PrunePartly
  <2> QED
    BY <2>3, <2>4, <2>5 DEF HostTypeOK
<1>one. CASE PruneOne
  BY <1>one DEF PruneOne, HostTypeOK
<1>ends. CASE PruneEnds
  BY <1>ends DEF PruneEnds, HostTypeOK
<1>record. CASE Record
  <2>1. ThisBoot \in LastBoots
    BY DEF ThisBoot, LastBoots, BootIds, Boots, Images, HostTypeOK
  <2> QED
    BY <1>record, <2>1 DEF Record, HostTypeOK
<1>recordFails. CASE RecordFails
  BY <1>recordFails DEF RecordFails, HostTypeOK, Trees
<1>announce. CASE Announce
  BY <1>announce DEF Announce, HostTypeOK, Trees
<1>etcd. CASE EtcdWrites
  BY <1>etcd DEF EtcdWrites, HostTypeOK, Trees, BootIds, Boots, Images
<1>killed. CASE ServiceKilled
  BY <1>killed DEF ServiceKilled, HostTypeOK, Trees
<1>restart. CASE RestartService
  BY <1>restart DEF RestartService, HostTypeOK
<1>green. CASE Green
  BY <1>green, HostTypes DEF Green
<1>red. CASE Red
  BY <1>red, HostTypes DEF Red, RequestRestore
<1>stage. CASE StageUpgrade
  BY <1>stage, HostTypes DEF StageUpgrade
<1>reboot. CASE CleanReboot
  BY <1>reboot, HostTypes, EtcTypes DEF CleanReboot, ComesUp, Trees
<1>power. CASE PowerLoss
  BY <1>power, HostTypes, EtcTypes DEF PowerLoss, ComesUp, Trees
<1>stutter. CASE UNCHANGED vars
  BY <1>stutter DEF HostTypeOK
<1> QED
  BY <1>detect, <1>early, <1>noRequest, <1>noBackup, <1>begin, <1>wipe, <1>swap,
     <1>meta, <1>restoreFails, <1>clear, <1>read, <1>skipped, <1>taken,
     <1>snapshotFails, <1>ensure, <1>ensureFails, <1>start, <1>readyz, <1>rbac,
     <1>controlPlane, <1>mark, <1>phase, <1>addons, <1>pruneSkipped, <1>pruneBegin,
     <1>partly, <1>one, <1>ends, <1>record, <1>recordFails, <1>announce, <1>etcd,
     <1>killed, <1>restart, <1>green, <1>red, <1>stage, <1>reboot, <1>power,
     <1>stutter
  DEF Next, BootStep, HostStep

LEMMA TypeInit == Init => TypeInv
<1> SUFFICES ASSUME Init PROVE TypeInv
  OBVIOUS
<1>1. HostTypeOK /\ (counter # Unset => fallback # 0)
  BY HostAssumption DEF Init, HostInit, HostTypeOK, Images, Boots, Unset
<1>2. live \in [Trees -> SUBSET BootIds] /\ wroteAs \in [Boots -> 0 .. MaxImages]
  BY HostAssumption DEF Init, BootIds
<1> QED
  BY <1>1, <1>2, NoLastBootType DEF Init, TypeInv, TypeOK, Trees, Steps

\* The node's state always has the shape the code gives it: in particular the
\* boot loader never falls back to a deployment that is not there.
THEOREM TypeCorrect == Spec => []TypeOK
<1>1. TypeInv => TypeOK
  BY DEF TypeInv
<1> QED BY <1>1, TypeInit, TypeStep, PTL DEF Spec

-----------------------------------------------------------------------------
(***************************************************************************)
(* The rollback guarantees.  AnchorInv falls into what it says of the disk *)
(* alone and what it says of the running Boot.                             *)
(***************************************************************************)
DiskInv ==
    /\ HostInv
    /\ PastOnly
    /\ MetaIsName
    /\ NamesUnique
    /\ NewestUnsaved
    /\ HonestRecords
    /\ SnapshotHoldsItsBoot
    /\ RollbackAnchor

FlowInv ==
    /\ LocalsFresh
    /\ AnchorIsNewest
    /\ Anchored

LEMMA Parts == AnchorInv => DiskInv /\ FlowInv
  BY DEF AnchorInv, DiskInv, FlowInv

LEMMA PartsNext == DiskInv' /\ LocalsFresh' /\ AnchorIsNewest' /\ Anchored' => AnchorInv'
  BY DEF AnchorInv, DiskInv

\* What a step may change without touching DiskInv.
LEMMA DiskKept ==
    ASSUME DiskInv,
           UNCHANGED <<boot, booted, fallback, staged, newest, live, etcAside, backups,
                       lastBoot, recorded>>,
           counter' \in {counter, Unset}
    PROVE  DiskInv'
<1> USE DEF DiskInv
<1>1. Known' = Known
  BY DEF Known
<1>2. HostInv'
  BY <1>1 DEF HostInv, Unset
<1>3. PastOnly' /\ MetaIsName' /\ NamesUnique' /\ HonestRecords'
  BY DEF PastOnly, MetaIsName, NamesUnique, HonestRecords, Name
<1>4. NewestUnsaved' /\ SnapshotHoldsItsBoot'
  BY <1>1 DEF NewestUnsaved, SnapshotHoldsItsBoot, Exists, Name
<1>5. RollbackAnchor'
  BY <1>1 DEF RollbackAnchor, WrittenSince, Exists, Name
<1> QED BY <1>2, <1>3, <1>4, <1>5

\* Steps that leave the disk, the host and the kubelet alone.
Quiet ==
    \/ Detect \/ EarlyError \/ NoRestoreRequested \/ NoBackupToRestore
    \/ BeginRestore \/ RestoreFails \/ ClearMarker \/ ReadLastBoot
    \/ SnapshotSkipped \/ SnapshotFails \/ WaitReadyz \/ EnsureAdminRBAC
    \/ WaitControlPlane \/ MarkControlPlane \/ PhaseFails \/ EnsureAddons
    \/ PruneSkipped \/ PruneBegin \/ PruneEnds \/ RecordFails \/ Announce
    \/ ServiceKilled \/ RestartService

LEMMA QuietStep ==
    ASSUME TypeInv, AnchorInv, Quiet
    PROVE  AnchorInv'
<1> USE DEF Goto, Fail, Halt
<1>1. UNCHANGED <<hostVars, live, torn, etcAside, backups, lastBoot, kubelet, historyVars>>
  BY DEF Quiet, Detect, EarlyError, NoRestoreRequested, NoBackupToRestore,
     BeginRestore, RestoreFails, ClearMarker, ReadLastBoot, SnapshotSkipped,
     SnapshotFails, WaitReadyz, EnsureAdminRBAC, WaitControlPlane, MarkControlPlane,
     PhaseFails, EnsureAddons, PruneSkipped, PruneBegin, PruneEnds, RecordFails,
     Announce, ServiceKilled, RestartService, diskVars
<1>2. DiskInv'
  BY <1>1, Parts, DiskKept DEF hostVars, historyVars
<1>3. /\ Known' = Known
      /\ LatestForDeployment(backups, booted)' = LatestForDeployment(backups, booted)
  BY <1>1 DEF hostVars, Known, LatestForDeployment, IsNewest
<1>4. CASE BeginRestore \/ ReadLastBoot \/ PruneBegin \/ SnapshotSkipped
  <2>1. LocalsFresh'
    BY <1>1, <1>3, <1>4, Parts
       DEF BeginRestore, ReadLastBoot, PruneBegin, SnapshotSkipped, FlowInv, LocalsFresh,
           diskVars
  <2>2. AnchorIsNewest'
    <3> SUFFICES ASSUME NEW b \in backups, Name(b) = lastBoot
                 PROVE  /\ IsNewest(b, backups)
                        /\ pc' = "pruning" /\ b \in doomed' => b.dep \notin Known
      BY <1>1, <1>3 DEF AnchorIsNewest, IsNewest, Name
    <3>1. IsNewest(b, backups)
      BY Parts DEF FlowInv, AnchorIsNewest
    <3> QED
      BY <1>4, <3>1 DEF BeginRestore, ReadLastBoot, PruneBegin, SnapshotSkipped, Survivors
  <2>3. Anchored'
    <3>1. CASE SnapshotSkipped
      <4>1. prev = lastBoot
        BY <3>1, Parts DEF SnapshotSkipped, FlowInv, LocalsFresh
      <4>2. \/ ~OSTree
            \/ lastBoot.dep \notin Known
            \/ lastBoot.boot = boot
            \/ Exists(backups, lastBoot)
        BY <3>1, <4>1, Parts DEF SnapshotSkipped, SnapshotDue, DiskInv, PastOnly, Known
      <4> QED
        BY <4>2, <1>1, <1>3 DEF Anchored, hostVars, Exists, Name
    <3>2. CASE ~SnapshotSkipped
      <4>1. pc' \notin {"ensure", "startKubelet"}
        BY <1>4, <3>2 DEF BeginRestore, ReadLastBoot, PruneBegin
      <4> QED
        BY <4>1, <1>1, <1>3, Parts DEF FlowInv, Anchored, hostVars, Exists, Name
    <3> QED BY <3>1, <3>2
  <2> QED BY <1>2, <2>1, <2>2, <2>3, PartsNext
<1>5. CASE ~(BeginRestore \/ ReadLastBoot \/ PruneBegin \/ SnapshotSkipped)
  <2>1. pc' \notin {"snapshot", "restore", "meta", "pruning", "ensure", "startKubelet"}
    BY <1>5 DEF Quiet, Detect, EarlyError, NoRestoreRequested, NoBackupToRestore,
     RestoreFails, ClearMarker, SnapshotFails, WaitReadyz, EnsureAdminRBAC,
     WaitControlPlane, MarkControlPlane, PhaseFails, EnsureAddons, PruneSkipped,
     PruneEnds, RecordFails, Announce, ServiceKilled, RestartService
  <2>2. LocalsFresh' /\ AnchorIsNewest' /\ Anchored'
    BY <2>1, <1>1, <1>3, Parts
       DEF FlowInv, LocalsFresh, AnchorIsNewest, Anchored, IsNewest, Name, Exists, hostVars
  <2> QED BY <1>2, <2>2, PartsNext
<1> QED BY <1>4, <1>5

-----------------------------------------------------------------------------
(***************************************************************************)
(* The steps that write to the live trees.                                 *)
(***************************************************************************)
\* FlowInv does not look at the live trees.
LEMMA FlowKept ==
    ASSUME AnchorInv,
           UNCHANGED <<boot, booted, fallback, staged, backups, lastBoot, target, doomed,
                       kubelet, prev>>,
           pc' = pc \/ pc' \notin {"snapshot", "restore", "meta", "pruning", "ensure"},
           pc' = "startKubelet" => pc \in {"ensure", "startKubelet"}
    PROVE  LocalsFresh' /\ AnchorIsNewest' /\ Anchored'
<1>1. Known' = Known
  BY DEF Known
<1>2. LocalsFresh' /\ AnchorIsNewest'
  BY <1>1, Parts
     DEF FlowInv, LocalsFresh, AnchorIsNewest, IsNewest, Name, LatestForDeployment
<1>3. Anchored'
  BY <1>1, Parts DEF FlowInv, Anchored, Exists, Name
<1> QED BY <1>2, <1>3

\* DiskInv survives a write to the live trees that stays within this boot and
\* keeps RollbackAnchor.
LEMMA LiveWritten ==
    ASSUME DiskInv,
           UNCHANGED <<hostVars, etcAside, backups, lastBoot, recorded>>,
           \A t \in Trees : \A x \in live'[t] : x <= boot,
           RollbackAnchor'
    PROVE  DiskInv'
<1> USE DEF DiskInv, hostVars
<1>1. Known' = Known
  BY DEF Known
<1>2. HostInv' /\ PastOnly'
  BY <1>1 DEF HostInv, PastOnly, Unset
<1>3. MetaIsName' /\ NamesUnique' /\ HonestRecords'
  BY DEF MetaIsName, NamesUnique, HonestRecords, Name
<1>4. NewestUnsaved' /\ SnapshotHoldsItsBoot'
  BY <1>1 DEF NewestUnsaved, SnapshotHoldsItsBoot, Exists, Name
<1> QED BY <1>2, <1>3, <1>4

\* This boot may write once the last healthy boot is safe.
LEMMA BootWrites ==
    ASSUME TypeInv, AnchorInv,
           kubelet \/ pc = "ensure",
           UNCHANGED <<hostVars, etcAside, backups, lastBoot, recorded>>,
           \A t \in Trees : live'[t] \subseteq live[t] \cup {boot}
    PROVE  DiskInv'
<1>1. \A t \in Trees : \A x \in live'[t] : x <= boot
  BY Parts DEF DiskInv, PastOnly, TypeInv, TypeOK, HostTypeOK, Boots
<1>2. RollbackAnchor'
  <2> SUFFICES ASSUME OSTree, lastBoot.dep \in Known, WrittenSince(lastBoot.boot)'
               PROVE  Exists(backups, lastBoot)
    BY DEF RollbackAnchor, hostVars, Known, Exists, Name
  <2>1. CASE lastBoot.boot = boot
    <3>1. /\ boot \in Int /\ etcAside.data \subseteq Int
          /\ \A t \in Trees : live'[t] \subseteq Int
      BY DEF TypeInv, TypeOK, HostTypeOK, Boots, BootIds
    <3>2. \A x \in etcAside.data : x <= boot
      BY Parts DEF DiskInv, PastOnly
    <3> QED BY <1>1, <2>1, <3>1, <3>2 DEF WrittenSince
  <2>2. CASE lastBoot.boot # boot
    BY <2>2, Parts DEF FlowInv, Anchored
  <2> QED BY <2>1, <2>2
<1> QED BY <1>1, <1>2, Parts, LiveWritten

LEMMA WriteStep ==
    ASSUME TypeInv, AnchorInv, Ensure \/ EnsureFails \/ EtcdWrites
    PROVE  AnchorInv'
<1>1. DiskInv'
  <2>1. CASE Ensure \/ EnsureFails
    <3>1. \A t \in Trees : live'[t] \subseteq live[t] \cup {boot}
      BY <2>1 DEF Ensure, EnsureFails, Written
    <3> QED
      BY <2>1, <3>1, BootWrites DEF Ensure, EnsureFails, Halt, historyVars
  <2>2. CASE EtcdWrites
    <3>1. \A t \in Trees : live'[t] \subseteq live[t] \cup {boot}
      BY <2>2 DEF EtcdWrites, TypeInv, TypeOK
    <3> QED
      BY <2>2, <3>1, BootWrites DEF EtcdWrites
  <2> QED BY <2>1, <2>2
<1>2. LocalsFresh' /\ AnchorIsNewest' /\ Anchored'
  <2>1. CASE Ensure
    BY <2>1, FlowKept DEF Ensure, hostVars, localVars
  <2>2. CASE EtcdWrites
    BY <2>2, FlowKept DEF EtcdWrites, hostVars, localVars
  <2>3. CASE EnsureFails
    <3>1. Known' = Known /\ pc' = "failed"
      BY <2>3 DEF EnsureFails, Halt, hostVars, Known
    <3> QED
      BY <2>3, <3>1, Parts
         DEF EnsureFails, hostVars, FlowInv, LocalsFresh, AnchorIsNewest, Anchored,
             IsNewest, Exists, Name
  <2> QED BY <2>1, <2>2, <2>3
<1> QED BY <1>1, <1>2, PartsNext

-----------------------------------------------------------------------------
(***************************************************************************)
(* The restore.                                                            *)
(***************************************************************************)
\* The backup a restore copies is of the booted deployment, and holds nothing
\* later than the boot it is named after.
LEMMA TargetHolds ==
    ASSUME TypeInv, AnchorInv, pc \in {"restore", "meta"}
    PROVE  /\ target \in backups
           /\ target.dep = booted
           /\ IsNewest(target, backups)
           /\ \A t \in Trees : \A x \in target.data[t] : x <= target.boot
<1>1. target \in LatestForDeployment(backups, booted)
  BY Parts DEF FlowInv, LocalsFresh
<1>2. target \in backups /\ target.dep = booted /\ IsNewest(target, backups)
  BY <1>1 DEF LatestForDeployment
<1>3. booted \in Known
  BY DEF Known, TypeInv, TypeOK, HostTypeOK, Images
<1> QED BY <1>2, <1>3, Parts DEF DiskInv, SnapshotHoldsItsBoot

\* A restore brings back what is older than the last healthy boot, unless that
\* boot has a backup.
LEMMA RestoreWrites ==
    ASSUME TypeInv, AnchorInv, pc = "restore",
           UNCHANGED <<hostVars, etcAside, backups, lastBoot, recorded>>,
           \A t \in Trees : live'[t] \subseteq live[t] \cup target.data[t]
    PROVE  DiskInv'
<1>1. target \in backups /\ \A t \in Trees : \A x \in target.data[t] : x <= target.boot
  BY TargetHolds
<1>2. target \in BackupRecords /\ boot \in Int /\ lastBoot.boot \in Int
  BY <1>1 DEF TypeInv, TypeOK, HostTypeOK, Boots, LastBoots, BootIds
<1>3. target.boot \in Int /\ \A t \in Trees : target.data[t] \subseteq Int
  BY <1>2 DEF BackupRecords, Boots, BootIds
<1>4. \A t \in Trees : \A x \in live'[t] : x <= boot
  <2>1. target.boot < boot
    BY <1>1, Parts DEF DiskInv, PastOnly
  <2>2. \A t \in Trees : \A x \in target.data[t] : x <= boot
    BY <1>1, <1>2, <1>3, <2>1
  <2>3. \A t \in Trees : \A x \in live[t] : x <= boot
    BY Parts DEF DiskInv, PastOnly
  <2> QED BY <2>2, <2>3
<1>5. RollbackAnchor'
  <2> SUFFICES ASSUME OSTree, lastBoot.dep \in Known, WrittenSince(lastBoot.boot)',
                      ~Exists(backups, lastBoot)
               PROVE  FALSE
    BY DEF RollbackAnchor, hostVars, Known, Exists, Name
  <2>1. ~WrittenSince(lastBoot.boot)
    BY Parts DEF DiskInv, RollbackAnchor
  <2>2. PICK t \in Trees : \E x \in live'[t] : x > lastBoot.boot
    BY <2>1 DEF WrittenSince
  <2>3. PICK x \in live'[t] : x > lastBoot.boot
    BY <2>2
  <2>4. x \in target.data[t]
    BY <2>1, <2>3 DEF WrittenSince
  <2>5. target.boot < lastBoot.boot
    BY <1>1, Parts DEF DiskInv, NewestUnsaved
  <2> QED BY <1>1, <1>2, <1>3, <2>3, <2>4, <2>5
<1> QED BY <1>4, <1>5, Parts, LiveWritten

LEMMA WipeStep ==
    ASSUME TypeInv, AnchorInv, WipeTree
    PROVE  AnchorInv'
<1> USE DEF WipeTree
<1>1. \A t \in Trees : live'[t] \subseteq live[t] \cup target.data[t]
  BY DEF TypeInv, TypeOK
<1>2. DiskInv'
  BY <1>1, RestoreWrites DEF historyVars
<1>3. LocalsFresh' /\ AnchorIsNewest' /\ Anchored'
  BY FlowKept DEF hostVars, localVars
<1> QED BY <1>2, <1>3, PartsNext

LEMMA SwapStep ==
    ASSUME TypeInv, AnchorInv, SwapTree
    PROVE  AnchorInv'
<1> USE DEF SwapTree
<1>1. \A t \in Trees : live'[t] \subseteq live[t] \cup target.data[t]
  BY DEF TypeInv, TypeOK
<1>2. DiskInv'
  BY <1>1, RestoreWrites DEF historyVars
<1>3. LocalsFresh' /\ AnchorIsNewest' /\ Anchored'
  <2>1. Known' = Known /\ pc' \in {"restore", "meta"} /\ pc = "restore"
    BY DEF hostVars, Known
  <2> QED
    BY <2>1, Parts
       DEF hostVars, FlowInv, LocalsFresh, LatestForDeployment, AnchorIsNewest, Anchored,
           IsNewest, Exists, Name
<1> QED BY <1>2, <1>3, PartsNext

LEMMA MetaStep ==
    ASSUME TypeInv, AnchorInv, RestoreMeta
    PROVE  AnchorInv'
<1> USE DEF RestoreMeta
<1>1. /\ target \in backups
      /\ target.dep = booted
      /\ IsNewest(target, backups)
  BY TargetHolds
<1>2. lastBoot' = Name(target) /\ target \in BackupRecords
  BY <1>1, Parts DEF DiskInv, MetaIsName, TypeInv, TypeOK
<1>3. Known' = Known /\ Exists(backups, lastBoot)'
  BY <1>1, <1>2 DEF hostVars, Known, Exists, Name
<1>4. HostInv' /\ PastOnly'
  <2>1. lastBoot'.boot = target.boot /\ lastBoot'.dep = target.dep
    BY <1>2 DEF Name
  <2>2. target.boot < boot /\ target.dep <= newest
    BY <1>1, Parts DEF DiskInv, PastOnly
  <2>3. target.boot \in Boots /\ boot \in Boots
    BY <1>2 DEF BackupRecords, TypeInv, TypeOK, HostTypeOK
  <2> QED
    BY <1>3, <2>1, <2>2, <2>3, Parts
       DEF DiskInv, HostInv, PastOnly, hostVars, Boots, Unset
<1>5. MetaIsName' /\ NamesUnique' /\ HonestRecords'
  BY <1>1, <1>2, Parts
     DEF DiskInv, MetaIsName, NamesUnique, HonestRecords, Name, historyVars
<1>6. NewestUnsaved' /\ RollbackAnchor'
  BY <1>3 DEF NewestUnsaved, RollbackAnchor
<1>7. SnapshotHoldsItsBoot'
  BY <1>3, Parts DEF DiskInv, SnapshotHoldsItsBoot
<1>8. LocalsFresh' /\ Anchored'
  BY <1>3 DEF LocalsFresh, Anchored
<1>9. AnchorIsNewest'
  <2> SUFFICES ASSUME NEW b \in backups, Name(b) = Name(target)
               PROVE  IsNewest(b, backups)
    BY <1>2 DEF AnchorIsNewest, IsNewest, Name
  <2> QED BY <1>1, Parts DEF DiskInv, NamesUnique
<1> QED BY <1>4, <1>5, <1>6, <1>7, <1>8, <1>9, PartsNext DEF DiskInv

-----------------------------------------------------------------------------
(***************************************************************************)
(* The snapshot, Prune and the record.                                     *)
(***************************************************************************)
LEMMA SnapshotStep ==
    ASSUME TypeInv, AnchorInv, SnapshotTaken
    PROVE  AnchorInv'
<1> USE DEF SnapshotTaken, SnapshotDue
<1>1. prev = lastBoot
  BY Parts DEF FlowInv, LocalsFresh
<1>2. PICK m \in 1 .. MaxTime :
        IsNow(m, backups) /\ backups' = backups \cup {Snapshot(m)}
  OBVIOUS
<1> DEFINE new == Snapshot(m)
<1>3. /\ new.dep = lastBoot.dep /\ new.boot = lastBoot.boot /\ new.meta = lastBoot
      /\ new.mtime = m /\ new.data = live
      /\ Name(new) = lastBoot
  BY <1>1 DEF Snapshot, Name, TypeInv, TypeOK, LastBoots
<1>4. /\ Known' = Known /\ lastBoot' = lastBoot /\ boot' = boot /\ newest' = newest
      /\ live' = live /\ etcAside' = etcAside /\ recorded' = recorded
      /\ new \in backups'
  BY <1>2 DEF hostVars, Known, historyVars
<1>5. Exists(backups, lastBoot)'
  BY <1>3, <1>4 DEF Exists
<1>6. boot \in Int /\ lastBoot.boot \in Int /\ lastBoot.boot < boot
  <2>1. boot \in Int /\ lastBoot.boot \in Int
    BY DEF TypeInv, TypeOK, HostTypeOK, Boots, LastBoots, BootIds
  <2> QED BY <2>1, <1>1, Parts DEF DiskInv, PastOnly
<1>7. HostInv' /\ PastOnly'
  BY <1>2, <1>3, <1>4, <1>6, Parts DEF DiskInv, HostInv, PastOnly, hostVars, Unset
<1>8. MetaIsName' /\ NamesUnique'
  BY <1>1, <1>2, <1>3, Parts DEF DiskInv, MetaIsName, NamesUnique, Exists
<1>9. NewestUnsaved' /\ RollbackAnchor'
  BY <1>5 DEF NewestUnsaved, RollbackAnchor
<1>10. HonestRecords'
  BY <1>1, <1>2, <1>3, <1>4, Parts DEF DiskInv, HonestRecords, NoLastBoot
<1>11. SnapshotHoldsItsBoot'
  <2> SUFFICES ASSUME new.dep \in Known, NEW t \in Trees, NEW x \in live[t]
               PROVE  x <= lastBoot.boot
    BY <1>2, <1>3, <1>4, Parts DEF DiskInv, SnapshotHoldsItsBoot
  <2>1. ~WrittenSince(lastBoot.boot)
    BY <1>1, <1>3, Parts DEF DiskInv, RollbackAnchor
  <2>2. x \in Int
    BY DEF TypeInv, TypeOK, BootIds
  <2> QED BY <1>6, <2>1, <2>2 DEF WrittenSince
<1>12. LocalsFresh' /\ Anchored'
  BY <1>4, <1>5 DEF LocalsFresh, Anchored, localVars
<1>13. AnchorIsNewest'
  <2>1. IsNewest(new, backups')
    <3>1. m \in Int /\ \A b \in backups : b.mtime \in Int
      BY NodeAssumption DEF TypeInv, TypeOK, BackupRecords
    <3>2. \A b \in backups : b.mtime < m
      BY <1>2 DEF IsNow
    <3>3. \A b \in backups' : b \in backups \/ b = new
      BY <1>2
    <3> HIDE DEF new
    <3> QED BY <1>3, <3>1, <3>2, <3>3 DEF IsNewest
  <2>2. \A b \in backups' : Name(b) = lastBoot => b = new
    BY <1>1, <1>2 DEF Exists
  <2> QED BY <1>4, <2>1, <2>2 DEF AnchorIsNewest
<1> QED BY <1>7, <1>8, <1>9, <1>10, <1>11, <1>12, <1>13, PartsNext DEF DiskInv

LEMMA PruneStep ==
    ASSUME TypeInv, AnchorInv, PruneOne
    PROVE  AnchorInv'
<1> USE DEF PruneOne
<1>1. PICK b \in doomed :
        backups' = backups \ {b} /\ doomed' = doomed \ {b}
  OBVIOUS
<1>2. /\ Known' = Known /\ lastBoot' = lastBoot /\ boot' = boot /\ pc' = "pruning"
      /\ live' = live /\ etcAside' = etcAside /\ recorded' = recorded
      /\ kubelet' = kubelet
  BY DEF hostVars, Known, historyVars
<1>3. doomed \subseteq backups
  BY Parts DEF FlowInv, LocalsFresh
<1>4. lastBoot.dep \in Known => (Exists(backups, lastBoot)' <=> Exists(backups, lastBoot))
  <2>1. lastBoot.dep \in Known => Name(b) # lastBoot
    BY <1>1, <1>3, Parts DEF FlowInv, AnchorIsNewest, Name
  <2> QED BY <1>1, <1>2, <2>1 DEF Exists, Name
<1>5. HostInv' /\ PastOnly'
  BY <1>1, <1>2, Parts DEF DiskInv, HostInv, PastOnly, hostVars, Unset
<1>6. MetaIsName' /\ NamesUnique' /\ HonestRecords'
  BY <1>1, <1>2, Parts DEF DiskInv, MetaIsName, NamesUnique, HonestRecords, Name
<1>7. NewestUnsaved' /\ RollbackAnchor'
  BY <1>1, <1>2, <1>4, Parts DEF DiskInv, NewestUnsaved, RollbackAnchor, WrittenSince
<1>8. SnapshotHoldsItsBoot'
  BY <1>1, <1>2, Parts DEF DiskInv, SnapshotHoldsItsBoot
<1>9. LocalsFresh'
  BY <1>1, <1>2, <1>3 DEF LocalsFresh
<1>10. AnchorIsNewest'
  BY <1>1, <1>2, Parts DEF FlowInv, AnchorIsNewest, IsNewest, Name
<1>11. Anchored'
  BY <1>2, <1>4, Parts DEF FlowInv, Anchored
<1> QED
  BY <1>5, <1>6, <1>7, <1>8, <1>9, <1>10, <1>11, PartsNext DEF DiskInv

LEMMA RecordStep ==
    ASSUME TypeInv, AnchorInv, Record
    PROVE  AnchorInv'
<1> USE DEF Record
<1>1. /\ Known' = Known /\ boot' = boot /\ newest' = newest /\ backups' = backups
      /\ live' = live /\ etcAside' = etcAside /\ pc' = "announce"
      /\ lastBoot' = ThisBoot /\ ThisBoot.boot = boot
  BY DEF hostVars, Known, ThisBoot
<1>2. boot \in Int /\ boot >= 1 /\ ThisBoot.dep <= newest
  BY Parts
     DEF ThisBoot, TypeInv, TypeOK, HostTypeOK, Boots, Images, DiskInv, HostInv, Known
<1>3. HostInv' /\ PastOnly'
  BY <1>1, <1>2, Parts DEF DiskInv, HostInv, PastOnly, hostVars, Unset
<1>4. MetaIsName' /\ NamesUnique' /\ HonestRecords'
  BY <1>1, Parts DEF DiskInv, MetaIsName, NamesUnique, HonestRecords, Name
<1>5. NewestUnsaved'
  BY <1>1, Parts DEF DiskInv, NewestUnsaved, PastOnly
<1>6. ~WrittenSince(boot)
  <2>1. etcAside.data \subseteq Int /\ \A t \in Trees : live[t] \subseteq Int
    BY DEF TypeInv, TypeOK, BootIds
  <2> QED BY <1>2, <2>1, Parts DEF DiskInv, PastOnly, WrittenSince
<1>7. RollbackAnchor' /\ SnapshotHoldsItsBoot'
  BY <1>1, <1>6, Parts DEF DiskInv, RollbackAnchor, WrittenSince, SnapshotHoldsItsBoot
<1>8. LocalsFresh' /\ Anchored'
  BY <1>1 DEF LocalsFresh, Anchored
<1>9. AnchorIsNewest'
  <2>1. \A b \in backups : Name(b) # ThisBoot
    BY <1>1, <1>2, Parts DEF DiskInv, PastOnly, Name
  <2> QED BY <1>1, <2>1 DEF AnchorIsNewest
<1> QED BY <1>3, <1>4, <1>5, <1>7, <1>8, <1>9, PartsNext DEF DiskInv

-----------------------------------------------------------------------------
(***************************************************************************)
(* The host.                                                               *)
(***************************************************************************)
\* No deployment that was known before becomes bootable again, and the new
\* ones are newer than all of them.
LEMMA HostMoves ==
    ASSUME TypeInv, HostInv, Stage \/ Reboot \/ PowerCut
    PROVE  /\ HostInv'
           /\ boot' \in {boot, boot + 1}
           /\ newest <= newest'
           /\ \A d \in 0 .. newest : d \in Known' => d \in Known
<1> USE DEF TypeInv, TypeOK, HostTypeOK, HostInv, Known, Images, Boots, Unset
<1>1. CASE Stage
  <2>1. /\ newest' = newest + 1 /\ newest \in Int
        /\ UNCHANGED <<boot, fallback, counter>>
    BY <1>1 DEF Stage
  <2>2. Known' \subseteq Known \cup {newest + 1}
    BY <1>1 DEF Stage
  <2>3. \A d \in Known : d \in Int /\ d <= newest
    OBVIOUS
  <2>4. counter # Unset => fallback # 0
    OBVIOUS
  <2> HIDE DEF TypeInv, TypeOK, HostTypeOK, Known, Images, Boots, Unset
  <2> QED
    BY <2>1, <2>2, <2>3, <2>4
<1>2. CASE Reboot \/ PowerCut
  <2>1. PICK image, other, count \in Int :
          /\ PowerOn(image, other, count)
          /\ image \in Known /\ other \in Known \cup {0}
          /\ count # Unset => other # 0
    BY <1>2, HostAssumption DEF Reboot, PowerCut
  <2>2. {booted', fallback'} = {image, other} /\ staged' = 0 /\ newest' = newest
    BY <2>1 DEF PowerOn
  <2>3. Known' \subseteq Known
    BY <2>1, <2>2
  <2>4. boot' = boot + 1
    BY <2>1 DEF PowerOn
  <2>5. counter' # Unset => fallback' # 0
    BY <2>1 DEF PowerOn
  <2>6. newest \in Int /\ \A d \in Known : d <= newest
    OBVIOUS
  <2>7. HostInv'
    BY <2>2, <2>3, <2>5, <2>6 DEF HostInv
  <2> HIDE DEF Known, HostInv
  <2> QED BY <2>2, <2>3, <2>4, <2>6, <2>7
<1> QED BY <1>1, <1>2

LEMMA HostMoveStep ==
    ASSUME TypeInv, AnchorInv, StageUpgrade \/ CleanReboot \/ PowerLoss
    PROVE  AnchorInv'
<1>1. UNCHANGED <<backups, lastBoot, marker, historyVars>>
  BY DEF StageUpgrade, CleanReboot, PowerLoss, ComesUp, diskVars
\* Whatever a tree holds after the boot, one of the copies held before.
<1>etc. /\ \A t \in Trees : live'[t] = live[t] \/ live'[t] = etcAside.data
        /\ etcAside'.data \in {live["kubernetes"], etcAside.data}
        /\ "kubernetes" \in Trees
  <2>1. CASE StageUpgrade
    BY <2>1 DEF StageUpgrade, diskVars, Trees
  <2>2. CASE CleanReboot \/ PowerLoss
    BY <2>2, EtcTypes DEF CleanReboot, PowerLoss, Trees
  <2> QED BY <2>1, <2>2
<1>2. /\ HostInv'
      /\ boot' \in {boot, boot + 1}
      /\ newest <= newest'
      /\ \A d \in 0 .. newest : d \in Known' => d \in Known
  BY HostMoves, Parts DEF DiskInv, StageUpgrade, CleanReboot, PowerLoss
<1>3. lastBoot.dep \in 0 .. newest /\ \A b \in backups : b.dep \in 0 .. newest
  BY Parts
     DEF DiskInv, PastOnly, TypeInv, TypeOK, HostTypeOK, LastBoots, BackupRecords, Images
<1>4. PastOnly'
  <2>1. /\ boot \in Int /\ boot' \in Int /\ newest \in Int /\ newest' \in Int
        /\ lastBoot.boot \in Int /\ lastBoot.dep \in Int
        /\ etcAside.data \subseteq Int /\ \A t \in Trees : live[t] \subseteq Int
        /\ \A b \in backups : b.boot \in Int /\ b.dep \in Int
    <3>1. newest' \in Int
      BY HostTypes DEF StageUpgrade, CleanReboot, PowerLoss, HostTypeOK, Images
    <3> QED
      BY <1>2, <3>1 DEF TypeInv, TypeOK, HostTypeOK, LastBoots, BackupRecords, Boots,
         BootIds, Images
  <2>2. boot <= boot' /\ newest <= newest'
    BY <1>2, <2>1
  <2>3. /\ \A t \in Trees : \A x \in live'[t] : x <= boot'
        /\ \A x \in etcAside'.data : x <= boot'
    <3>1. /\ \A t \in Trees : \A x \in live[t] : x <= boot
          /\ \A x \in etcAside.data : x <= boot
      BY Parts DEF DiskInv, PastOnly
    <3>2. /\ \A t \in Trees : \A x \in live[t] : x <= boot'
          /\ \A x \in etcAside.data : x <= boot'
      BY <2>1, <2>2, <3>1
    <3> QED BY <1>etc, <3>2
  <2> QED
    BY <1>1, <2>1, <2>2, <2>3, Parts DEF DiskInv, PastOnly
<1>5. MetaIsName' /\ NamesUnique' /\ HonestRecords'
  BY <1>1, Parts
     DEF DiskInv, MetaIsName, NamesUnique, HonestRecords, Name, historyVars
<1>6. NewestUnsaved' /\ SnapshotHoldsItsBoot' /\ RollbackAnchor'
  <2>1. NewestUnsaved' /\ SnapshotHoldsItsBoot'
    BY <1>1, <1>2, <1>3, Parts
       DEF DiskInv, NewestUnsaved, SnapshotHoldsItsBoot, Exists, Name
  <2>2. WrittenSince(lastBoot.boot)' => WrittenSince(lastBoot.boot)
    BY <1>1, <1>etc DEF WrittenSince
  <2>3. RollbackAnchor'
    BY <1>1, <1>2, <1>3, <2>2, Parts DEF DiskInv, RollbackAnchor, Exists, Name
  <2> QED BY <2>1, <2>3
<1>7. LocalsFresh' /\ AnchorIsNewest' /\ Anchored'
  <2>1. CASE StageUpgrade
    <3>1. /\ pc' = pc /\ pc \in Ended
          /\ UNCHANGED <<boot, booted, kubelet, prev, target, doomed>>
      BY <2>1 DEF StageUpgrade, Stage, Ended, localVars
    <3> QED
      BY <3>1, <1>1, <1>2, <1>3, Parts
         DEF FlowInv, LocalsFresh, AnchorIsNewest, Anchored, IsNewest, Exists, Name, Ended
  <2>2. CASE CleanReboot \/ PowerLoss
    <3>1. pc' = "start" /\ kubelet' = FALSE
      BY <2>2 DEF CleanReboot, PowerLoss, ComesUp, Halt
    <3> QED
      BY <3>1, <1>1, Parts
         DEF FlowInv, LocalsFresh, AnchorIsNewest, Anchored, IsNewest, Name
  <2> QED BY <2>1, <2>2
<1> QED BY <1>2, <1>4, <1>5, <1>6, <1>7, PartsNext DEF DiskInv

LEMMA VerdictStep ==
    ASSUME TypeInv, AnchorInv, Green \/ Red
    PROVE  AnchorInv'
<1>1. /\ UNCHANGED <<boot, booted, fallback, staged, newest, live, etcAside, backups,
                     lastBoot, recorded, pc, target, doomed, kubelet, prev>>
      /\ counter' \in {counter, Unset}
  BY DEF Green, Red, HostGreen, HostRed, diskVars, historyVars, localVars
<1>2. DiskInv'
  BY <1>1, Parts, DiskKept
<1>3. LocalsFresh' /\ AnchorIsNewest' /\ Anchored'
  BY <1>1, FlowKept
<1> QED BY <1>2, <1>3, PartsNext

\* StartKubelet: the kubelet may come up because Boot is anchored.
LEMMA StartStep ==
    ASSUME TypeInv, AnchorInv, StartKubelet
    PROVE  AnchorInv'
<1>1. /\ UNCHANGED <<hostVars, live, etcAside, backups, lastBoot, recorded>>
      /\ pc = "startKubelet" /\ pc' = "readyz"
  BY DEF StartKubelet, diskVars, historyVars
<1>2. DiskInv'
  BY <1>1, Parts, DiskKept DEF hostVars
<1>3. Known' = Known
  BY <1>1 DEF hostVars, Known
<1>4. LocalsFresh' /\ AnchorIsNewest' /\ Anchored'
  BY <1>1, <1>3, Parts
     DEF FlowInv, LocalsFresh, AnchorIsNewest, Anchored, IsNewest, Exists, Name, hostVars
<1> QED BY <1>2, <1>4, PartsNext

-----------------------------------------------------------------------------
\* As long as Prune's os.RemoveAll is not interrupted.
RemovesWhole == "remove" \notin Faults

LEMMA AnchorStep == RemovesWhole /\ TypeInv /\ AnchorInv /\ [Next]_vars => AnchorInv'
<1> SUFFICES ASSUME RemovesWhole, TypeInv, AnchorInv, [Next]_vars PROVE AnchorInv'
  OBVIOUS
<1>1. CASE Quiet
  BY <1>1, QuietStep
<1>2. CASE Ensure \/ EnsureFails \/ EtcdWrites
  BY <1>2, WriteStep
<1>3. CASE StageUpgrade \/ CleanReboot \/ PowerLoss
  BY <1>3, HostMoveStep
<1>4. CASE UNCHANGED vars
  <2>1. DiskInv'
    BY <1>4, Parts, DiskKept DEF vars, hostVars, diskVars, historyVars
  <2>2. LocalsFresh' /\ AnchorIsNewest' /\ Anchored'
    BY <1>4, FlowKept DEF vars, hostVars, diskVars, localVars
  <2> QED BY <2>1, <2>2, PartsNext
<1>5. ~PrunePartly
  BY DEF PrunePartly, RemovesWhole
<1> QED
  BY <1>1, <1>2, <1>3, <1>4, <1>5, WipeStep, SwapStep, MetaStep, SnapshotStep, PruneStep,
     RecordStep, VerdictStep, StartStep
  DEF Next, BootStep, HostStep, Quiet

LEMMA AnchorInit == Init => AnchorInv
<1> SUFFICES ASSUME Init PROVE AnchorInv
  OBVIOUS
<1> USE DEF Init, HostInit
<1>1. HostInv /\ PastOnly /\ MetaIsName /\ NamesUnique
  BY DEF HostInv, Known, PastOnly, MetaIsName, NamesUnique, NoLastBoot
<1>2. LocalsFresh /\ AnchorIsNewest /\ Anchored
  BY DEF LocalsFresh, AnchorIsNewest, Anchored
<1>3. NewestUnsaved /\ HonestRecords /\ SnapshotHoldsItsBoot
  BY DEF NewestUnsaved, HonestRecords, SnapshotHoldsItsBoot
<1>4. RollbackAnchor
  BY DEF RollbackAnchor, NoLastBoot, Known
<1> QED BY <1>1, <1>2, <1>3, <1>4 DEF AnchorInv

\* Under the same condition TLC's AnchorInv holds for all instances.
THEOREM AnchorInvariant == ASSUME RemovesWhole PROVE Spec => []AnchorInv
<1>1. Init => TypeInv /\ AnchorInv
  BY AnchorInit, TypeInit
<1>2. TypeInv /\ AnchorInv /\ [Next]_vars => (TypeInv /\ AnchorInv)'
  BY TypeStep, AnchorStep
<1> QED BY <1>1, <1>2, PTL DEF Spec

\* Whatever fails, dies or loses power, short of a half-removed directory: the
\* state of the last healthy boot is in a backup before boot.go lets anything
\* of a later boot be written over it, and Prune leaves it there.
THEOREM AnchorKept == ASSUME RemovesWhole PROVE Spec => []RollbackAnchor
<1>1. AnchorInv => RollbackAnchor
  BY DEF AnchorInv
<1> QED BY <1>1, AnchorInvariant, PTL

\* Under the same condition a backup holds the state of the boot it is named
\* after and nothing later (backup.Create is called before anything writes).
THEOREM SnapshotsHonest == ASSUME RemovesWhole PROVE Spec => []SnapshotHoldsItsBoot
<1>1. AnchorInv => SnapshotHoldsItsBoot
  BY DEF AnchorInv
<1> QED BY <1>1, AnchorInvariant, PTL

-----------------------------------------------------------------------------
(***************************************************************************)
(* The records, whatever fails.                                            *)
(***************************************************************************)
\* What Boot has read, and may write back, is of recorded boots: also in the
\* backups Prune holds a list of, and in a meta.json that is left over.
HonestInv ==
    /\ lastBoot = NoLastBoot \/ lastBoot \in recorded
    /\ prev = NoLastBoot \/ prev \in recorded
    /\ target.meta = NoLastBoot \/ target.meta \in recorded
    /\ \A b \in backups \cup doomed :
          /\ Name(b) \in recorded
          /\ b.meta = NoLastBoot \/ b.meta \in recorded

\* Steps that copy a record from one of these places to another, or drop it.
LEMMA HonestKept ==
    ASSUME HonestInv, recorded' = recorded, lastBoot' = lastBoot,
           prev' \in {prev, lastBoot, NoLastBoot},
           target' \in {target, NoBackup} \cup backups,
           backups' \subseteq backups, doomed' \subseteq doomed \cup backups
    PROVE  HonestInv'
<1>1. target'.meta = NoLastBoot \/ target'.meta \in recorded
  BY DEF HonestInv, NoBackup
<1>2. \A b \in backups' \cup doomed' : b \in backups \cup doomed
  OBVIOUS
<1> QED
  BY <1>1, <1>2 DEF HonestInv, Name

\* A removal that stops half-way leaves the name, and no other meta.json.
LEMMA RemainsName ==
    ASSUME NEW b \in BackupRecords, NEW lost, NEW metaLost, NEW m
    PROVE  /\ Name(Remains(b, lost, metaLost, m)) = Name(b)
           /\ Remains(b, lost, metaLost, m).meta \in {b.meta, NoLastBoot}
  BY DEF Remains, Name, BackupRecords

LEMMA HonestStep == ASSUME TypeOK, HonestInv, [Next]_vars PROVE HonestInv'
<1> USE DEF localVars, historyVars, diskVars, Goto, Fail, Halt
<1>1. CASE RestoreMeta
  BY <1>1 DEF RestoreMeta, HonestInv, NoBackup, Name
<1>2. CASE SnapshotTaken
  <2>1. PICK m \in 1 .. MaxTime : backups' = backups \cup {Snapshot(m)}
    BY <1>2 DEF SnapshotTaken
  <2>2. UNCHANGED <<lastBoot, prev, target, doomed, recorded>>
    BY <1>2 DEF SnapshotTaken
  <2>3. prev \in recorded
    BY <1>2 DEF SnapshotTaken, SnapshotDue, HonestInv, NoLastBoot
  <2>4. Snapshot(m).meta = prev /\ Name(Snapshot(m)) = prev
    <3>1. prev = [dep |-> prev.dep, boot |-> prev.boot]
      BY DEF TypeOK, LastBoots
    <3> QED
      BY <3>1 DEF Snapshot, Name
  <2> QED
    BY <2>1, <2>2, <2>3, <2>4 DEF HonestInv, Name
<1>3. CASE PrunePartly
  <2>1. PICK b \in doomed, m \in 1 .. MaxTime, lost \in SUBSET Trees, metaLost \in BOOLEAN :
           /\ target' = Remains(b, lost, metaLost, m)
           /\ backups' = (backups \ {b}) \cup {target'}
           /\ doomed' = (doomed \ {b}) \cup {target'}
    BY <1>3 DEF PrunePartly
  <2>2. UNCHANGED <<lastBoot, prev, recorded>>
    BY <1>3 DEF PrunePartly
  <2>3. /\ Name(target') = Name(b)
        /\ target'.meta \in {b.meta, NoLastBoot}
    <3>1. b \in BackupRecords
      BY <2>1 DEF TypeOK
    <3> QED
      BY <2>1, <3>1, RemainsName
  <2> QED
    BY <2>1, <2>2, <2>3 DEF HonestInv, Name
<1>4. CASE Record
  <2>1. /\ lastBoot' \in recorded' /\ recorded \subseteq recorded'
        /\ UNCHANGED <<prev, target, backups, doomed>>
    BY <1>4 DEF Record
  <2> QED
    BY <2>1 DEF HonestInv, Name
<1>5. CASE BootStep /\ ~RestoreMeta /\ ~SnapshotTaken /\ ~PrunePartly /\ ~Record
  <2>1. recorded' = recorded /\ lastBoot' = lastBoot
    BY <1>5 DEF BootStep, Detect, EarlyError, NoRestoreRequested, NoBackupToRestore,
       BeginRestore, WipeTree, SwapTree, RestoreFails, ClearMarker, ReadLastBoot,
       SnapshotSkipped, SnapshotFails, Ensure, EnsureFails, StartKubelet, WaitReadyz,
       EnsureAdminRBAC, WaitControlPlane, MarkControlPlane, PhaseFails,
       EnsureAddons, PruneSkipped, PruneBegin, PruneOne, PruneEnds, RecordFails, Announce
  <2>2. prev' \in {prev, lastBoot, NoLastBoot} /\ backups' \subseteq backups
    BY <1>5 DEF BootStep, Detect, EarlyError, NoRestoreRequested, NoBackupToRestore,
       BeginRestore, WipeTree, SwapTree, RestoreFails, ClearMarker, ReadLastBoot,
       SnapshotSkipped, SnapshotFails, Ensure, EnsureFails, StartKubelet, WaitReadyz,
       EnsureAdminRBAC, WaitControlPlane, MarkControlPlane, PhaseFails,
       EnsureAddons, PruneSkipped, PruneBegin, PruneOne, PruneEnds, RecordFails, Announce
  <2>3. target' \in {target, NoBackup} \cup backups /\ doomed' \subseteq doomed \cup backups
    BY <1>5 DEF BootStep, Detect, EarlyError, NoRestoreRequested, NoBackupToRestore,
       BeginRestore, LatestForDeployment, WipeTree, SwapTree, RestoreFails, ClearMarker,
       ReadLastBoot, SnapshotSkipped, SnapshotFails, Ensure, EnsureFails, StartKubelet,
       WaitReadyz, EnsureAdminRBAC, WaitControlPlane, MarkControlPlane, PhaseFails,
       EnsureAddons, PruneSkipped, PruneBegin, PruneOne, PruneEnds, RecordFails, Announce
  <2> QED
    BY <2>1, <2>2, <2>3, HonestKept
<1>6. CASE HostStep \/ UNCHANGED vars
  <2>1. /\ recorded' = recorded /\ lastBoot' = lastBoot /\ backups' = backups
        /\ prev' \in {prev, NoLastBoot} /\ target' \in {target, NoBackup}
        /\ doomed' \in {doomed, {}}
    BY <1>6 DEF HostStep, EtcdWrites, ServiceKilled, RestartService, Green, Red,
       StageUpgrade, CleanReboot, PowerLoss, ComesUp, vars
  <2> QED
    BY <2>1, HonestKept
<1> QED
  BY <1>1, <1>2, <1>3, <1>4, <1>5, <1>6 DEF Next

\* Backups and last-boot.json name boots that were recorded as healthy, and no
\* others: whatever fails, half-removed directories and torn restores included,
\* last-boot.json is copied only from such places (WriteLastBoot, ReadMeta).
THEOREM RecordsHonest == Spec => []HonestRecords
<1>1. Init => HonestInv
  BY DEF Init, HonestInv, NoBackup, NoLastBoot
<1>2. TypeOK /\ HonestInv /\ [Next]_vars => HonestInv'
  BY HonestStep
<1>3. HonestInv => HonestRecords
  BY DEF HonestInv, HonestRecords
<1> QED BY <1>1, <1>2, <1>3, TypeCorrect, PTL DEF Spec

-----------------------------------------------------------------------------
(***************************************************************************)
(* The restore marker.                                                     *)
(***************************************************************************)
\* As long as the marker file can be removed.
MarkerRemovable == "clear" \notin Faults

\* From maybeRestore's return on there is no marker, and there never is one
\* on a host without ostree.
MarkerInv ==
    /\ marker => OSTree
    /\ pc \in Reconciling \cup {"readLastBoot", "snapshot"} => ~marker

LEMMA MarkerStep ==
    ASSUME MarkerRemovable, TypeOK, MarkerInv, [Next]_vars
    PROVE  MarkerInv'
<1> USE DEF MarkerInv, Reconciling, ClusterPhases, Goto, Fail, Halt, diskVars
\* maybeRestore's own steps, and those that lead into it.
<1>1. CASE Detect \/ NoRestoreRequested \/ NoBackupToRestore \/ BeginRestore \/ ClearMarker
  BY <1>1 DEF Detect, NoRestoreRequested, NoBackupToRestore, BeginRestore, ClearMarker,
     MarkerRemovable
\* greenboot's red.d sets the marker, with Boot at its end.
<1>2. CASE Red
  BY <1>2 DEF Red, RequestRestore, TypeOK
<1>3. CASE /\ marker' = marker
           /\ \/ pc' \in {"start", "failed", "active", "restore", "meta",
                          "clearThenGo", "clearThenFail"}
              \/ pc \in Reconciling \cup {"readLastBoot", "snapshot"}
              \/ pc' = pc
  BY <1>3
<1>4. CASE WipeTree \/ SwapTree \/ RestoreMeta \/ RestoreFails \/ EarlyError
  BY <1>4, <1>3 DEF WipeTree, SwapTree, RestoreMeta, RestoreFails, EarlyError
<1>5. CASE \/ ReadLastBoot \/ SnapshotSkipped \/ SnapshotTaken \/ SnapshotFails
           \/ Ensure \/ EnsureFails \/ StartKubelet \/ WaitReadyz \/ EnsureAdminRBAC
           \/ WaitControlPlane \/ MarkControlPlane \/ PhaseFails \/ EnsureAddons
           \/ PruneSkipped \/ PruneBegin \/ PrunePartly \/ PruneOne \/ PruneEnds
           \/ Record \/ RecordFails \/ Announce
  <2>1. marker' = marker /\ pc \in Reconciling \cup {"readLastBoot", "snapshot"}
    BY <1>5 DEF ReadLastBoot, SnapshotSkipped, SnapshotTaken, SnapshotFails, Ensure,
       EnsureFails, StartKubelet, WaitReadyz, EnsureAdminRBAC, WaitControlPlane,
       MarkControlPlane, PhaseFails, EnsureAddons, PruneSkipped, PruneBegin,
       PrunePartly, PruneOne, PruneEnds, Record, RecordFails, Announce
  <2> QED BY <1>3, <2>1
<1>6. CASE \/ EtcdWrites \/ ServiceKilled \/ RestartService \/ Green \/ StageUpgrade
           \/ CleanReboot \/ PowerLoss \/ UNCHANGED vars
  <2>1. /\ marker' = marker
        /\ pc' \in {"start", "failed"} \/ pc' = pc
    BY <1>6 DEF EtcdWrites, ServiceKilled, RestartService, Green, StageUpgrade,
       CleanReboot, PowerLoss, ComesUp, vars
  <2> QED BY <1>3, <2>1
<1> QED
  BY <1>1, <1>2, <1>4, <1>5, <1>6 DEF Next, BootStep, HostStep

\* A restore request is gone before the boot that found it reconciles anything
\* (maybeRestore's deferred clear), so it cannot undo a later, healthy boot.
THEOREM MarkerConsumed == ASSUME MarkerRemovable PROVE Spec => []MarkerGoneBeforeReconcile
<1>1. Init => TypeOK /\ MarkerInv
  BY TypeInit DEF TypeInv, Init, MarkerInv, Reconciling, ClusterPhases
<1>2. TypeOK /\ MarkerInv /\ [Next]_vars /\ TypeOK' => (TypeOK /\ MarkerInv)'
  BY MarkerStep
<1>3. TypeOK /\ MarkerInv => MarkerGoneBeforeReconcile
  BY DEF MarkerInv, MarkerGoneBeforeReconcile
<1> QED BY <1>1, <1>2, <1>3, TypeCorrect, PTL DEF Spec

-----------------------------------------------------------------------------
(***************************************************************************)
(* Restores run without etcd.  red.d leaves the marker only in a boot the  *)
(* machine is about to leave: a kubelet that is up meets no marker before  *)
(* the reboot, and nobody starts the service again until then.             *)
(***************************************************************************)
ColdInv ==
    /\ AutoReboots => pc = "failed"
    /\ kubelet /\ marker => AutoReboots
    /\ ColdRestore

LEMMA ColdStep ==
    ASSUME MarkerRemovable, TypeOK, MarkerInv, ColdInv, [Next]_vars
    PROVE  ColdInv'
<1> USE DEF ColdInv, ColdRestore, AutoReboots, hostVars, diskVars, Goto, Fail, Halt
<1>1. CASE BeginRestore
  BY <1>1 DEF BeginRestore
\* Every other step of Boot leaves the kubelet and the marker, or clears it,
\* and does not go to "restore"; and Boot is not at its end.
<1>2. CASE StartKubelet
  BY <1>2 DEF StartKubelet, MarkerInv, Reconciling, ClusterPhases
<1>3. CASE BootStep /\ ~BeginRestore /\ ~StartKubelet
  <2>1. /\ pc # "failed"
        /\ UNCHANGED <<counter, verdict, kubelet>>
        /\ marker' => marker
        /\ pc' = "restore" => pc = "restore"
    BY <1>3 DEF BootStep, Detect, EarlyError, NoRestoreRequested, NoBackupToRestore,
       WipeTree, SwapTree, RestoreMeta, RestoreFails, ClearMarker, ReadLastBoot,
       SnapshotSkipped, SnapshotTaken, SnapshotFails, Ensure, EnsureFails, WaitReadyz,
       EnsureAdminRBAC, WaitControlPlane, MarkControlPlane, PhaseFails, ClusterPhases,
       EnsureAddons, PruneSkipped, PruneBegin, PrunePartly, PruneOne, PruneEnds,
       Record, RecordFails, Announce
  <2> QED
    BY <2>1
<1>4. CASE Red
  <2>1. /\ pc = "failed" /\ verdict = "pending" /\ verdict' = "red"
        /\ UNCHANGED <<pc, counter, kubelet>>
    BY <1>4 DEF Red, HostRed
  <2>2. marker' => marker \/ counter # Unset
    <3>1. marker' = (marker \/ RequestRestore)
      BY <1>4 DEF Red
    <3>2. RequestRestore => counter # Unset
      BY DEF RequestRestore, Unset
    <3> QED
      BY <3>1, <3>2, Zenon
  <2> QED
    BY <2>1, <2>2
<1>5. CASE Green \/ StageUpgrade
  BY <1>5 DEF Green, HostGreen, StageUpgrade, Stage
<1>6. CASE CleanReboot \/ PowerLoss
  <2>1. verdict' = "pending" /\ kubelet' = FALSE
    BY <1>6 DEF CleanReboot, PowerLoss, Reboot, PowerCut, PowerOn, ComesUp
  <2> QED
    BY <2>1
<1>7. CASE EtcdWrites \/ ServiceKilled \/ RestartService \/ UNCHANGED vars
  BY <1>7 DEF EtcdWrites, ServiceKilled, RestartService, vars
<1> QED
  BY <1>1, <1>2, <1>3, <1>4, <1>5, <1>6, <1>7 DEF Next, HostStep

\* Restore (backup.go:154-185) never replaces a tree under a running etcd, as
\* long as the marker can be removed.
THEOREM RestoresCold == ASSUME MarkerRemovable PROVE Spec => []ColdRestore
<1>1. Init => TypeOK /\ MarkerInv /\ ColdInv
  BY TypeInit DEF TypeInv, Init, HostInit, MarkerInv, Reconciling, ClusterPhases, ColdInv,
     ColdRestore, AutoReboots
<1>2. TypeOK /\ MarkerInv /\ ColdInv /\ [Next]_vars /\ TypeOK'
        => (TypeOK /\ MarkerInv /\ ColdInv)'
  BY MarkerStep, ColdStep
<1>3. ColdInv => ColdRestore
  BY DEF ColdInv
<1> QED BY <1>1, <1>2, <1>3, TypeCorrect, PTL DEF Spec

-----------------------------------------------------------------------------
(***************************************************************************)
(* Snapshots are cold, restores failing and markers staying or not.        *)
(***************************************************************************)
\* Images are staged on nodes that came up healthy.
HealthyUpgrades == "eager" \notin Faults

\* The deployment of the last healthy boot is one the host can boot.
LEMMA KnownStep ==
    ASSUME HealthyUpgrades, TypeInv, AnchorInv, LastBootKnown, [Next]_vars
    PROVE  LastBootKnown'
<1> USE DEF LastBootKnown, hostVars, diskVars, Goto, Fail, Halt
<1>1. CASE RestoreMeta
  <2>1. target \in backups /\ target.dep = booted
    BY <1>1, TargetHolds DEF RestoreMeta
  <2>2. lastBoot'.dep = booted
    <3>1. lastBoot' = target.meta /\ target.meta # NoLastBoot
      BY <1>1 DEF RestoreMeta
    <3>2. target.meta = [dep |-> target.dep, boot |-> target.boot]
      BY <2>1, <3>1 DEF AnchorInv, MetaIsName, Name
    <3> QED
      BY <2>1, <3>1, <3>2
  <2>3. UNCHANGED <<booted, fallback, staged>>
    BY <1>1 DEF RestoreMeta
  <2> QED
    BY <2>2, <2>3
<1>2. CASE Record
  <2>1. lastBoot'.dep \in {0, booted} /\ UNCHANGED <<booted, fallback, staged>>
    BY <1>2 DEF Record, ThisBoot
  <2> QED
    BY <2>1
<1>3. CASE BootStep /\ ~RestoreMeta /\ ~Record
  <2>1. /\ UNCHANGED <<booted, fallback, staged, lastBoot>>
        /\ pc' \in {"announce", "active"} => pc \in {"announce", "active"}
    BY <1>3 DEF BootStep, Detect, EarlyError, NoRestoreRequested, NoBackupToRestore,
       BeginRestore, WipeTree, SwapTree, RestoreFails, ClearMarker, ReadLastBoot,
       SnapshotSkipped, SnapshotTaken, SnapshotFails, Ensure, EnsureFails, StartKubelet,
       WaitReadyz, EnsureAdminRBAC, WaitControlPlane, MarkControlPlane, PhaseFails,
       EnsureAddons, PruneSkipped, PruneBegin, PrunePartly, PruneOne, PruneEnds,
       RecordFails, Announce
  <2> QED
    BY <2>1
<1>4. CASE StageUpgrade
  <2>1. /\ pc = "active" /\ pc' = pc
        /\ UNCHANGED <<booted, fallback, lastBoot>>
    BY <1>4 DEF StageUpgrade, Stage, HealthyUpgrades
  <2> QED
    BY <2>1
<1>5. CASE CleanReboot \/ PowerLoss
  <2>1. /\ lastBoot' = lastBoot /\ staged' = 0 /\ pc' = "start"
        /\ lastBoot.dep \in {0, booted, fallback}
    BY <1>5 DEF CleanReboot, PowerLoss, Reboot, PowerCut, PowerOn, ComesUp
  <2>2. \/ PowerOn(booted, fallback, counter)
        \/ staged # 0 /\ PowerOn(staged, booted, MaxAttempts)
    BY <1>5 DEF CleanReboot, PowerLoss, Reboot, PowerCut
  <2>3. lastBoot.dep \in {0, booted', fallback'}
    BY <2>1, <2>2 DEF PowerOn
  <2> QED
    BY <2>1, <2>3
<1>6. CASE EtcdWrites \/ ServiceKilled \/ RestartService \/ Green \/ Red \/ UNCHANGED vars
  <2>1. /\ UNCHANGED <<booted, fallback, staged, lastBoot>>
        /\ pc' \in {"announce", "active"} => pc \in {"announce", "active"}
    BY <1>6 DEF EtcdWrites, ServiceKilled, RestartService, Green, HostGreen, Red, HostRed,
       vars
  <2> QED
    BY <2>1
<1> QED
  BY <1>1, <1>2, <1>3, <1>4, <1>5, <1>6 DEF Next, HostStep

\* Create (backup.go:88) copies no tree a running etcd writes to: while the
\* kubelet is up, the last healthy boot is this one, or has its backup.  This
\* needs neither restores that succeed nor a marker that can be removed.
THEOREM SnapshotsCold == ASSUME RemovesWhole, HealthyUpgrades PROVE Spec => []ColdSnapshot
<1>1. Init => TypeInv /\ AnchorInv /\ LastBootKnown
  BY TypeInit, AnchorInit DEF Init, HostInit, LastBootKnown, NoLastBoot
<1>2. TypeInv /\ AnchorInv /\ LastBootKnown /\ [Next]_vars
        => (TypeInv /\ AnchorInv /\ LastBootKnown)'
  BY TypeStep, AnchorStep, KnownStep
<1>3. TypeInv /\ AnchorInv /\ LastBootKnown => ColdSnapshot
  <2> SUFFICES ASSUME AnchorInv, LastBootKnown, pc = "snapshot", SnapshotDue,
                      ~Exists(backups, prev)
               PROVE  ~kubelet
    BY DEF ColdSnapshot
  <2>1. prev = lastBoot
    BY DEF AnchorInv, LocalsFresh
  <2>2. lastBoot.dep \in Known
    BY <2>1 DEF SnapshotDue, Known, LastBootKnown
  <2> QED
    BY <2>1, <2>2 DEF SnapshotDue, AnchorInv, Anchored
<1> QED
  BY <1>1, <1>2, <1>3, PTL DEF Spec
=============================================================================
