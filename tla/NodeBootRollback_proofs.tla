----------------------- MODULE NodeBootRollback_proofs -------------------------
(***************************************************************************)
(* What a rollback brings back, for every number of images, boots and      *)
(* attempts: the snapshots are complete in all three trees, and the image  *)
(* the host falls back to never starts an etcd the failed one wrote to, as *)
(* long as the power stays on.  And, power losses included, what a node's  *)
(* boots do to its backups and its live trees implements SnapshotStore.    *)
(***************************************************************************)
EXTENDS NodeBootData_proofs, NodeBootPrune_proofs

\* The failures that runs under FailingBoots leave out, too.
PowerStays == RestoresWhole /\ "power" \notin Faults

-----------------------------------------------------------------------------
\* Steps that change nothing but where Boot stands, and its variables.
LEMMA RollKept ==
    ASSUME RollInv,
           UNCHANGED <<hostVars, diskVars, kubelet, historyVars>>,
           Redo => pc' \in RedoPlaces,
           pc' \in {"announce", "active"} => lastBoot = ThisBoot,
           pc' \in WritesEtc => boot \in live["kubernetes"],
           pc' \in PastReady => kubelet
    PROVE  RollInv'
<1> USE DEF hostVars, diskVars, historyVars
<1>1. Redo => Redo'
  BY DEF Redo, HasBackup
<1>2. Healthy' /\ Armed'
  BY DEF RollInv, Healthy, Armed, ThisBoot, AutoReboots
<1>3. KubeHeld' /\ FallbackSaved' /\ CleanEtcd'
  BY <1>1 DEF RollInv, KubeHeld, FallbackSaved, CleanEtcd
<1> QED
  BY <1>2, <1>3 DEF RollInv

LEMMA RollMoves ==
    ASSUME RollInv, Facts,
           \/ Detect \/ EarlyError \/ NoRestoreRequested \/ NoBackupToRestore
           \/ ReadLastBoot \/ SnapshotSkipped \/ SnapshotFails \/ WaitReadyz
           \/ EnsureAdminRBAC \/ WaitControlPlane \/ MarkControlPlane \/ PhaseFails
           \/ EnsureAddons \/ PruneSkipped \/ PruneBegin \/ PruneEnds \/ RecordFails
           \/ Announce \/ ServiceKilled \/ RestartService \/ UNCHANGED vars
    PROVE  RollInv'
<1> USE DEF Goto, Fail, Halt, RedoPlaces, PastReady, WritesEtc
<1>0. /\ Redo => OSTree /\ marker /\ HasBackup /\ pc \in RedoPlaces
      /\ pc \in {"announce", "active"} => lastBoot = ThisBoot
      /\ pc \in WritesEtc => boot \in live["kubernetes"]
      /\ pc \in PastReady => kubelet
  BY DEF RollInv, Healthy, KubeHeld, Redo, Facts, MarkerInv
<1>1. CASE Detect \/ EarlyError \/ NoRestoreRequested
  BY <1>0, <1>1, RollKept DEF Detect, EarlyError, NoRestoreRequested
<1>2. CASE NoBackupToRestore
  BY <1>0, <1>2, RollKept DEF NoBackupToRestore, HasBackup
<1>3. CASE ReadLastBoot \/ SnapshotSkipped \/ SnapshotFails
  BY <1>0, <1>3, RollKept DEF ReadLastBoot, SnapshotSkipped, SnapshotFails
<1>4. CASE WaitReadyz \/ EnsureAdminRBAC \/ WaitControlPlane \/ MarkControlPlane
           \/ PhaseFails
  BY <1>0, <1>4, RollKept DEF WaitReadyz, EnsureAdminRBAC, WaitControlPlane,
     MarkControlPlane, PhaseFails, ClusterPhases
<1>5. CASE EnsureAddons \/ PruneSkipped \/ PruneBegin \/ PruneEnds
  BY <1>0, <1>5, RollKept DEF EnsureAddons, PruneSkipped, PruneBegin, PruneEnds
<1>6. CASE RecordFails \/ Announce \/ ServiceKilled
  BY <1>0, <1>6, RollKept DEF RecordFails, Announce, ServiceKilled
<1>7. CASE RestartService
  BY <1>0, <1>7, RollKept DEF RestartService, Ended
<1>8. CASE UNCHANGED vars
  BY <1>0, <1>8, RollKept DEF vars
<1> QED
  BY <1>1, <1>2, <1>3, <1>4, <1>5, <1>6, <1>7, <1>8

-----------------------------------------------------------------------------
\* The restore, up to the last tree: it is the next start's to finish.
LEMMA RollRestores ==
    ASSUME RestoresWhole, Facts, RollInv, BeginRestore \/ WipeTree \/ SwapTree
    PROVE  RollInv'
<1> USE DEF hostVars, diskVars, localVars, historyVars
<1>1. /\ UNCHANGED <<hostVars, etcAside, backups, lastBoot, marker, kubelet, historyVars>>
      /\ pc \in {"maybeRestore", "restore"} /\ pc' \in {"restore", "meta"}
  BY DEF BeginRestore, WipeTree, SwapTree
<1>2. Redo
  <2>1. CASE BeginRestore
    BY <2>1 DEF BeginRestore, Facts, ColdInv, DataInv, HostPart, MarkerAlone, HasBackup,
       Redo, RedoPlaces
  <2>2. CASE WipeTree \/ SwapTree
    BY <2>2, RestoreAlone DEF WipeTree, SwapTree
  <2> QED
    BY <2>1, <2>2
<1>3. Redo'
  BY <1>1, <1>2 DEF Redo, RedoPlaces, HasBackup
<1>4. Healthy' /\ Armed'
  BY <1>1 DEF RollInv, Healthy, Armed, ThisBoot, AutoReboots
<1>5. KubeHeld' /\ FallbackSaved' /\ CleanEtcd'
  BY <1>1, <1>3 DEF RollInv, KubeHeld, FallbackSaved, CleanEtcd, WritesEtc, PastReady
<1> QED
  BY <1>4, <1>5 DEF RollInv

\* ... and its end: all that is live is the backup's.
LEMMA RollMeta ==
    ASSUME RestoresWhole, Facts, RollInv, RestoreMeta
    PROVE  RollInv'
<1> USE DEF RestoreMeta, hostVars, diskVars, localVars, historyVars
<1>1. Redo /\ ~AutoReboots
  BY RestoreAlone
<1>2. /\ target \in backups /\ lastBoot' = Name(target)
      /\ \A t \in Trees : \A x \in target.data[t] : x <= target.boot
  BY TargetHolds DEF Facts, AnchorInv, MetaIsName
<1>3. target.boot \in Boots /\ boot \in Boots /\ target.boot < boot
  BY <1>2 DEF Facts, AnchorInv, PastOnly, TypeInv, TypeOK, BackupRecords, HostTypeOK
<1>4. \A t \in Trees : live[t] = target.data[t]
  BY DEF Facts, DataInv, RestoreGoes, PutBack
<1>5. Healthy' /\ Armed' /\ FallbackSaved'
  BY <1>1, <1>2, <1>3 DEF RollInv, Healthy, Armed, FallbackSaved, ThisBoot, AutoReboots,
     Redo, Name, Boots
<1>6. KubeHeld' /\ CleanEtcd'
  BY <1>2, <1>4 DEF RollInv, KubeHeld, CleanEtcd, Name, Trees, WritesEtc, PastReady
<1> QED
  BY <1>5, <1>6 DEF RollInv

LEMMA RollClear ==
    ASSUME RestoresWhole, Facts, RollInv, ClearMarker
    PROVE  RollInv'
<1> USE DEF ClearMarker, hostVars, diskVars, localVars, historyVars
<1>1. ~AutoReboots /\ ~AutoReboots' /\ ~Redo
  BY DEF Facts, ColdInv, AutoReboots, Redo, RedoPlaces
<1>2. Healthy' /\ Armed' /\ FallbackSaved'
  BY <1>1 DEF RollInv, Healthy, Armed, FallbackSaved, ThisBoot
<1>3. KubeHeld' /\ CleanEtcd'
  BY <1>1 DEF RollInv, KubeHeld, CleanEtcd, WritesEtc, PastReady
<1> QED
  BY <1>2, <1>3 DEF RollInv

-----------------------------------------------------------------------------
(***************************************************************************)
(* A boot that goes on.                                                    *)
(***************************************************************************)
LEMMA RollSaves ==
    ASSUME Facts, RollInv, SnapshotTaken
    PROVE  RollInv'
<1> USE DEF SnapshotTaken, hostVars, diskVars, localVars, historyVars
<1>1. ~marker /\ ~Redo
  BY NoMarker
<1>2. PICK m \in 1 .. MaxTime : backups' = backups \cup {Snapshot(m)}
  OBVIOUS
<1>3. Snapshot(m).boot \in Snapshot(m).data["kubernetes"]
  BY <1>1 DEF Snapshot, SnapshotDue, Facts, AnchorInv, LocalsFresh, RollInv, KubeHeld
<1>4. Healthy' /\ Armed'
  BY DEF RollInv, Healthy, Armed, ThisBoot, AutoReboots
<1>5. KubeHeld'
  BY <1>1, <1>2, <1>3 DEF RollInv, KubeHeld, WritesEtc, PastReady
<1>6. FallbackSaved' /\ CleanEtcd'
  BY <1>1, <1>2 DEF RollInv, FallbackSaved, CleanEtcd
<1> QED
  BY <1>4, <1>5, <1>6 DEF RollInv

LEMMA RollEnsures ==
    ASSUME Facts, RollInv, Ensure \/ EnsureFails
    PROVE  RollInv'
<1> USE DEF hostVars, diskVars, localVars, historyVars, Halt
<1>1. /\ pc = "ensure" /\ pc' \in {"startKubelet", "failed"}
      /\ live'["etcd"] = live["etcd"]
      /\ live["kubernetes"] \subseteq live'["kubernetes"]
      /\ pc' = "startKubelet" => boot \in live'["kubernetes"]
      /\ UNCHANGED <<hostVars, etcAside, backups, lastBoot, marker, kubelet, historyVars>>
  BY DEF Ensure, EnsureFails, Written, Trees
<1>2. ~marker /\ ~Redo
  BY <1>1, NoMarker DEF Reconciling
<1>3. Healthy' /\ Armed' /\ FallbackSaved'
  BY <1>1 DEF RollInv, Healthy, Armed, FallbackSaved, ThisBoot, AutoReboots
<1>4. KubeHeld' /\ CleanEtcd'
  BY <1>1, <1>2 DEF RollInv, KubeHeld, CleanEtcd, WritesEtc, PastReady
<1> QED
  BY <1>3, <1>4 DEF RollInv

LEMMA RollStarts ==
    ASSUME Facts, RollInv, StartKubelet
    PROVE  RollInv'
<1> USE DEF StartKubelet, hostVars, diskVars, localVars, historyVars
<1>1. ~Redo
  BY NoMarker DEF Reconciling, ClusterPhases
<1>2. Healthy' /\ Armed' /\ FallbackSaved'
  BY DEF RollInv, Healthy, Armed, FallbackSaved, ThisBoot, AutoReboots
<1>3. KubeHeld' /\ CleanEtcd'
  BY <1>1 DEF RollInv, KubeHeld, CleanEtcd, WritesEtc, PastReady
<1> QED
  BY <1>2, <1>3 DEF RollInv

\* The newest backup of the fallback stays.
LEMMA RollPrunes ==
    ASSUME Facts, PruneInv, RollInv, PruneOne
    PROVE  RollInv'
<1> USE DEF PruneOne, hostVars, diskVars, localVars, historyVars
<1>1. ~Redo
  BY NoMarker DEF Reconciling
<1>2. PICK b \in doomed : backups' = backups \ {b}
  OBVIOUS
<1>3. FallbackSaved'
  <2> SUFFICES ASSUME counter # Unset, b.dep = fallback
               PROVE  \E c \in backups' : c.dep = fallback
    BY <1>2 DEF RollInv, FallbackSaved
  <2>1. b.dep \in Known
    BY DEF Known, Facts, TypeInv
  <2>2. PICK c \in backups \ doomed : c.dep = b.dep
    BY <2>1 DEF PruneInv, YoungerStays
  <2> QED
    BY <1>2, <2>2
<1>4. Healthy' /\ Armed'
  BY DEF RollInv, Healthy, Armed, ThisBoot, AutoReboots
<1>5. KubeHeld' /\ CleanEtcd'
  BY <1>1, <1>2 DEF RollInv, KubeHeld, CleanEtcd
<1> QED
  BY <1>3, <1>4, <1>5 DEF RollInv

\* A new image is recorded only after the one before it was saved.
LEMMA RollRecords ==
    ASSUME Facts, RollInv, Record
    PROVE  RollInv'
<1> USE DEF Record, hostVars, diskVars, localVars, historyVars
<1>1. ~Redo /\ kubelet /\ boot \in live["kubernetes"]
  BY NoMarker DEF Reconciling, RollInv, KubeHeld, WritesEtc, PastReady
<1>2. lastBoot' = ThisBoot /\ lastBoot'.boot = boot
  BY DEF ThisBoot
<1>3. FallbackSaved'
  <2> SUFFICES ASSUME counter # Unset, lastBoot.dep = fallback
               PROVE  \E b \in backups : b.dep = fallback
    BY DEF RollInv, FallbackSaved
  <2>1. OSTree /\ fallback # booted /\ fallback # 0
    BY DEF RollInv, Armed, Facts, TypeInv
  <2>2. lastBoot.dep \in Known
    BY <2>1 DEF Known
  <2>3. lastBoot.boot # boot
    BY <2>1 DEF RollInv, Healthy, ThisBoot
  <2>4. Exists(backups, lastBoot)
    BY <1>1, <2>1, <2>2, <2>3 DEF Facts, AnchorInv, Anchored
  <2> QED
    BY <2>4 DEF Exists, Name
<1>4. Healthy' /\ Armed'
  BY <1>2 DEF RollInv, Healthy, Armed, ThisBoot, AutoReboots
<1>5. KubeHeld'
  BY <1>1, <1>2 DEF RollInv, KubeHeld, WritesEtc, PastReady
<1>6. CleanEtcd'
  BY <1>2 DEF CleanEtcd, Facts, AnchorInv, PastOnly, Trees
<1> QED
  BY <1>3, <1>4, <1>5, <1>6 DEF RollInv

LEMMA RollWrites ==
    ASSUME Facts, RollInv, EtcdWrites
    PROVE  RollInv'
<1> USE DEF EtcdWrites, hostVars, localVars
<1>1. ~Redo
  BY DEF Facts, ColdInv, Redo, AutoReboots
<1>2. /\ live'["kubernetes"] = live["kubernetes"]
      /\ live'["etcd"] = live["etcd"] \cup {boot}
      /\ wroteAs'[boot] = booted
      /\ \A x \in Boots \ {boot} : wroteAs'[x] = wroteAs[x]
      /\ lastBoot.boot >= 0 /\ \A x \in live["etcd"] : x \in Boots \cup {0}
  BY DEF Facts, TypeInv, TypeOK, HostTypeOK, Trees, LastBoots, BootIds, Boots
<1>3. Healthy' /\ Armed' /\ FallbackSaved'
  BY DEF RollInv, Healthy, Armed, FallbackSaved, ThisBoot, AutoReboots
<1>4. KubeHeld' /\ CleanEtcd'
  BY <1>1, <1>2 DEF RollInv, KubeHeld, CleanEtcd
<1> QED
  BY <1>3, <1>4 DEF RollInv

-----------------------------------------------------------------------------
(***************************************************************************)
(* The host.                                                               *)
(***************************************************************************)
LEMMA RollVerdict ==
    ASSUME Facts, RollInv, Green \/ Red
    PROVE  RollInv'
<1> USE DEF localVars, historyVars, diskVars
<1>1. /\ UNCHANGED <<boot, booted, fallback, staged, newest, live, torn, etcAside,
                     backups, lastBoot, pc, localVars, kubelet, historyVars>>
      /\ counter' \in {counter, Unset}
      /\ verdict' = "green" => counter' = Unset
  BY DEF Green, Red, HostGreen, HostRed
<1>2. AutoReboots' /\ counter' = 0 => marker'
  <2>1. CASE Green
    BY <2>1 DEF Green, HostGreen, AutoReboots
  <2>2. CASE Red
    <3>1. marker' = (marker \/ RequestRestore) /\ counter' = counter
      BY <2>2 DEF Red, HostRed
    <3>2. counter = 0 => RequestRestore
      BY DEF RollInv, Armed, RequestRestore, Unset
    <3> QED
      BY <3>1, <3>2, Zenon
  <2> QED
    BY <2>1, <2>2
<1>3. Redo => Redo'
  <2>1. CASE Green
    BY <2>1 DEF Green, Redo, RedoPlaces
  <2>2. CASE Red
    <3>1. marker' = (marker \/ RequestRestore) /\ counter' = counter /\ staged' = staged
      BY <2>2 DEF Red, HostRed
    <3>2. marker => marker'
      BY <3>1, Zenon
    <3> QED
      BY <1>1, <3>1, <3>2 DEF Redo, HasBackup
  <2> QED
    BY <2>1, <2>2
<1>4. Healthy' /\ Armed' /\ FallbackSaved'
  BY <1>1, <1>2 DEF RollInv, Healthy, Armed, FallbackSaved, ThisBoot
<1>5. KubeHeld' /\ CleanEtcd'
  BY <1>1, <1>3 DEF RollInv, KubeHeld, CleanEtcd
<1> QED
  BY <1>4, <1>5 DEF RollInv

LEMMA RollStages ==
    ASSUME RestoresWhole, Facts, RollInv, StageUpgrade
    PROVE  RollInv'
<1> USE DEF StageUpgrade, Stage, localVars, historyVars, diskVars
<1>1. pc = "active" /\ OSTree
  BY DEF RestoresWhole
<1>2. ~Redo
  BY <1>1 DEF Redo, RedoPlaces
<1>3. Healthy' /\ Armed' /\ FallbackSaved'
  BY <1>1 DEF RollInv, Healthy, Armed, FallbackSaved, ThisBoot, AutoReboots
<1>4. KubeHeld' /\ CleanEtcd'
  BY <1>2 DEF RollInv, KubeHeld, CleanEtcd
<1> QED
  BY <1>3, <1>4 DEF RollInv

\* A deployment that has a backup has one to restore.
LEMMA NewestExists ==
    ASSUME TypeOK, NEW b \in backups, b.dep \in Known
    PROVE  LatestForDeployment(backups, b.dep) # {}
<1>1. CASE b \in Survivors(backups, Known)
  BY <1>1 DEF Survivors, LatestForDeployment
<1>2. CASE b \notin Survivors(backups, Known)
  BY <1>2, SurvivorExists DEF Survivors, LatestForDeployment
<1> QED
  BY <1>1, <1>2

\* The upgrade: what the old image leaves, it has recorded.
LEMMA RollUpgrades ==
    ASSUME RestoresWhole, Facts, RollInv, CleanReboot, staged # 0
    PROVE  RollInv'
<1>1. /\ pc' = "start" /\ ~kubelet' /\ staged' = 0 /\ ~AutoReboots' /\ boot' = boot + 1
      /\ UNCHANGED <<backups, lastBoot, marker, wroteAs>>
  BY UpAgain
<1>2. /\ booted' = staged /\ fallback' = booted /\ verdict' = "pending"
      /\ live' = live /\ etcAside' = ThisEtc
  BY HostAssumption DEF CleanReboot, Reboot, PowerOn, EtcCopied, Unset
<1>3. OSTree /\ lastBoot.dep = booted /\ lastBoot.boot = boot /\ ~Redo
  BY DEF RollInv, Healthy, ThisBoot, Redo
<1>4. boot \in Boots /\ booted # staged
  BY DEF Facts, TypeInv, TypeOK, HostTypeOK, DataInv, HostPart, StagedFresh
<1>5. Healthy' /\ Armed'
  BY <1>1, <1>2, <1>3, <1>4 DEF Healthy, Armed, Boots
<1>6. lastBoot.boot \in live["kubernetes"]
  BY <1>3, <1>4 DEF RollInv, KubeHeld, Boots
<1>7. KubeHeld' /\ FallbackSaved'
  BY <1>1, <1>2, <1>3, <1>6 DEF RollInv, KubeHeld, FallbackSaved, WritesEtc, PastReady,
     ThisEtc
<1>8. CleanEtcd'
  BY <1>1, <1>2, <1>3 DEF CleanEtcd, Facts, AnchorInv, PastOnly, Trees
<1> QED
  BY <1>5, <1>7, <1>8 DEF RollInv

\* Another attempt, or the fallback: with red's marker, since the power stays on.
LEMMA RollReboots ==
    ASSUME RestoresWhole, Facts, RollInv, CleanReboot, staged = 0
    PROVE  RollInv'
<1>1. /\ pc' = "start" /\ ~kubelet' /\ staged' = 0 /\ ~AutoReboots' /\ boot' = boot + 1
      /\ UNCHANGED <<backups, lastBoot, marker, wroteAs>>
  BY UpAgain
<1>2. PowerOn(booted, fallback, counter) /\ EtcFollows /\ verdict # "pending"
  BY DEF CleanReboot, Reboot
<1>3. boot \in Boots /\ lastBoot.boot \in 0 .. boot
  BY DEF Facts, TypeInv, TypeOK, HostTypeOK, AnchorInv, PastOnly, LastBoots, BootIds, Boots
<1>4. verdict' = "pending" /\ lastBoot'.boot # boot'
  BY <1>1, <1>2, <1>3 DEF PowerOn, Boots
<1>5. Healthy'
  BY <1>1, <1>4 DEF Healthy
<1>6. CASE counter = 0
  <2>1. booted' = fallback /\ counter' = Unset /\ OSTree /\ fallback # 0
    BY <1>2, <1>6 DEF PowerOn, RollInv, Armed, Unset, Facts, TypeInv
  <2>2. marker
    <3>1. verdict = "red"
      BY <1>2, <1>6 DEF Facts, TypeInv, TypeOK, HostTypeOK, RollInv, Armed, Unset
    <3> QED
      BY <1>6, <3>1 DEF RollInv, Armed, AutoReboots, Unset
  <2>3. /\ live'["etcd"] = live["etcd"]
        /\ live'["kubernetes"] = etcAside.data
    BY <1>2, <1>6 DEF EtcFollows, Facts, TypeInv, TypeOK, Trees
  <2>4. Armed' /\ FallbackSaved'
    BY <1>1, <1>4, <2>1 DEF Armed, FallbackSaved
  <2>5. CASE \E b \in backups : b.dep = fallback
    <3>1. fallback \in Known
      BY <2>1 DEF Known
    <3>2. HasBackup'
      BY <1>1, <2>1, <2>5, <3>1, NewestExists DEF HasBackup, Facts, TypeInv
    <3>3. Redo'
      BY <1>1, <2>1, <2>2, <3>2 DEF Redo, RedoPlaces
    <3> QED
      BY <1>1, <1>5, <2>4, <3>3 DEF RollInv, KubeHeld, CleanEtcd, WritesEtc, PastReady
  <2>6. CASE ~ \E b \in backups : b.dep = fallback
    <3>1. lastBoot.dep = fallback /\ lastBoot.boot \in etcAside.data
      BY <1>6, <2>6 DEF RollInv, FallbackSaved, Unset
    <3>2. ~Exists(backups, lastBoot)
      BY <2>6, <3>1 DEF Exists, Name
    <3>3. ~WrittenSince(lastBoot.boot)
      BY <2>1, <3>1, <3>2 DEF Facts, AnchorInv, RollbackAnchor, Known
    <3>4. \A x \in live["etcd"] : x <= lastBoot.boot
      <4>1. \A x \in live["etcd"] : x \in Int
        BY DEF Facts, TypeInv, TypeOK, Trees, BootIds
      <4> QED
        BY <1>3, <3>3, <4>1 DEF WrittenSince, Trees, Boots
    <3>5. CleanEtcd'
      BY <1>1, <2>3, <3>4 DEF CleanEtcd
    <3>6. KubeHeld'
      BY <1>1, <2>3, <3>1 DEF RollInv, KubeHeld, WritesEtc, PastReady
    <3> QED
      BY <1>5, <2>4, <3>5, <3>6 DEF RollInv
  <2> QED
    BY <2>5, <2>6
<1>7. CASE counter # 0
  <2>1. /\ booted' = booted /\ fallback' = fallback
        /\ counter = Unset => counter' = Unset
        /\ counter # Unset => counter' # Unset
        /\ UNCHANGED <<live, etcAside>>
    BY <1>2, <1>7 DEF PowerOn, EtcFollows, Facts, TypeInv, TypeOK, HostTypeOK, Unset
  <2>2. Redo => Redo'
    BY <1>1, <2>1 DEF Redo, RedoPlaces, HasBackup
  <2>3. Armed' /\ FallbackSaved'
    BY <1>1, <1>4, <2>1 DEF RollInv, Armed, FallbackSaved
  <2>4. KubeHeld' /\ CleanEtcd'
    BY <1>1, <2>1, <2>2 DEF RollInv, KubeHeld, CleanEtcd, WritesEtc, PastReady
  <2> QED
    BY <1>5, <2>3, <2>4 DEF RollInv
<1> QED
  BY <1>6, <1>7

-----------------------------------------------------------------------------
LEMMA RollStep == PowerStays /\ Facts /\ PruneInv /\ RollInv /\ [Next]_vars => RollInv'
<1> SUFFICES ASSUME PowerStays, Facts, PruneInv, RollInv, [Next]_vars PROVE RollInv'
  OBVIOUS
<1>0. RestoresWhole
  BY DEF PowerStays
<1>1. CASE BeginRestore \/ WipeTree \/ SwapTree \/ RestoreMeta \/ RestoreFails \/ ClearMarker
  BY <1>0, <1>1, RollRestores, RollMeta, NoFailure, RollClear
<1>2. CASE \/ SnapshotTaken \/ Ensure \/ EnsureFails \/ StartKubelet \/ PruneOne
           \/ Record \/ EtcdWrites
  BY <1>2, RollSaves, RollEnsures, RollStarts, RollPrunes, RollRecords, RollWrites
<1>3. CASE PrunePartly \/ PowerLoss
  BY <1>3 DEF PrunePartly, PowerLoss, PowerStays, RestoresWhole
<1>4. CASE Green \/ Red \/ StageUpgrade
  BY <1>0, <1>4, RollVerdict, RollStages
<1>5. CASE CleanReboot
  BY <1>0, <1>5, RollUpgrades, RollReboots
<1> QED
  BY <1>1, <1>2, <1>3, <1>4, <1>5, RollMoves DEF Next, BootStep, HostStep

LEMMA RollInit == Init => RollInv
<1> SUFFICES ASSUME Init PROVE RollInv
  OBVIOUS
<1> USE DEF Init, HostInit, NoLastBoot
<1>1. Healthy /\ Armed
  BY DEF Healthy, Armed, AutoReboots
<1>2. KubeHeld /\ FallbackSaved /\ CleanEtcd
  BY DEF KubeHeld, FallbackSaved, CleanEtcd, WritesEtc, PastReady, Trees
<1> QED
  BY <1>1, <1>2 DEF RollInv

\* What makes a rollback safe holds from boot to boot: red.d's marker after the
\* last attempt (40-nanok8s-pre-rollback.sh:15), and a backup for maybeRestore
\* to put back, or none needed.
THEOREM RollInvariant == ASSUME PowerStays PROVE Spec => [](Facts /\ RollInv)
<1>0. RestoresWhole /\ RemovesWhole
  BY DEF PowerStays, RestoresWhole, RemovesWhole
<1>1. Init => PruneInv /\ RollInv
  BY RollInit DEF Init, PruneInv, TimesFollowBoots, YoungerStays
<1>2. Facts /\ PruneInv /\ RollInv /\ [Next]_vars => (PruneInv /\ RollInv)'
  BY <1>0, PruneInvStep, RollStep DEF Facts
<1>3. Spec => []Facts
  BY <1>0, FactsInvariant
<1> QED
  BY <1>1, <1>2, <1>3, PTL DEF Spec

\* While the power stays on, backup.Create (backup.go:85-137) saves what the
\* boot it names wrote in all three trees, /etc/kubernetes included.
THEOREM SnapshotsComplete == ASSUME PowerStays PROVE Spec => []SnapshotComplete
<1>1. Facts /\ RollInv => SnapshotComplete
  BY DEF Facts, DataInv, DataPart, BackupsWhole, RollInv, KubeHeld, SnapshotComplete, Trees
<1> QED
  BY <1>1, RollInvariant, PTL

\* The kubelet (boot.go:124) never brings up an etcd that the image rolled back
\* from wrote to: red.d's marker is there, and maybeRestore has put the backup
\* back, or nothing was written.
THEOREM RollbackClean == ASSUME PowerStays PROVE Spec => []RolledBackDataIsClean
<1>1. Facts /\ RollInv => RolledBackDataIsClean
  <2> SUFFICES ASSUME Facts, RollInv, pc = "startKubelet"
               PROVE  \A x \in live["etcd"] : x <= lastBoot.boot \/ wroteAs[x] = booted
    BY DEF RolledBackDataIsClean
  <2>1. ~Redo
    BY NoMarker DEF Reconciling, ClusterPhases
  <2> QED
    BY <2>1 DEF RollInv, CleanEtcd
<1> QED
  BY <1>1, RollInvariant, PTL
-----------------------------------------------------------------------------
(***************************************************************************)
(* The refinement: what each step of a node's boots is to SnapshotStore.   *)
(***************************************************************************)
LEMMA SavedTypes ==
    ASSUME TypeInv, NEW b \in backups
    PROVE  /\ Name(b) \in [dep : Images, boot : Boots]
           /\ Name(b).dep = b.dep /\ b.dep \in Images
           /\ SavedAs(b).name = Name(b)
           /\ SavedAs(b).data = b.data
           /\ b.data \in [Trees -> SUBSET BootIds]
           /\ b.mtime \in Int
<1>1. b \in BackupRecords
  BY DEF TypeInv, TypeOK
<1>2. b.mtime \in 1 .. MaxTime
  BY <1>1 DEF BackupRecords
<1> QED
  BY <1>1, <1>2 DEF BackupRecords, Name, SavedAs

\* Who was taken before whom, without the pairs.
LEMMA WasTakenBefore ==
    ASSUME NEW B, NEW n
    PROVE  n \in TakenBefore(B) <=>
              \E b, c \in B : n = <<Name(b), Name(c)>> /\ b.mtime < c.mtime
<1>1. ASSUME NEW b \in B, NEW c \in B, b.mtime < c.mtime, n = <<Name(b), Name(c)>>
      PROVE  n \in TakenBefore(B)
  <2>1. <<b, c>> \in {q \in B \X B : q[1].mtime < q[2].mtime}
    BY <1>1
  <2> QED
    BY <1>1, <2>1 DEF TakenBefore
<1>2. ASSUME n \in TakenBefore(B)
      PROVE  \E b, c \in B : n = <<Name(b), Name(c)>> /\ b.mtime < c.mtime
  <2>1. PICK p \in B \X B : p[1].mtime < p[2].mtime /\ n = <<Name(p[1]), Name(p[2])>>
    BY <1>2 DEF TakenBefore
  <2>2. p[1] \in B /\ p[2] \in B
    BY <2>1
  <2> QED
    BY <2>1, <2>2
<1> QED
  BY <1>1, <1>2

\* The promise sees the backups change only when they do ...
LEMMA SameSaved == backups' = backups => Saved' = Saved
BY DEF Saved, SavedAs, Name

\* ... and the live trees.
LEMMA SameSeen == UNCHANGED <<live, torn>> => SeenLive' = SeenLive
BY DEF SeenLive

LEMMA SeenTypes == TypeInv => SeenLive \in [Trees -> {Half} \cup SUBSET BootIds]
<1> SUFFICES ASSUME TypeInv PROVE SeenLive \in [Trees -> {Half} \cup SUBSET BootIds]
  OBVIOUS
<1>1. \A t \in Trees : live[t] \in SUBSET BootIds
  BY DEF TypeInv, TypeOK
<1> QED
  BY <1>1 DEF SeenLive

\* The backup LatestForDeployment picks is the promise's latest snapshot.
LEMMA NewestIsLatest ==
    ASSUME TypeInv, NamesUnique, NEW b \in backups
    PROVE  Store!IsLatest(SavedAs(b)) <=> IsNewest(b, backups)
<1>1. ASSUME NEW c \in backups
      PROVE  <<Name(b), Name(c)>> \in TakenBefore(backups) <=> ~(c.mtime <= b.mtime)
  <2>1. b.mtime \in Int /\ c.mtime \in Int
    BY SavedTypes
  <2>2. ASSUME <<Name(b), Name(c)>> \in TakenBefore(backups) PROVE b.mtime < c.mtime
    <3>1. PICK p \in backups, q \in backups :
             p.mtime < q.mtime /\ <<Name(b), Name(c)>> = <<Name(p), Name(q)>>
      BY <2>2, WasTakenBefore
    <3> QED
      BY <3>1 DEF NamesUnique
  <2>3. b.mtime < c.mtime => <<Name(b), Name(c)>> \in TakenBefore(backups)
    BY WasTakenBefore
  <2> QED
    BY <2>1, <2>2, <2>3
<1>2. Store!IsLatest(SavedAs(b)) <=>
         \A c \in backups : c.dep = b.dep => <<Name(b), Name(c)>> \notin TakenBefore(backups)
  BY SavedTypes DEF Store!IsLatest, Saved
<1> QED
  BY <1>1, <1>2 DEF IsNewest

LEMMA SnapshotIsTake ==
    ASSUME Facts, SnapshotTaken
    PROVE  \E n \in [dep : Images, boot : Boots] : Store!Take(n)
<1> USE DEF hostVars, localVars
<1>1. PICK m \in 1 .. MaxTime : IsNow(m, backups) /\ backups' = backups \cup {Snapshot(m)}
  BY DEF SnapshotTaken
<1> DEFINE new == Snapshot(m)
<1>2. /\ prev \in LastBoots /\ prev.dep # 0 /\ prev.boot # 0
      /\ ~Exists(backups, prev)
  BY DEF SnapshotTaken, SnapshotDue, Facts, TypeInv, TypeOK
<1>3. prev \in [dep : Images, boot : Boots] /\ prev = [dep |-> prev.dep, boot |-> prev.boot]
  BY <1>2, HostAssumption DEF LastBoots, BootIds, Images, Boots
<1>4. Name(new) = prev /\ new.mtime = m /\ new.data = live
  BY <1>3 DEF Snapshot, Name
<1>5. SeenLive = live
  BY NoMarker DEF SnapshotTaken, SeenLive, Facts, TypeInv, TypeOK
<1>6. SavedAs(new) = [name |-> prev, data |-> SeenLive]
  BY <1>4, <1>5 DEF SavedAs
<1> HIDE DEF new
<1>7. backups' = backups \cup {new}
  BY <1>1 DEF new
<1>8. \A b \in backups : b.mtime < m /\ ~(m < b.mtime)
  BY <1>1, SavedTypes DEF IsNow, Facts
<1>9. Saved' = Saved \cup {[name |-> prev, data |-> SeenLive]}
  BY <1>6, <1>7 DEF Saved
<1>10. TakenBefore(backups') = TakenBefore(backups) \cup {<<s.name, prev>> : s \in Saved}
  <2>1. \A n : n \in {<<s.name, prev>> : s \in Saved} <=>
                  \E b \in backups : n = <<Name(b), prev>>
    <3>1. \A b \in backups : SavedAs(b).name = Name(b)
      BY SavedTypes DEF Facts
    <3> QED
      BY <3>1 DEF Saved
  <2>2. ASSUME NEW n
        PROVE  n \in TakenBefore(backups') <=>
                  n \in TakenBefore(backups) \/ \E b \in backups : n = <<Name(b), prev>>
    <3>1. n \in TakenBefore(backups') <=>
             \E b, c \in backups' : n = <<Name(b), Name(c)>> /\ b.mtime < c.mtime
      BY WasTakenBefore
    <3>2. ~(new.mtime < new.mtime)
      BY <1>4
    <3>3. n \in TakenBefore(backups') <=>
             \/ \E b, c \in backups : n = <<Name(b), Name(c)>> /\ b.mtime < c.mtime
             \/ \E b \in backups : n = <<Name(b), Name(new)>> /\ b.mtime < new.mtime
             \/ \E c \in backups : n = <<Name(new), Name(c)>> /\ new.mtime < c.mtime
      BY <1>7, <3>1, <3>2
    <3> QED
      BY <1>4, <1>8, <3>3, WasTakenBefore
  <2> QED
    BY <2>1, <2>2
<1>11. \A s \in Saved : s.name # prev
  BY <1>2, SavedTypes DEF Exists, Saved, Facts
<1>12. /\ BeingPutBack = {} /\ BeingPutBack' = {} /\ Reported' = Reported
       /\ NotForgotten' = NotForgotten /\ SeenLive' = SeenLive
  BY SameSeen DEF SnapshotTaken, BeingPutBack, Reported, NotForgotten, Known
<1> QED
  BY <1>3, <1>9, <1>10, <1>11, <1>12 DEF Store!Take

LEMMA PruneIsDrop ==
    ASSUME Facts, PruneInv, PruneOne PROVE \E s \in Saved : Store!Drop(s)
<1> USE DEF hostVars
<1>1. PICK b \in doomed : NextDoomed(b) /\ backups' = backups \ {b}
  BY DEF PruneOne
<1>2. b \in backups /\ pc = "pruning" /\ pc' = "pruning"
  BY <1>1 DEF PruneOne, Facts, AnchorInv, LocalsFresh
<1>3. b.dep \notin NotForgotten \/ ~IsNewest(b, backups)
  <2>1. CASE b.dep \in Known
    <3>1. PICK c \in backups : c.dep = b.dep /\ b.mtime < c.mtime
      BY <1>1, <1>2, <2>1 DEF PruneInv, YoungerStays
    <3>2. ~(c.mtime <= b.mtime)
      BY <1>2, <3>1, SavedTypes DEF Facts
    <3> QED
      BY <3>1, <3>2 DEF IsNewest
  <2>2. CASE b.dep \notin Known
    <3>1. b.dep <= newest /\ b.dep \in Images /\ newest \in Images
      BY <1>2, SavedTypes DEF Facts, AnchorInv, PastOnly, TypeInv, TypeOK, HostTypeOK
    <3>2. ~(b.dep > newest)
      BY <3>1, HostAssumption DEF Images
    <3> QED
      BY <2>2, <3>2 DEF NotForgotten
  <2> QED
    BY <2>1, <2>2
<1>4. SavedAs(b) \in Saved /\ SavedAs(b).name = Name(b) /\ Name(b).dep = b.dep
  BY <1>2, SavedTypes DEF Saved, Facts
<1>5. b.dep \notin NotForgotten \/ ~Store!IsLatest(SavedAs(b))
  BY <1>2, <1>3, NewestIsLatest DEF Facts, AnchorInv
<1>6. \A c \in backups : Name(c) = Name(b) <=> c = b
  BY <1>2 DEF Facts, AnchorInv, NamesUnique
<1>7. Saved' = Saved \ {SavedAs(b)}
  <2>1. \A c \in backups : SavedAs(c) = SavedAs(b) <=> c = b
    BY <1>2, <1>6, SavedTypes DEF Facts
  <2>2. Saved' = {SavedAs(c) : c \in backups \ {b}}
    BY <1>1 DEF Saved, SavedAs, Name
  <2> QED
    BY <2>1, <2>2 DEF Saved
<1>8. TakenBefore(backups') = {p \in TakenBefore(backups) : Name(b) \notin {p[1], p[2]}}
  <2>1. ASSUME NEW n
        PROVE  n \in TakenBefore(backups') <=>
                  n \in TakenBefore(backups) /\ Name(b) \notin {n[1], n[2]}
    BY <1>1, <1>2, <1>6, WasTakenBefore
  <2> QED
    BY <2>1
<1>9. /\ BeingPutBack = {} /\ BeingPutBack' = {} /\ Reported' = Reported
      /\ NotForgotten' = NotForgotten /\ SeenLive' = SeenLive
  BY <1>2, SameSeen DEF PruneOne, BeingPutBack, Reported, NotForgotten, Known
<1> QED
  BY <1>4, <1>5, <1>7, <1>8, <1>9 DEF Store!Drop

\* Only deployments nobody can boot are forgotten.
LEMMA RestoreIsBegun ==
    ASSUME Facts, BeginRestore PROVE \E s \in Saved : Store!BeginRestore(s)
<1> USE DEF hostVars, diskVars
<1>1. target' \in backups /\ target'.dep = booted /\ IsNewest(target', backups)
  BY DEF BeginRestore, LatestForDeployment
<1>2. booted \in NotForgotten
  BY DEF NotForgotten, Known, Facts, TypeInv, TypeOK, HostTypeOK, Images
<1>3. /\ SavedAs(target') \in Saved
      /\ SavedAs(target').name.dep \in NotForgotten
      /\ Store!IsLatest(SavedAs(target'))
  BY <1>1, <1>2, SavedTypes, NewestIsLatest DEF Saved, Facts, AnchorInv
<1>4. BeingPutBack = {} /\ BeingPutBack' = {SavedAs(target')}
  BY DEF BeginRestore, BeingPutBack, SavedAs, Name
<1>5. /\ Saved' = Saved /\ TakenBefore(backups') = TakenBefore(backups)
      /\ Reported' = Reported /\ NotForgotten' = NotForgotten /\ SeenLive' = SeenLive
  BY SameSaved, SameSeen DEF BeginRestore, Reported, NotForgotten, Known
<1> QED
  BY <1>3, <1>4, <1>5 DEF Store!BeginRestore

LEMMA WipeIsBreak ==
    ASSUME Facts, WipeTree PROVE Store!Break(tree)
<1> USE DEF hostVars, localVars
<1>1. SeenLive' = [SeenLive EXCEPT ![tree] = Half]
  <2>1. \A t \in Trees \ {tree} : live'[t] = live[t] /\ (t \in torn' <=> t \in torn)
    BY DEF WipeTree, Facts, TypeInv, TypeOK
  <2>2. tree \in torn' /\ tree \in Trees
    BY DEF WipeTree, Facts, TypeInv, TypeOK
  <2> QED
    BY <2>1, <2>2 DEF SeenLive
<1>2. BeingPutBack # {} /\ BeingPutBack' = BeingPutBack
  BY DEF WipeTree, BeingPutBack, SavedAs, Name
<1>3. /\ Saved' = Saved /\ TakenBefore(backups') = TakenBefore(backups)
      /\ Reported' = Reported /\ NotForgotten' = NotForgotten
  BY SameSaved DEF WipeTree, Reported, NotForgotten, Known
<1> QED
  BY <1>1, <1>2, <1>3 DEF Store!Break

LEMMA SwapIsPutBack ==
    ASSUME Facts, SwapTree
    PROVE  \E s \in BeingPutBack : Store!PutBack(s, tree)
<1> USE DEF hostVars
<1>1. /\ BeingPutBack = {SavedAs(target)}
      /\ SavedAs(target).data = target.data
      /\ target.data \in [Trees -> SUBSET BootIds]
      /\ tree \in Trees
  BY TargetHolds, SavedTypes
     DEF SwapTree, BeingPutBack, Facts, TypeInv, TypeOK
<1>2. SeenLive' = [SeenLive EXCEPT ![tree] = target.data[tree]]
  <2>1. \A t \in Trees \ {tree} : live'[t] = live[t] /\ (t \in torn' <=> t \in torn)
    BY DEF SwapTree, Facts, TypeInv, TypeOK
  <2>2. tree \notin torn' /\ live'[tree] = target.data[tree]
    BY <1>1 DEF SwapTree, Facts, TypeInv, TypeOK
  <2> QED
    BY <1>1, <2>1, <2>2 DEF SeenLive
<1>3. /\ Saved' = Saved /\ TakenBefore(backups') = TakenBefore(backups)
      /\ NotForgotten' = NotForgotten
  BY SameSaved DEF SwapTree, NotForgotten, Known
<1>4. CASE tree # "kubelet"
  <2>1. BeingPutBack' = BeingPutBack /\ Reported' = Reported
    BY <1>4 DEF SwapTree, BeingPutBack, Reported, SavedAs, Name
  <2> QED
    BY <1>1, <1>2, <1>3, <2>1 DEF Store!PutBack
<1>5. CASE tree = "kubelet"
  <2>1. BeingPutBack' = {} /\ Reported' = "ok"
    BY <1>5 DEF SwapTree, BeingPutBack, Reported
  <2>2. \A t \in {"etcd", "kubernetes"} : SeenLive[t] = target.data[t]
    BY <1>5 DEF SwapTree, SeenLive, Trees, Facts, DataInv, RestoreGoes, PutBack
  <2>3. \A t \in Trees : SeenLive'[t] = target.data[t]
    BY <1>1, <1>2, <1>5, <2>2 DEF Trees, SeenLive
  <2>4. SeenLive' = target.data
    BY <1>1, <2>3 DEF SeenLive
  <2> QED
    BY <1>1, <1>2, <1>3, <2>1, <2>4 DEF Store!PutBack
<1> QED
  BY <1>4, <1>5

\* A restore is cut short where its deployment will be booted again, and where
\* no other /etc comes up.
LEMMA CutIsGivenUp ==
    ASSUME Facts, pc = "restore", ServiceKilled \/ PowerLoss
    PROVE  Store!GiveUp
<1> USE DEF Fail, Halt, hostVars, diskVars
<1>1. staged = 0 /\ counter = Unset
  BY RestoreAlone DEF Redo
<1>2. /\ UNCHANGED <<live, torn, backups, booted, fallback, staged, newest>>
      /\ pc' \in {"failed", "start"}
  <2>1. CASE ServiceKilled
    BY <2>1 DEF ServiceKilled
  <2>2. CASE PowerLoss
    BY <1>1, <2>2 DEF PowerLoss, PowerCut, PowerOn, EtcFollows, ComesUp, Unset
  <2> QED
    BY <2>1, <2>2
<1>3. BeingPutBack # {} /\ BeingPutBack' = {} /\ Reported' = "none"
  BY <1>2 DEF BeingPutBack, Reported
<1>4. /\ Saved' = Saved /\ TakenBefore(backups') = TakenBefore(backups)
      /\ NotForgotten' = NotForgotten /\ SeenLive' = SeenLive
  BY <1>2, SameSaved, SameSeen DEF NotForgotten, Known
<1> QED
  BY <1>3, <1>4 DEF Store!GiveUp

\* An id never comes back once ostree has forgotten it.
LEMMA OnlyForgotten ==
    ASSUME Facts, [Next]_vars PROVE NotForgotten' \subseteq NotForgotten
<1> USE DEF Goto, Fail, Halt, hostVars, diskVars
<1>1. CASE StageUpgrade \/ CleanReboot \/ PowerLoss
  <2>1. /\ newest <= newest'
        /\ \A d \in 0 .. newest : d \in Known' => d \in Known
    BY <1>1, HostMoves DEF Facts, AnchorInv, StageUpgrade, CleanReboot, PowerLoss
  <2>2. newest \in Int /\ newest' \in Int
    <3>1. newest' \in {newest, newest + 1}
      BY <1>1 DEF StageUpgrade, Stage, CleanReboot, Reboot, PowerLoss, PowerCut, PowerOn
    <3> QED
      BY <3>1, HostAssumption DEF Facts, TypeInv, TypeOK, HostTypeOK, Images
  <2>3. \A d \in Images : d \in Int /\ (d <= newest => d \in 0 .. newest)
    BY <2>2, HostAssumption DEF Images
  <2>4. ASSUME NEW d \in Images, d \in Known' \/ d > newest'
        PROVE  d \in Known \/ d > newest
    BY <2>1, <2>2, <2>3, <2>4
  <2> QED
    BY <2>4 DEF NotForgotten
<1>2. CASE \/ BootStep \/ EtcdWrites \/ ServiceKilled \/ RestartService \/ Green \/ Red
           \/ UNCHANGED vars
  <2>1. UNCHANGED <<booted, fallback, staged, newest>>
    BY <1>2 DEF BootStep, Detect, EarlyError, NoRestoreRequested, NoBackupToRestore,
       BeginRestore, WipeTree, SwapTree, RestoreMeta, RestoreFails, ClearMarker,
       ReadLastBoot, SnapshotSkipped, SnapshotTaken, SnapshotFails, Ensure, EnsureFails,
       StartKubelet, WaitReadyz, EnsureAdminRBAC, WaitControlPlane, MarkControlPlane,
       PhaseFails, EnsureAddons, PruneSkipped, PruneBegin, PrunePartly, PruneOne,
       PruneEnds, Record, RecordFails, Announce, EtcdWrites, ServiceKilled,
       RestartService, Green, HostGreen, Red, HostRed, vars
  <2> QED
    BY <2>1 DEF NotForgotten, Known
<1> QED
  BY <1>1, <1>2 DEF Next, HostStep

\* With nothing being put back, what is left to the steps of a node is what the
\* promise leaves to others.
LEMMA OtherIsElsewhere ==
    ASSUME RestoresWhole, Facts, TypeInv', Next, pc # "restore",
           ~SnapshotTaken, ~PruneOne, ~BeginRestore
    PROVE  Store!Elsewhere
<1> USE DEF Goto, Fail, Halt, hostVars, diskVars, localVars
<1>1. ~PrunePartly /\ (EtcdWrites => pc # "meta")
  BY RestoreAlone DEF RestoresWhole, PrunePartly, EtcdWrites
<1>2. backups' = backups /\ pc' \notin {"restore", "meta"}
  BY <1>1 DEF Next, BootStep, HostStep, Detect, EarlyError, NoRestoreRequested,
     NoBackupToRestore, WipeTree, SwapTree, RestoreMeta, RestoreFails, ClearMarker,
     ReadLastBoot, SnapshotSkipped, SnapshotFails, Ensure, EnsureFails, StartKubelet,
     WaitReadyz, EnsureAdminRBAC, WaitControlPlane, MarkControlPlane, PhaseFails,
     ClusterPhases, EnsureAddons, PruneSkipped, PruneBegin, PruneEnds, Record,
     RecordFails, Announce, EtcdWrites, ServiceKilled, RestartService, Green, Red,
     StageUpgrade, CleanReboot, PowerLoss, ComesUp, Ended
<1>3. BeingPutBack = {} /\ BeingPutBack' = {} /\ Reported' = "none"
  BY <1>2 DEF BeingPutBack, Reported
<1>4. Saved' = Saved /\ TakenBefore(backups') = TakenBefore(backups)
  BY <1>2, SameSaved
<1>5. NotForgotten' \subseteq NotForgotten
  BY OnlyForgotten
<1>6. SeenLive' \in [Trees -> {Half} \cup SUBSET BootIds]
  <2>1. \A t \in Trees : live'[t] \in SUBSET BootIds
    BY DEF TypeInv, TypeOK
  <2> QED
    BY <2>1 DEF SeenLive
<1> QED
  BY <1>3, <1>4, <1>5, <1>6 DEF Store!Elsewhere

LEMMA StepKeepsPromise ==
    ASSUME RestoresWhole, Facts, PruneInv, TypeInv', [Next]_vars
    PROVE  [Store!Next]_(Store!vars)
<1>1. CASE SnapshotTaken \/ PruneOne \/ BeginRestore
  BY <1>1, SnapshotIsTake, PruneIsDrop, RestoreIsBegun DEF Store!Next
<1>2. CASE WipeTree \/ SwapTree
  <2>1. tree \in Trees
    BY DEF Facts, TypeInv, TypeOK
  <2> QED
    BY <1>2, <2>1, WipeIsBreak, SwapIsPutBack DEF Store!Next
<1>3. CASE pc = "restore" /\ (ServiceKilled \/ PowerLoss)
  BY <1>3, CutIsGivenUp DEF Store!Next
<1>4. ASSUME Next, pc = "restore" PROVE WipeTree \/ SwapTree \/ ServiceKilled \/ PowerLoss
  <2>1. ~RestoreFails /\ ~EtcdWrites
    BY <1>4, NoFailure, RestoreAlone DEF EtcdWrites
  <2> QED
    BY <1>4, <2>1 DEF Next, BootStep, HostStep, Goto, Detect, EarlyError,
       NoRestoreRequested, NoBackupToRestore, BeginRestore, RestoreMeta, ClearMarker,
       ReadLastBoot, SnapshotSkipped, SnapshotTaken, SnapshotFails, Ensure, EnsureFails,
       StartKubelet, WaitReadyz, EnsureAdminRBAC, WaitControlPlane, MarkControlPlane,
       PhaseFails, ClusterPhases, EnsureAddons, PruneSkipped, PruneBegin, PrunePartly,
       PruneOne, PruneEnds, Record, RecordFails, Announce, RestartService, Green, Red,
       StageUpgrade, CleanReboot, Ended
<1>5. CASE /\ Next /\ pc # "restore"
           /\ ~SnapshotTaken /\ ~PruneOne /\ ~BeginRestore
  BY <1>5, OtherIsElsewhere DEF Store!Next
<1>6. CASE UNCHANGED vars
  <2>1. UNCHANGED <<Saved, SeenLive, BeingPutBack, Reported, NotForgotten>>
    BY <1>6, SameSaved, SameSeen DEF vars, hostVars, diskVars, localVars, BeingPutBack,
       Reported, NotForgotten, Known, SavedAs, Name
  <2>2. TakenBefore(backups') = TakenBefore(backups)
    BY <1>6 DEF vars, diskVars
  <2> QED
    BY <2>1, <2>2 DEF Store!vars
<1> QED
  BY <1>1, <1>2, <1>3, <1>4, <1>5, <1>6

\* Across boots, upgrades, fallbacks and crashes, what boot.go does with the
\* backups (boot.go:102-107, 156-162, 198-237) is what SnapshotStore promises, as
\* long as a restore that is left to run succeeds.
THEOREM NodeKeepsPromise == ASSUME RestoresWhole PROVE Spec => StorePromiseKept
<1>0. RemovesWhole
  BY DEF RestoresWhole, RemovesWhole
<1>1. Init => PruneInv
  BY DEF Init, PruneInv, TimesFollowBoots, YoungerStays
<1>2. Facts /\ PruneInv /\ [Next]_vars => PruneInv'
  BY <1>0, PruneInvStep DEF Facts
<1>3. Init => Store!Init
  <2> SUFFICES ASSUME Init PROVE Store!Init
    OBVIOUS
  <2>1. SeenLive \in [Trees -> {Half} \cup SUBSET BootIds]
    BY TypeInit, SeenTypes
  <2>2. Saved = {} /\ BeingPutBack = {} /\ Reported = "none"
    BY DEF Init, Saved, BeingPutBack, Reported
  <2>3. TakenBefore(backups) = {}
    BY WasTakenBefore DEF Init
  <2>4. NotForgotten = Images
    BY HostAssumption DEF Init, HostInit, NotForgotten, Known, Images
  <2> QED
    BY <2>1, <2>2, <2>3, <2>4 DEF Store!Init
<1>4. Facts /\ PruneInv /\ Facts' /\ [Next]_vars => [Store!Next]_(Store!vars)
  BY StepKeepsPromise DEF Facts
<1>5. Spec => []Facts
  BY FactsInvariant
<1> QED
  BY <1>1, <1>2, <1>3, <1>4, <1>5, PTL DEF Spec, StorePromiseKept, Store!Spec
================================================================================
