-------------------------- MODULE NodeBootData_proofs --------------------------
(***************************************************************************)
(* What the disk holds, for every number of images, boots and attempts:    *)
(* no reconcile runs over half-restored trees or over trees of different   *)
(* clusters, and snapshots have the data they are named after, wherever    *)
(* the service dies or the power goes.                                     *)
(***************************************************************************)
EXTENDS NodeBoot_proofs

\* No directory is removed in part, restores do not fail (though they may be
\* killed), the marker can be removed, and only healthy nodes upgrade.
RestoresWhole == Faults \cap {"restore", "remove", "clear", "eager"} = {}

\* The facts the steps below start from.
Facts == TypeInv /\ AnchorInv /\ MarkerInv /\ ColdInv /\ DataInv

-----------------------------------------------------------------------------
\* Steps that change nothing but where Boot stands, and its variables.
LEMMA DataKept ==
    ASSUME Facts,
           UNCHANGED <<hostVars, diskVars, kubelet, historyVars>>,
           \/ pc' \notin {"restore", "meta"} /\ tree' = "etcd"
           \/ UNCHANGED <<pc, target, tree>>,
           marker => pc' \in RedoPlaces \cup {"clearThenGo"},
           Redo => pc' \in RedoPlaces,
           pc' \in {"announce", "active"} => lastBoot.dep \in {0, booted},
           pc' \in PastReady \cup {"startKubelet", "readyz"} => boot \in live["kubelet"],
           pc' \in PastReady => boot \in live["etcd"]
    PROVE  DataInv'
<1> USE DEF hostVars, diskVars, historyVars
<1>0. Known' = Known /\ HasBackup' = HasBackup /\ AutoReboots' = AutoReboots
  BY DEF Known, HasBackup, AutoReboots
<1>1. \A S : Clusters(S)' = Clusters(S)
  BY DEF Clusters
<1>2. HostPart'
  BY <1>0 DEF Facts, DataInv, HostPart, MarkerAlone, LastBootKnown, StagedFresh
<1>3. Redo => Redo'
  BY <1>0 DEF Redo
<1>4. DataPart'
  BY <1>0, <1>3 DEF Facts, DataInv, DataPart, BackupsWhole, LiveWhole, AsideWhole,
     SameCluster, Clusters
<1>5. RestoreGoes'
  BY <1>3 DEF Facts, DataInv, RestoreGoes, PutBack
<1>6. BootWrote' /\ EtcdWrote'
  BY DEF Facts, DataInv, BootWrote, EtcdWrote
<1> QED
  BY <1>2, <1>4, <1>5, <1>6 DEF DataInv

LEMMA MovesOn ==
    ASSUME RestoresWhole, Facts,
           \/ Detect \/ EarlyError \/ NoRestoreRequested \/ NoBackupToRestore
           \/ ReadLastBoot \/ SnapshotSkipped \/ SnapshotFails \/ WaitReadyz
           \/ EnsureAdminRBAC \/ WaitControlPlane \/ MarkControlPlane \/ PhaseFails
           \/ EnsureAddons \/ PruneSkipped \/ PruneBegin \/ PruneEnds \/ RecordFails
           \/ Announce \/ ServiceKilled \/ RestartService \/ UNCHANGED vars
    PROVE  DataInv'
<1> USE DEF Goto, Fail, Halt, RedoPlaces, PastReady
<1>0. /\ marker => OSTree
      /\ pc \in Reconciling \cup {"readLastBoot", "snapshot"} => ~marker
      /\ pc \notin {"restore", "meta"} => tree = "etcd"
      /\ marker => pc \in RedoPlaces \cup {"clearThenGo"}
      /\ Redo => marker /\ HasBackup /\ pc \in RedoPlaces
      /\ pc \in {"announce", "active"} => lastBoot.dep \in {0, booted}
      /\ pc \in PastReady \cup {"startKubelet", "readyz"} => boot \in live["kubelet"]
      /\ pc \in PastReady => boot \in live["etcd"]
  BY DEF Facts, MarkerInv, DataInv, HostPart, MarkerAlone, LastBootKnown, RestoreGoes,
     BootWrote, Redo
<1>1. CASE Detect \/ EarlyError \/ NoRestoreRequested
  BY <1>0, <1>1, DataKept DEF Detect, EarlyError, NoRestoreRequested, localVars
<1>2. CASE NoBackupToRestore
  BY <1>0, <1>2, DataKept DEF NoBackupToRestore, HasBackup, localVars
<1>3. CASE ReadLastBoot \/ SnapshotSkipped \/ SnapshotFails
  BY <1>0, <1>3, DataKept DEF ReadLastBoot, SnapshotSkipped, SnapshotFails, localVars
<1>4. CASE WaitReadyz \/ EnsureAdminRBAC \/ WaitControlPlane \/ MarkControlPlane \/ PhaseFails
  BY <1>0, <1>4, DataKept DEF WaitReadyz, EnsureAdminRBAC, WaitControlPlane,
     MarkControlPlane, PhaseFails, ClusterPhases, Reconciling, localVars
<1>5. CASE EnsureAddons \/ PruneSkipped \/ PruneBegin \/ PruneEnds
  BY <1>0, <1>5, DataKept DEF EnsureAddons, PruneSkipped, PruneBegin, PruneEnds,
     ClusterPhases, Reconciling, localVars
<1>6. CASE RecordFails \/ Announce
  BY <1>0, <1>6, DataKept DEF RecordFails, Announce, Reconciling
<1>7. CASE ServiceKilled
  BY <1>0, <1>7, DataKept DEF ServiceKilled
<1>8. CASE RestartService
  BY <1>0, <1>8, DataKept DEF RestartService, Ended, localVars
<1>9. CASE UNCHANGED vars
  BY <1>0, <1>9, DataKept DEF vars, localVars
<1> QED
  BY <1>1, <1>2, <1>3, <1>4, <1>5, <1>6, <1>7, <1>8, <1>9

-----------------------------------------------------------------------------
(***************************************************************************)
(* The restore.                                                            *)
(***************************************************************************)
LEMMA BeginStep ==
    ASSUME RestoresWhole, Facts, BeginRestore
    PROVE  DataInv'
<1> USE DEF BeginRestore, hostVars, diskVars, historyVars
<1>1. /\ pc = "maybeRestore" /\ pc' = "restore" /\ marker /\ HasBackup
      /\ tree = "etcd"
  BY DEF HasBackup, Facts, DataInv, RestoreGoes
<1>2. ~AutoReboots /\ staged = 0 /\ counter = Unset
  BY <1>1 DEF Facts, ColdInv, DataInv, HostPart, MarkerAlone
<1>3. HasBackup' /\ Known' = Known /\ Redo'
  BY <1>1, <1>2 DEF HasBackup, Known, Redo, RedoPlaces
<1>4. HostPart'
  BY <1>1, <1>2, <1>3 DEF Facts, DataInv, HostPart, MarkerAlone, LastBootKnown,
     StagedFresh, RedoPlaces
<1>5. DataPart'
  BY <1>2, <1>3 DEF Facts, DataInv, DataPart, BackupsWhole, LiveWhole, AsideWhole,
     SameCluster, Clusters
<1>6. RestoreGoes' /\ BootWrote' /\ EtcdWrote'
  BY <1>1, <1>3 DEF Facts, DataInv, RestoreGoes, BootWrote, EtcdWrote, PastReady
<1> QED
  BY <1>4, <1>5, <1>6 DEF DataInv

\* A restore runs with the kubelet down, and is begun again if it is cut short.
LEMMA RestoreAlone ==
    ASSUME Facts, pc \in {"restore", "meta"}
    PROVE  Redo /\ ~kubelet /\ ~AutoReboots
BY DEF Facts, DataInv, RestoreGoes, Redo, AutoReboots, ColdInv

LEMMA TreeStep ==
    ASSUME RestoresWhole, Facts, WipeTree \/ SwapTree
    PROVE  DataInv'
<1> USE DEF hostVars, diskVars, localVars, historyVars
<1>1. /\ pc = "restore" /\ pc' \in {"restore", "meta"}
      /\ UNCHANGED <<boot, booted, fallback, staged, counter, verdict, etcAside, backups,
                     lastBoot, marker, target, kubelet, wroteAs>>
  BY DEF WipeTree, SwapTree
<1>2. Redo /\ ~kubelet /\ ~AutoReboots
  BY <1>1, RestoreAlone
<1>3. HasBackup' = HasBackup /\ Known' = Known /\ AutoReboots' = AutoReboots /\ Redo'
  BY <1>1, <1>2 DEF HasBackup, Known, Redo, RedoPlaces, AutoReboots
<1>4. HostPart'
  BY <1>1, <1>2, <1>3 DEF Facts, DataInv, HostPart, MarkerAlone, LastBootKnown,
     StagedFresh, RedoPlaces, Redo
<1>5. DataPart'
  BY <1>1, <1>2, <1>3 DEF Facts, DataInv, DataPart, BackupsWhole, LiveWhole, AsideWhole,
     SameCluster, Clusters, Redo
<1>6. live \in [Trees -> SUBSET BootIds] /\ tree \in Trees
  BY DEF Facts, TypeInv, TypeOK
<1>7. RestoreGoes'
  <2>1. CASE WipeTree
    BY <1>1, <1>3, <1>6, <2>1 DEF WipeTree, Facts, DataInv, RestoreGoes, PutBack, Trees
  <2>2. CASE SwapTree
    BY <1>1, <1>3, <1>6, <2>2 DEF SwapTree, TreeAfter, Facts, DataInv, RestoreGoes,
       PutBack, Trees
  <2> QED
    BY <2>1, <2>2
<1>8. BootWrote' /\ EtcdWrote'
  BY <1>1, <1>2 DEF Facts, DataInv, BootWrote, EtcdWrote, PastReady, TypeInv, TypeOK,
     HostTypeOK
<1> QED
  BY <1>4, <1>5, <1>7, <1>8 DEF DataInv

LEMMA MetaWritten ==
    ASSUME RestoresWhole, Facts, RestoreMeta
    PROVE  DataInv'
<1> USE DEF RestoreMeta, hostVars, diskVars, localVars, historyVars
<1>1. Redo /\ ~kubelet /\ ~AutoReboots
  BY RestoreAlone
<1>2. /\ target \in backups /\ target.dep = booted
      /\ lastBoot' = Name(target)
  BY TargetHolds DEF Facts, AnchorInv, MetaIsName
<1>3. target.dep \in Known
  BY <1>2 DEF Known, Facts, TypeInv, TypeOK, HostTypeOK, Images
<1>4. /\ torn = {}
      /\ \A t \in Trees : live[t] = target.data[t]
  BY DEF Facts, DataInv, RestoreGoes, PutBack, TypeInv, TypeOK
<1>5. HasBackup' = HasBackup /\ Known' = Known /\ ~AutoReboots'
  BY <1>1 DEF HasBackup, Known, AutoReboots
<1>6. HostPart'
  BY <1>1, <1>2, <1>5 DEF Facts, DataInv, HostPart, MarkerAlone, LastBootKnown,
     StagedFresh, RedoPlaces, Redo, Name
<1>7. DataPart'
  <2>1. SameCluster(live) /\ target.boot \in live["etcd"] \cap live["kubelet"]
    BY <1>2, <1>3, <1>4 DEF Facts, DataInv, DataPart, BackupsWhole, SameCluster, Trees
  <2>2. LiveWhole'
    BY <1>2, <1>4, <2>1 DEF LiveWhole, SameCluster, Clusters, Name
  <2> QED
    BY <1>1, <1>5, <2>2 DEF Facts, DataInv, DataPart, BackupsWhole, AsideWhole,
       SameCluster, Clusters, Redo
<1>8. RestoreGoes' /\ BootWrote' /\ EtcdWrote'
  BY <1>1 DEF Facts, DataInv, RestoreGoes, BootWrote, EtcdWrote, PastReady
<1> QED
  BY <1>6, <1>7, <1>8 DEF DataInv

\* A whole backup has a meta.json: Restore cannot fail by itself.
LEMMA NoFailure == RestoresWhole /\ Facts => ~RestoreFails
<1> SUFFICES ASSUME RestoresWhole, Facts, RestoreFails PROVE FALSE
  OBVIOUS
<1>1. pc = "meta" /\ target.meta = NoLastBoot
  BY DEF RestoresWhole, RestoreFails
<1>2. target \in backups /\ target.meta = Name(target)
  BY <1>1, TargetHolds DEF Facts, AnchorInv, MetaIsName
<1>3. target.boot \in Boots
  BY <1>2 DEF Facts, TypeInv, TypeOK, BackupRecords
<1> QED
  BY <1>1, <1>2, <1>3 DEF NoLastBoot, Name, Boots

LEMMA ClearStep ==
    ASSUME RestoresWhole, Facts, ClearMarker
    PROVE  DataInv'
<1> USE DEF ClearMarker, hostVars, diskVars, localVars, historyVars
<1>1. ~marker' /\ ~Redo /\ Known' = Known
  BY DEF RestoresWhole, Redo, RedoPlaces, Known
<1>2. HostPart'
  BY <1>1 DEF Facts, DataInv, HostPart, MarkerAlone, LastBootKnown, StagedFresh
<1>3. DataPart'
  BY <1>1 DEF Facts, DataInv, DataPart, BackupsWhole, LiveWhole, AsideWhole,
     SameCluster, Clusters
<1>4. RestoreGoes' /\ BootWrote' /\ EtcdWrote'
  BY <1>1 DEF Facts, DataInv, RestoreGoes, BootWrote, EtcdWrote, PastReady
<1> QED
  BY <1>2, <1>3, <1>4 DEF DataInv

-----------------------------------------------------------------------------
(***************************************************************************)
(* The steps of a healthy boot that write.  No marker is left by then.     *)
(***************************************************************************)
LEMMA NoMarker ==
    ASSUME Facts, pc \in Reconciling \cup {"snapshot"}
    PROVE  /\ ~marker /\ ~Redo
           /\ torn = {} /\ SameCluster(live)
           /\ lastBoot.boot # 0 => lastBoot.boot \in live["etcd"] \cap live["kubelet"]
           /\ tree = "etcd"
<1>1. ~marker
  BY DEF Facts, MarkerInv
<1> QED
  BY <1>1 DEF Redo, Facts, DataInv, DataPart, LiveWhole, RestoreGoes, Reconciling,
     ClusterPhases

LEMMA SaveStep ==
    ASSUME RestoresWhole, Facts, SnapshotTaken
    PROVE  DataInv'
<1> USE DEF SnapshotTaken, hostVars, diskVars, localVars, historyVars
<1>1. /\ ~marker /\ torn = {} /\ SameCluster(live) /\ tree = "etcd"
      /\ lastBoot.boot # 0 => lastBoot.boot \in live["etcd"] \cap live["kubelet"]
  BY NoMarker
<1>2. prev = lastBoot
  BY DEF Facts, AnchorInv, LocalsFresh
<1>3. PICK m \in 1 .. MaxTime : backups' = backups \cup {Snapshot(m)}
  OBVIOUS
<1> DEFINE new == Snapshot(m)
<1>4. /\ new.dep = lastBoot.dep /\ new.boot = lastBoot.boot /\ new.data = live
      /\ lastBoot.dep # 0 /\ lastBoot.boot # 0
  BY <1>2 DEF Snapshot, SnapshotDue
<1> HIDE DEF new
<1>5. Known' = Known
  BY DEF Known
<1>6. HostPart'
  <2>1. StagedFresh'
    BY <1>3, <1>4 DEF new, Facts, DataInv, HostPart, StagedFresh, LastBootKnown
  <2> QED
    BY <1>1, <2>1 DEF Facts, DataInv, HostPart, MarkerAlone, LastBootKnown
<1>7. BackupsWhole'
  <2>1. \A b \in backups' : b \in backups \/ b = new
    BY <1>3 DEF new
  <2>2. \A b \in backups' : b.boot \in b.data["etcd"] \cap b.data["kubelet"]
    BY <1>1, <1>4, <2>1 DEF Facts, DataInv, DataPart, BackupsWhole
  <2>3. \A b \in backups' : b.dep \in Known => SameCluster(b.data)
    BY <1>1, <1>4, <2>1 DEF Facts, DataInv, DataPart, BackupsWhole
  <2> QED
    BY <1>5, <2>2, <2>3 DEF BackupsWhole, SameCluster, Clusters
<1>8. LiveWhole' /\ AsideWhole'
  BY <1>1 DEF Facts, DataInv, DataPart, LiveWhole, AsideWhole, SameCluster, Clusters
<1>9. RestoreGoes' /\ BootWrote' /\ EtcdWrote'
  BY <1>1 DEF Facts, DataInv, RestoreGoes, BootWrote, EtcdWrote, PastReady
<1> QED
  BY <1>6, <1>7, <1>8, <1>9 DEF DataInv, DataPart

\* Ensure writes into trees that follow etcd's: if etcd has run in this boot,
\* it has left its trace there.
LEMMA EnsureWrites ==
    ASSUME Facts, pc = "ensure", NEW trees \in SUBSET {"kubernetes", "kubelet"},
           live' = Written(trees), wroteAs' = wroteAs, boot' = boot
    PROVE  /\ SameCluster(live)'
           /\ live'["etcd"] = live["etcd"]
           /\ live["kubelet"] \subseteq live'["kubelet"]
           /\ "kubelet" \in trees => boot \in live'["kubelet"]
<1>1. SameCluster(live)
  BY NoMarker DEF Reconciling
<1>2. /\ live'["etcd"] = live["etcd"]
      /\ \A t \in Trees : live'[t] \in {live[t], live[t] \cup {boot}}
      /\ "kubelet" \in trees => boot \in live'["kubelet"]
  BY DEF Written, Trees
<1>3. boot \in Boots /\ (wroteAs[boot] # 0 => boot \in live["etcd"])
  BY DEF Facts, TypeInv, TypeOK, HostTypeOK, DataInv, EtcdWrote
<1>4. Clusters(live'["kubelet"]) = live["etcd"]
  <2>1. CASE live'["kubelet"] = live["kubelet"]
    BY <1>1, <2>1 DEF SameCluster
  <2>2. CASE live'["kubelet"] = live["kubelet"] \cup {boot}
    BY <1>1, <1>3, <2>2 DEF SameCluster, Clusters
  <2> QED
    BY <1>2, <2>1, <2>2 DEF Trees
<1>5. Clusters(live'["kubernetes"]) \subseteq live["etcd"]
  <2>1. CASE live'["kubernetes"] = live["kubernetes"]
    BY <1>1, <2>1 DEF SameCluster
  <2>2. CASE live'["kubernetes"] = live["kubernetes"] \cup {boot}
    BY <1>1, <1>3, <2>2 DEF SameCluster, Clusters
  <2> QED
    BY <1>2, <2>1, <2>2 DEF Trees
<1> QED
  BY <1>2, <1>4, <1>5 DEF SameCluster, Clusters, Trees

LEMMA EnsureStep ==
    ASSUME RestoresWhole, Facts, Ensure \/ EnsureFails
    PROVE  DataInv'
<1> USE DEF hostVars, diskVars, localVars, historyVars, Halt
<1>1. PICK trees \in SUBSET {"kubernetes", "kubelet"} :
         /\ live' = Written(trees)
         /\ pc' = "startKubelet" => "kubelet" \in trees
  BY DEF Ensure, EnsureFails
<1>2. /\ pc = "ensure" /\ pc' \in {"startKubelet", "failed"}
      /\ UNCHANGED <<boot, booted, fallback, staged, newest, counter, verdict,
                     etcAside, backups, lastBoot, marker, kubelet, wroteAs>>
      /\ torn' \subseteq torn
      /\ tree' \in {tree, "etcd"}
  BY DEF Ensure, EnsureFails
<1>3. /\ ~marker /\ torn = {} /\ tree = "etcd"
      /\ lastBoot.boot # 0 => lastBoot.boot \in live["etcd"] \cap live["kubelet"]
  BY <1>2, NoMarker DEF Reconciling
<1>4. /\ SameCluster(live)'
      /\ live'["etcd"] = live["etcd"]
      /\ live["kubelet"] \subseteq live'["kubelet"]
      /\ "kubelet" \in trees => boot \in live'["kubelet"]
  BY <1>1, <1>2, EnsureWrites
<1>5. HostPart'
  BY <1>2, <1>3 DEF Facts, DataInv, HostPart, MarkerAlone, LastBootKnown, StagedFresh
<1>6. LiveWhole'
  BY <1>2, <1>3, <1>4 DEF LiveWhole
<1>7. BackupsWhole' /\ AsideWhole'
  BY <1>2, <1>4 DEF Facts, DataInv, DataPart, BackupsWhole, AsideWhole, SameCluster,
     Clusters, Known
<1>8. RestoreGoes' /\ BootWrote' /\ EtcdWrote'
  BY <1>1, <1>2, <1>3, <1>4 DEF Facts, DataInv, RestoreGoes, BootWrote, EtcdWrote, PastReady
<1> QED
  BY <1>5, <1>6, <1>7, <1>8 DEF DataInv, DataPart

\* Steps that leave the trees and the machine.
LEMMA LocalStep ==
    ASSUME RestoresWhole, Facts, StartKubelet \/ PruneOne \/ Record
    PROVE  DataInv'
<1> USE DEF hostVars, diskVars, localVars, historyVars
<1>1. /\ pc \in Reconciling /\ pc' \in Reconciling
      /\ UNCHANGED <<boot, booted, fallback, staged, newest, counter, verdict, live,
                     torn, etcAside, marker, wroteAs, tree>>
  BY DEF StartKubelet, PruneOne, Record, Reconciling, ClusterPhases
<1>2. /\ ~marker /\ ~Redo /\ torn = {} /\ SameCluster(live) /\ tree = "etcd"
      /\ lastBoot.boot # 0 => lastBoot.boot \in live["etcd"] \cap live["kubelet"]
  BY <1>1, NoMarker
<1>3. backups' \subseteq backups /\ Known' = Known
  BY DEF StartKubelet, PruneOne, Record, Known
<1>4. /\ pc' \in PastReady <=> pc \in PastReady
      /\ boot \in live["kubelet"]
      /\ pc \in PastReady => boot \in live["etcd"]
  BY DEF StartKubelet, PruneOne, Record, PastReady, Facts, DataInv, BootWrote
<1>5. /\ lastBoot' = lastBoot \/ (lastBoot'.dep \in {0, booted} /\ lastBoot'.boot = boot)
      /\ lastBoot' # lastBoot => pc \in PastReady
      /\ pc' = "announce" => lastBoot'.dep \in {0, booted}
      /\ pc' # "active"
  BY DEF StartKubelet, PruneOne, Record, ThisBoot, PastReady
<1>6. HostPart'
  BY <1>1, <1>2, <1>3, <1>5 DEF Facts, DataInv, HostPart, MarkerAlone, LastBootKnown,
     StagedFresh
<1>7. LiveWhole'
  <2>1. lastBoot'.boot # 0 => lastBoot'.boot \in live["etcd"] \cap live["kubelet"]
    BY <1>2, <1>4, <1>5
  <2> QED
    BY <1>1, <1>2, <2>1 DEF LiveWhole, SameCluster, Clusters
<1>8. BackupsWhole' /\ AsideWhole'
  BY <1>1, <1>3 DEF Facts, DataInv, DataPart, BackupsWhole, AsideWhole, SameCluster,
     Clusters
<1>9. RestoreGoes' /\ BootWrote' /\ EtcdWrote'
  BY <1>1, <1>2, <1>4 DEF StartKubelet, PruneOne, Record, Facts, DataInv, RestoreGoes,
     BootWrote, EtcdWrote, Reconciling, ClusterPhases
<1> QED
  BY <1>6, <1>7, <1>8, <1>9 DEF DataInv, DataPart

\* etcd's first entry of a boot: the kubelet's files have that boot already,
\* and no backup a restore could take has.
LEMMA EtcdStep ==
    ASSUME RestoresWhole, Facts, EtcdWrites
    PROVE  DataInv'
<1> USE DEF EtcdWrites, hostVars, localVars
<1>1. ~marker \/ AutoReboots
  BY DEF Facts, ColdInv
<1>2. ~Redo /\ Known' = Known /\ HasBackup' = HasBackup /\ AutoReboots' = AutoReboots
  BY <1>1 DEF Redo, AutoReboots, Known, HasBackup
<1>3. /\ torn = {} /\ SameCluster(live)
      /\ lastBoot.boot # 0 => lastBoot.boot \in live["etcd"] \cap live["kubelet"]
  BY <1>2 DEF Facts, DataInv, DataPart, LiveWhole
<1>4. /\ boot \in Boots /\ booted # 0 /\ boot \in live["kubelet"]
      /\ live'["etcd"] = live["etcd"] \cup {boot}
      /\ live'["kubelet"] = live["kubelet"] /\ live'["kubernetes"] = live["kubernetes"]
      /\ wroteAs'[boot] = booted
      /\ \A x \in Boots \ {boot} : wroteAs'[x] = wroteAs[x]
  BY DEF Facts, TypeInv, TypeOK, HostTypeOK, Images, DataInv, BootWrote, Trees
<1>5. \A S : /\ Clusters(S)' \subseteq Clusters(S) \cup {boot}
             /\ Clusters(S) \subseteq Clusters(S)'
             /\ boot \in S => boot \in Clusters(S)'
             /\ boot \notin S => Clusters(S)' = Clusters(S)
  BY <1>4 DEF Clusters
<1>6. SameCluster(live)'
  <2>1. Clusters(live["kubelet"])' = live["etcd"] \cup {boot}
    BY <1>3, <1>4 DEF SameCluster, Clusters
  <2>2. Clusters(live["kubernetes"])' \subseteq live["etcd"] \cup {boot}
    BY <1>3, <1>4 DEF SameCluster, Clusters
  <2> QED
    BY <1>4, <2>1, <2>2 DEF SameCluster
<1>7. LiveWhole'
  BY <1>3, <1>4, <1>6 DEF LiveWhole
<1>8. BackupsWhole'
  <2>1. SUFFICES ASSUME NEW b \in backups, b.dep \in Known
                 PROVE  SameCluster(b.data)'
    BY <1>2 DEF Facts, DataInv, DataPart, BackupsWhole
  <2>2. b.boot < boot /\ b.boot \in Boots
    BY DEF Facts, AnchorInv, PastOnly, TypeInv, TypeOK, BackupRecords
  <2>3. \A t \in Trees : boot \notin b.data[t]
    BY <1>4, <2>1, <2>2 DEF Facts, AnchorInv, SnapshotHoldsItsBoot, Boots
  <2>4. /\ Clusters(b.data["kubelet"]) = b.data["etcd"]
        /\ Clusters(b.data["kubernetes"]) \subseteq b.data["etcd"]
    BY <2>1 DEF Facts, DataInv, DataPart, BackupsWhole, SameCluster
  <2>5. /\ Clusters(b.data["kubelet"])' = Clusters(b.data["kubelet"])
        /\ Clusters(b.data["kubernetes"])' = Clusters(b.data["kubernetes"])
    BY <1>4, <2>3 DEF Clusters, Trees
  <2> QED
    BY <2>4, <2>5 DEF SameCluster
<1>9. AsideWhole'
  BY <1>4 DEF Facts, DataInv, DataPart, AsideWhole, Clusters
<1>10. HostPart'
  BY <1>2 DEF Facts, DataInv, HostPart, MarkerAlone, LastBootKnown, StagedFresh
<1>11. RestoreGoes'
  BY <1>2 DEF Facts, DataInv, RestoreGoes
<1>12. BootWrote' /\ EtcdWrote'
  BY <1>4 DEF Facts, DataInv, BootWrote, EtcdWrote, Boots
<1> QED
  BY <1>6, <1>7, <1>8, <1>9, <1>10, <1>11, <1>12 DEF DataInv, DataPart

-----------------------------------------------------------------------------
(***************************************************************************)
(* The host.                                                               *)
(***************************************************************************)
\* Only the last attempt's red verdict leaves a marker, and the reboot that
\* follows it falls back.
LEMMA VerdictData ==
    ASSUME RestoresWhole, Facts, Green \/ Red
    PROVE  DataInv'
<1> USE DEF localVars, historyVars, diskVars
<1>1. /\ UNCHANGED <<boot, booted, fallback, staged, newest, live, torn, etcAside,
                     backups, lastBoot, pc, localVars, kubelet, wroteAs>>
      /\ counter' \in {counter, Unset}
      /\ pc \in {"active", "failed"}
  BY DEF Green, Red, HostGreen, HostRed
<1>2. Known' = Known /\ HasBackup' = HasBackup
  BY <1>1 DEF Known, HasBackup
<1>3. MarkerAlone' /\ (Redo => Redo')
  <2>1. CASE Green
    BY <2>1 DEF Green, Facts, DataInv, HostPart, MarkerAlone, RedoPlaces, Redo
  <2>2. CASE Red
    <3>1. /\ pc = "failed" /\ verdict = "pending" /\ verdict' = "red"
          /\ UNCHANGED <<counter, staged, pc>>
      BY <2>2 DEF Red, HostRed
    <3>2. marker => marker'
      <4>1. marker' = (marker \/ RequestRestore)
        BY <2>2 DEF Red
      <4> QED
        BY <4>1, Zenon
    <3>3. marker' => marker \/ counter = 0
      <4>1. marker' = (marker \/ RequestRestore)
        BY <2>2 DEF Red
      <4>2. RequestRestore => counter = 0
        BY DEF RequestRestore
      <4> QED
        BY <4>1, <4>2, Zenon
    <3>4. Redo => Redo'
      BY <1>2, <3>1, <3>2 DEF Redo
    <3>5. counter' = 0 => AutoReboots'
      BY <3>1 DEF AutoReboots, Unset
    <3>6. ~AutoReboots
      BY <3>1 DEF AutoReboots
    <3>7. MarkerAlone'
      BY <1>2, <3>1, <3>3, <3>5, <3>6 DEF Facts, DataInv, HostPart, MarkerAlone, RedoPlaces
    <3> QED
      BY <3>4, <3>7
  <2> QED
    BY <2>1, <2>2
<1>4. HostPart'
  BY <1>1, <1>3 DEF Facts, DataInv, HostPart, LastBootKnown, StagedFresh
<1>5. DataPart'
  BY <1>1, <1>2, <1>3 DEF Facts, DataInv, DataPart, BackupsWhole, LiveWhole, AsideWhole,
     SameCluster, Clusters, Redo
<1>6. RestoreGoes' /\ BootWrote' /\ EtcdWrote'
  BY <1>1 DEF Facts, DataInv, RestoreGoes, BootWrote, EtcdWrote, PastReady
<1> QED
  BY <1>4, <1>5, <1>6 DEF DataInv

\* A new image is staged by a healthy boot, and nobody has backed it up.
LEMMA StageData ==
    ASSUME RestoresWhole, Facts, StageUpgrade
    PROVE  DataInv'
<1> USE DEF StageUpgrade, Stage, localVars, historyVars, diskVars
<1>1. pc = "active"
  BY DEF RestoresWhole
<1>2. ~marker /\ ~Redo
  BY <1>1 DEF Facts, DataInv, HostPart, MarkerAlone, Redo, RedoPlaces
<1>3. /\ newest \in Images /\ booted \in Images /\ booted <= newest
      /\ \A b \in backups : b.dep \in Images /\ b.dep <= newest
  BY DEF Facts, TypeInv, TypeOK, HostTypeOK, AnchorInv, HostInv, Known, Images, PastOnly,
     BackupRecords
<1>4. \A b \in backups : b.dep \in Known' => b.dep \in Known
  BY <1>3 DEF Known, Images
<1>5. HostPart'
  BY <1>1, <1>2, <1>3 DEF Facts, DataInv, HostPart, MarkerAlone, LastBootKnown,
     StagedFresh, Images
<1>6. DataPart'
  BY <1>2, <1>4 DEF Facts, DataInv, DataPart, BackupsWhole, LiveWhole, AsideWhole,
     SameCluster, Clusters
<1>7. RestoreGoes' /\ BootWrote' /\ EtcdWrote'
  BY <1>1 DEF Facts, DataInv, RestoreGoes, BootWrote, EtcdWrote, PastReady
<1> QED
  BY <1>5, <1>6, <1>7 DEF DataInv

\* What every power-on has in common.
LEMMA UpAgain ==
    ASSUME Facts, CleanReboot \/ PowerLoss
    PROVE  /\ pc' = "start" /\ tree' = "etcd" /\ ~kubelet' /\ staged' = 0
           /\ ~AutoReboots'
           /\ boot' = boot + 1
           /\ UNCHANGED <<backups, lastBoot, marker, wroteAs>>
           /\ \A d \in Known' : d \in Known
           /\ EtcdWrote' /\ BackupsWhole'
<1>1. /\ pc' = "start" /\ tree' = "etcd" /\ ~kubelet' /\ staged' = 0
      /\ verdict' = "pending" /\ boot' = boot + 1
      /\ UNCHANGED <<backups, lastBoot, marker, wroteAs>>
  BY DEF CleanReboot, PowerLoss, ComesUp, Halt, Reboot, PowerCut, PowerOn, historyVars
<1>2. \A d \in Known' : d \in Known
  BY DEF CleanReboot, PowerLoss, Reboot, PowerCut, PowerOn, Known
<1>3. boot + 1 \in Boots
  BY HostAssumption DEF CleanReboot, PowerLoss, Reboot, PowerCut, PowerOn, Boots, Facts,
     TypeInv, TypeOK, HostTypeOK
<1>4. EtcdWrote'
  BY <1>1, <1>3 DEF Facts, DataInv, EtcdWrote, Boots, TypeInv, TypeOK, HostTypeOK
<1>5. BackupsWhole'
  BY <1>1, <1>2 DEF Facts, DataInv, DataPart, BackupsWhole, SameCluster, Clusters
<1> QED
  BY <1>1, <1>2, <1>4, <1>5 DEF AutoReboots

\* A new deployment starts with a copy of this one's /etc, and finds no backup.
LEMMA UpgradeData ==
    ASSUME RestoresWhole, Facts, CleanReboot, staged # 0
    PROVE  DataInv'
<1>1. /\ pc' = "start" /\ tree' = "etcd" /\ ~kubelet' /\ staged' = 0 /\ ~AutoReboots'
      /\ UNCHANGED <<backups, lastBoot, marker, wroteAs>>
      /\ EtcdWrote' /\ BackupsWhole'
  BY UpAgain
<1>2. /\ booted' = staged /\ fallback' = booted
      /\ live' = live /\ torn' = torn /\ etcAside' = ThisEtc
  BY HostAssumption DEF CleanReboot, Reboot, PowerOn, EtcCopied, Unset
<1>3. /\ torn = {} /\ SameCluster(live)
      /\ lastBoot.boot # 0 => lastBoot.boot \in live["etcd"] \cap live["kubelet"]
  BY DEF Redo, Facts, DataInv, DataPart, LiveWhole
<1>4. HostPart'
  BY <1>1, <1>2 DEF Facts, DataInv, HostPart, MarkerAlone, LastBootKnown, StagedFresh,
     HasBackup, LatestForDeployment, RedoPlaces
<1>5. LiveWhole' /\ AsideWhole'
  BY <1>1, <1>2, <1>3 DEF LiveWhole, AsideWhole, SameCluster, Clusters, ThisEtc
<1>6. RestoreGoes' /\ BootWrote'
  BY <1>1 DEF RestoreGoes, BootWrote, PastReady
<1> QED
  BY <1>1, <1>4, <1>5, <1>6 DEF DataInv, DataPart

\* The same deployment again, or the one the boot loader falls back to.
LEMMA SameImageData ==
    ASSUME RestoresWhole, Facts, PowerLoss \/ (CleanReboot /\ staged = 0)
    PROVE  DataInv'
<1>1. /\ pc' = "start" /\ tree' = "etcd" /\ ~kubelet' /\ staged' = 0 /\ ~AutoReboots'
      /\ UNCHANGED <<backups, lastBoot, marker, wroteAs>>
      /\ EtcdWrote' /\ BackupsWhole'
  BY UpAgain
<1>2. PowerOn(booted, fallback, counter) /\ EtcFollows
  BY DEF PowerLoss, CleanReboot, Reboot, PowerCut
<1>3. RestoreGoes' /\ BootWrote'
  BY <1>1 DEF RestoreGoes, BootWrote, PastReady
<1>4. LastBootKnown' /\ StagedFresh'
  BY <1>1, <1>2 DEF PowerOn, Facts, DataInv, HostPart, LastBootKnown, StagedFresh
<1>5. CASE counter = 0
  <2>1. booted' = fallback /\ counter' = Unset
    BY <1>2, <1>5 DEF PowerOn
  <2>2. /\ torn = {} /\ SameCluster(live)
        /\ lastBoot.boot # 0 => lastBoot.boot \in live["etcd"] \cap live["kubelet"]
        /\ ~etcAside.torn /\ Clusters(etcAside.data) \subseteq live["etcd"]
    BY <1>5 DEF Redo, Unset, Facts, DataInv, DataPart, LiveWhole, AsideWhole
  <2>3. /\ live'["etcd"] = live["etcd"] /\ live'["kubelet"] = live["kubelet"]
        /\ live'["kubernetes"] = etcAside.data
        /\ torn' = {}
    BY <1>2, <1>5, <2>2 DEF EtcFollows, Facts, TypeInv, TypeOK, Trees
  <2>4. SameCluster(live)'
    BY <1>1, <2>2, <2>3 DEF SameCluster, Clusters
  <2>5. LiveWhole' /\ AsideWhole'
    BY <1>1, <2>1, <2>2, <2>3, <2>4 DEF LiveWhole, AsideWhole
  <2>6. MarkerAlone'
    BY <1>1, <2>1 DEF MarkerAlone, RedoPlaces
  <2> QED
    BY <1>1, <1>3, <1>4, <2>5, <2>6 DEF DataInv, DataPart, HostPart
<1>6. CASE counter # 0
  <2>1. /\ booted' = booted
        /\ counter = Unset => counter' = Unset
        /\ UNCHANGED <<live, torn, etcAside>>
    BY <1>2, <1>6 DEF PowerOn, EtcFollows
  <2>2. HasBackup' = HasBackup
    BY <1>1, <2>1 DEF HasBackup
  <2>3. MarkerAlone'
    BY <1>1, <1>6, <2>1, <2>2 DEF Facts, DataInv, HostPart, MarkerAlone, RedoPlaces
  <2>4. Redo => Redo'
    BY <1>1, <2>1, <2>2 DEF Redo, RedoPlaces
  <2>5. LiveWhole' /\ AsideWhole'
    BY <1>1, <2>1, <2>4 DEF Facts, DataInv, DataPart, LiveWhole, AsideWhole, SameCluster,
       Clusters
  <2> QED
    BY <1>1, <1>3, <1>4, <2>3, <2>5 DEF DataInv, DataPart, HostPart
<1> QED
  BY <1>5, <1>6

-----------------------------------------------------------------------------
LEMMA DataStep == RestoresWhole /\ Facts /\ [Next]_vars => DataInv'
<1> SUFFICES ASSUME RestoresWhole, Facts, [Next]_vars PROVE DataInv'
  OBVIOUS
<1>1. CASE BeginRestore \/ WipeTree \/ SwapTree \/ RestoreMeta \/ RestoreFails \/ ClearMarker
  BY <1>1, BeginStep, TreeStep, MetaWritten, NoFailure, ClearStep
<1>2. CASE \/ SnapshotTaken \/ Ensure \/ EnsureFails \/ StartKubelet \/ PruneOne
           \/ Record \/ EtcdWrites
  BY <1>2, SaveStep, EnsureStep, LocalStep, EtcdStep
<1>3. CASE PrunePartly
  BY <1>3 DEF PrunePartly, RestoresWhole
<1>4. CASE Green \/ Red \/ StageUpgrade
  BY <1>4, VerdictData, StageData
<1>5. CASE CleanReboot \/ PowerLoss
  BY <1>5, UpgradeData, SameImageData
<1> QED
  BY <1>1, <1>2, <1>3, <1>4, <1>5, MovesOn DEF Next, BootStep, HostStep

LEMMA DataInit == Init => DataInv
<1> SUFFICES ASSUME Init PROVE DataInv
  OBVIOUS
<1> USE DEF Init, HostInit, NoLastBoot
<1>1. HostPart
  BY DEF HostPart, MarkerAlone, LastBootKnown, StagedFresh
<1>2. Clusters(live["kubelet"]) = {} /\ Clusters(live["kubernetes"]) = {}
  BY DEF Clusters
<1>3. DataPart
  BY <1>2 DEF DataPart, BackupsWhole, LiveWhole, AsideWhole, SameCluster, Trees
<1>4. RestoreGoes /\ BootWrote /\ EtcdWrote
  BY HostAssumption DEF RestoreGoes, BootWrote, EtcdWrote, PastReady, Boots
<1> QED
  BY <1>1, <1>3, <1>4 DEF DataInv

LEMMA FactsInvariant == ASSUME RestoresWhole PROVE Spec => []Facts
<1>0. RemovesWhole /\ MarkerRemovable
  BY DEF RestoresWhole, RemovesWhole, MarkerRemovable
<1>1. Init => Facts
  <2>1. Init => MarkerInv /\ ColdInv
    BY DEF Init, HostInit, MarkerInv, Reconciling, ClusterPhases, ColdInv, ColdRestore,
       AutoReboots
  <2> QED
    BY <2>1, TypeInit, AnchorInit, DataInit DEF Facts
<1>2. Facts /\ [Next]_vars => Facts'
  BY <1>0, TypeStep, AnchorStep, MarkerStep, ColdStep, DataStep DEF Facts, TypeInv
<1> QED
  BY <1>1, <1>2, PTL DEF Spec

\* The joint invariant of the two theorems below: Boot and Restore
\* (boot.go:64-194, backup.go:154-185) leave no state they cannot go on from.
THEOREM DataInvariant == ASSUME RestoresWhole PROVE Spec => []DataInv
<1>1. Facts => DataInv
  BY DEF Facts
<1> QED
  BY <1>1, FactsInvariant, PTL

\* Wherever a restore was killed or the power went, Ensure (boot.go:107) and the
\* steps after it find whole trees, of one cluster: no PKI and no kubelet state
\* that etcd does not belong to.
THEOREM TreesWhole == ASSUME RestoresWhole PROVE Spec => []ReconcileOnWholeTrees
<1>1. Facts => ReconcileOnWholeTrees
  <2> SUFFICES ASSUME Facts, pc \in Reconciling PROVE ReconcileOnWholeTrees
    BY DEF ReconcileOnWholeTrees
  <2> QED
    BY NoMarker DEF ReconcileOnWholeTrees, SameCluster
<1> QED
  BY <1>1, FactsInvariant, PTL

\* A snapshot (backup.go:85-137) has what the boot it is named after wrote to
\* etcd's tree and to the kubelet's files, crashes included.
THEOREM DataSaved == ASSUME RestoresWhole PROVE Spec => []DataSnapshotComplete
<1>1. Facts => DataSnapshotComplete
  BY DEF Facts, DataInv, DataPart, BackupsWhole, DataSnapshotComplete
<1> QED
  BY <1>1, FactsInvariant, PTL
=================================================================================
