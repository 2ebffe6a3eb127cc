------------------------------- MODULE NodeBoot --------------------------------
(***************************************************************************)
(* One node across boots: the `nanok8s boot` flow of                       *)
(* internal/lifecycle/boot.go, step by step, over the state it keeps under *)
(* /var/lib and /etc/kubernetes, on a host (BootcHost) that upgrades,      *)
(* reboots, loses power and rolls back.                                    *)
(*                                                                         *)
(* Every step of the flow is an action; between two of them the service    *)
(* may be killed, the power may go, and the kubelet's pods may write.      *)
(* Backup contents are provenance sets (BackupSets).  Create is one step:  *)
(* it works in a .tmp directory List never shows and publishes it by one   *)
(* rename, and ColdSnapshot shows that nothing writes meanwhile.  Prune    *)
(* and Restore, which have no such rename around them, are several.        *)
(***************************************************************************)
EXTENDS BootcHost, BackupSets

CONSTANTS
    OSTree,     \* ostree.IsOSTree: bootc host, or a package-mode one
    MaxTime,    \* bound: the ticks of the modification times
    Faults      \* which failures the environment may cause, see FaultKinds

(***************************************************************************)
(* detect    the config, ostree, boot-id or last-boot reads fail, or the   *)
(*           list of deployments before Prune                              *)
(* restore   Restore returns an error part way (disk full, cp killed)      *)
(* clear     the restore marker cannot be removed                          *)
(* snapshot  Create returns an error                                       *)
(* remove    an os.RemoveAll of Prune is interrupted part way              *)
(* record    last-boot.json cannot be written                              *)
(* kill      the service process dies (SIGKILL, OOM, TimeoutStartSec)      *)
(* power     the machine loses power                                       *)
(* eager     an image is staged on a node whose boot has not succeeded     *)
(***************************************************************************)
FaultKinds ==
    {"detect", "restore", "clear", "snapshot", "remove", "record",
     "kill", "power", "eager"}

ASSUME NodeAssumption ==
    /\ OSTree \in BOOLEAN
    /\ MaxTime \in Nat \ {0}
    /\ Faults \subseteq FaultKinds

VARIABLES
    \* on disk
    live,       \* [Trees -> sets of boots]: who wrote each live tree
    torn,       \* trees whose replacement was begun and not finished
    etcAside,   \* /etc/kubernetes as the fallback deployment's own /etc has it
    backups,    \* the directories of /var/lib/nanok8s/backups that List shows
    lastBoot,   \* last-boot.json
    marker,     \* the restore marker greenboot's red.d script leaves
    \* the running service and the kubelet
    pc,         \* where Boot stands; "active" and "failed" are its ends
    prev,       \* the last boot Boot has read
    target,     \* the backup Restore copies, or Prune is removing
    tree,       \* the tree Restore has come to
    doomed,     \* the backups Prune has still to remove
    kubelet,    \* kubelet.service, and the static pods under it, are up
    \* history, for the properties only
    recorded,   \* every [dep, boot] ever recorded as a healthy boot
    wroteAs     \* boot -> the deployment whose etcd wrote in it (0: none did)

diskVars == <<live, torn, etcAside, backups, lastBoot, marker>>
localVars == <<prev, target, tree, doomed>>
historyVars == <<recorded, wroteAs>>
vars == <<hostVars, diskVars, pc, localVars, kubelet, historyVars>>

-----------------------------------------------------------------------------
BootIds == 0 .. MaxBoot
LastBoots == [dep : 0 .. MaxImages, boot : BootIds]
BackupRecords ==
    [dep : Images, boot : Boots, data : [Trees -> SUBSET BootIds],
     meta : LastBoots, mtime : 1 .. MaxTime]

NoBackup ==
    [dep |-> 0, boot |-> 0, data |-> [t \in Trees |-> {}],
     meta |-> NoLastBoot, mtime |-> 0]

Steps ==
    {"start", "maybeRestore", "restore", "meta", "clearThenGo", "clearThenFail",
     "readLastBoot", "snapshot", "ensure", "startKubelet", "readyz", "rbac",
     "controlPlane", "mark", "addons", "prune", "pruning", "record", "announce"}
Ended == {"active", "failed"}

\* Where a failed call returns from Boot without touching the disk.
ClusterPhases == {"startKubelet", "readyz", "rbac", "controlPlane", "mark"}

\* The steps from kubeadm.Ensure on.
Reconciling ==
    ClusterPhases \cup {"ensure", "addons", "prune", "pruning", "record", "announce"}

\* Mutants: Restore forgets /etc/kubernetes; Restore starts over.
TreeAfterSkips(t) == "kubelet"
TreeAfterCycles(t) == IF t = "etcd" THEN "kubernetes" ELSE "etcd"

\* The order of Restore.
TreeAfter(t) == IF t = "etcd" THEN "kubernetes" ELSE "kubelet"

TypeOK ==
    /\ HostTypeOK
    /\ live \in [Trees -> SUBSET BootIds]
    /\ torn \subseteq Trees
    /\ etcAside \in [data : SUBSET BootIds, torn : BOOLEAN]
    /\ backups \subseteq BackupRecords
    /\ lastBoot \in LastBoots
    /\ marker \in BOOLEAN
    /\ pc \in Steps \cup Ended
    /\ prev \in LastBoots
    /\ target \in BackupRecords \cup {NoBackup}
    /\ tree \in Trees
    /\ doomed \subseteq BackupRecords
    /\ kubelet \in BOOLEAN
    /\ recorded \subseteq LastBoots
    /\ wroteAs \in [Boots -> 0 .. MaxImages]

\* `nanok8s bootstrap` has run on a fresh machine: PKI, manifests and kubelet
\* files are there, etcd has never run.
Init ==
    /\ HostInit
    /\ live = [t \in Trees |-> IF t = "etcd" THEN {} ELSE {0}]
    /\ torn = {}
    /\ etcAside = [data |-> {}, torn |-> FALSE]
    /\ backups = {}
    /\ lastBoot = NoLastBoot
    /\ marker = FALSE
    /\ pc = "start"
    /\ prev = NoLastBoot
    /\ target = NoBackup
    /\ tree = "etcd"
    /\ doomed = {}
    /\ kubelet = FALSE
    /\ recorded = {}
    /\ wroteAs = [x \in Boots |-> 0]

-----------------------------------------------------------------------------
\* The process is gone, or Boot has returned: its variables go with it.
Halt(end) ==
    /\ pc' = end
    /\ prev' = NoLastBoot
    /\ target' = NoBackup
    /\ tree' = "etcd"
    /\ doomed' = {}

\* A step that only moves on.
Goto(there) ==
    /\ pc' = there
    /\ UNCHANGED <<hostVars, diskVars, localVars, kubelet, historyVars>>

\* Boot returns an error having changed nothing more.
Fail ==
    /\ Halt("failed")
    /\ UNCHANGED <<hostVars, diskVars, kubelet, historyVars>>

\* config.Load, IsOSTree, BootedDeploymentID, BootID.  Without ostree there
\* are no backups, and no restore to look for.
Detect ==
    /\ pc = "start"
    /\ Goto(IF OSTree THEN "maybeRestore" ELSE "readLastBoot")

\* One of those reads, RestoreRequested or ReadLastBoot fails: Boot returns
\* before anything is deferred.
EarlyError ==
    /\ "detect" \in Faults
    /\ pc \in {"start", "maybeRestore", "readLastBoot"}
    /\ Fail

-----------------------------------------------------------------------------
(***************************************************************************)
(* maybeRestore.                                                           *)
(***************************************************************************)
NoRestoreRequested ==
    /\ pc = "maybeRestore"
    /\ ~marker
    /\ Goto("readLastBoot")

\* A mutant: the early return is taken before the clear is deferred.
NoBackupLeavesMarker ==
    /\ pc = "maybeRestore"
    /\ marker
    /\ LatestForDeployment(backups, booted) = {}
    /\ Goto("readLastBoot")

\* The marker is there and no backup of this deployment is: return nil.
NoBackupToRestore ==
    /\ pc = "maybeRestore"
    /\ marker
    /\ LatestForDeployment(backups, booted) = {}
    /\ Goto("clearThenGo")

BeginRestore ==
    /\ pc = "maybeRestore"
    /\ marker
    /\ target' \in LatestForDeployment(backups, booted)
    /\ pc' = "restore"
    /\ UNCHANGED <<hostVars, diskVars, prev, tree, doomed, kubelet, historyVars>>

\* restoreDir stages a copy, then RemoveAll the live tree; replaceFile renames
\* over the kubelet's files one by one, some now being old and some new ...
WipeTree ==
    /\ pc = "restore"
    /\ tree \notin torn
    /\ torn' = torn \cup {tree}
    /\ live' = [live EXCEPT ![tree] =
                  IF tree = "kubelet" THEN @ \cup target.data[tree] ELSE {}]
    /\ UNCHANGED <<hostVars, etcAside, backups, lastBoot, marker, pc, localVars,
                   kubelet, historyVars>>

\* ... and the copy is renamed into its place (no copy: the tree stays absent),
\* or the last of the files is.
SwapTree ==
    /\ pc = "restore"
    /\ tree \in torn
    /\ live' = [live EXCEPT ![tree] = target.data[tree]]
    /\ torn' = torn \ {tree}
    /\ tree' = TreeAfter(tree)
    /\ pc' = IF tree = "kubelet" THEN "meta" ELSE "restore"
    /\ UNCHANGED <<hostVars, etcAside, backups, lastBoot, marker, prev, target,
                   doomed, kubelet, historyVars>>

\* A mutant: last-boot.json keeps the boot that was rolled back.
RestoreMetaNotWritten ==
    /\ pc = "meta"
    /\ target.meta # NoLastBoot
    /\ pc' = "clearThenGo"
    /\ target' = NoBackup
    /\ tree' = "etcd"
    /\ UNCHANGED <<hostVars, diskVars, prev, doomed, kubelet, historyVars>>

\* ReadMeta and WriteLastBoot(meta).
RestoreMeta ==
    /\ pc = "meta"
    /\ target.meta # NoLastBoot
    /\ lastBoot' = target.meta
    /\ pc' = "clearThenGo"
    /\ target' = NoBackup
    /\ tree' = "etcd"
    /\ UNCHANGED <<hostVars, live, torn, etcAside, backups, marker, prev,
                   doomed, kubelet, historyVars>>

\* LatestForDeployment, Restore, ReadMeta or WriteLastBoot returns an error;
\* the deferred clear is still to run.
RestoreFails ==
    /\ \/ "restore" \in Faults /\ pc \in {"restore", "meta"}
       \/ "restore" \in Faults /\ pc = "maybeRestore" /\ marker
       \/ pc = "meta" /\ target.meta = NoLastBoot
    /\ Halt("clearThenFail")
    /\ UNCHANGED <<hostVars, diskVars, kubelet, historyVars>>

\* The deferred ClearRestoreMarker; its error is only logged.
ClearMarker ==
    /\ pc \in {"clearThenGo", "clearThenFail"}
    /\ \/ marker' = FALSE
       \/ "clear" \in Faults /\ marker' = marker
    /\ pc' = IF pc = "clearThenGo" THEN "readLastBoot" ELSE "failed"
    /\ UNCHANGED <<hostVars, live, torn, etcAside, backups, lastBoot, localVars,
                   kubelet, historyVars>>

-----------------------------------------------------------------------------
ReadLastBoot ==
    /\ pc = "readLastBoot"
    /\ prev' = lastBoot
    /\ pc' = "snapshot"
    /\ UNCHANGED <<hostVars, diskVars, target, tree, doomed, kubelet, historyVars>>

\* Mutants of the guard: it forgets the empty id of a missing last-boot.json;
\* it forgets that the previous boot may be this one; it saves only what the
\* booted deployment wrote.
SnapshotDueUnguarded == OSTree /\ prev.boot # boot
SnapshotDueSameBoot == OSTree /\ prev.dep # 0 /\ prev.boot # 0
SnapshotDueOwnDeployment == OSTree /\ prev.dep = booted /\ prev.boot # boot

\* The guard around backup.Create.
SnapshotDue == OSTree /\ prev.dep # 0 /\ prev.boot # 0 /\ prev.boot # boot

\* The guard is false, or Create finds the backup already there.
SnapshotSkipped ==
    /\ pc = "snapshot"
    /\ ~SnapshotDue \/ Exists(backups, prev)
    /\ Goto("ensure")

\* A mutant: Create names the backup after the deployment that takes it.
SnapshotMisnamed(m) ==
    [dep |-> booted, boot |-> prev.boot, data |-> live, meta |-> prev, mtime |-> m]

\* The directory Create publishes.
Snapshot(m) ==
    [dep |-> prev.dep, boot |-> prev.boot, data |-> live, meta |-> prev, mtime |-> m]

SnapshotTaken ==
    /\ pc = "snapshot"
    /\ SnapshotDue
    /\ ~Exists(backups, prev)
    /\ \E m \in 1 .. MaxTime :
          /\ IsNow(m, backups)
          /\ backups' = backups \cup {Snapshot(m)}
    /\ pc' = "ensure"
    /\ UNCHANGED <<hostVars, live, torn, etcAside, lastBoot, marker, localVars,
                   kubelet, historyVars>>

\* Create fails and rollbackTmp removes what it had copied.
SnapshotFails ==
    /\ "snapshot" \in Faults
    /\ pc = "snapshot"
    /\ SnapshotDue
    /\ ~Exists(backups, prev)
    /\ Fail

-----------------------------------------------------------------------------
(***************************************************************************)
(* Reconcile, start the kubelet, wait for the cluster.                     *)
(***************************************************************************)
Written(trees) == [t \in Trees |-> IF t \in trees THEN live[t] \cup {boot} ELSE live[t]]

\* kubeadm.Ensure: PKI, kubeconfigs and manifests under /etc/kubernetes, then
\* the kubelet's files.  What is missing is created, what is there is kept.
Ensure ==
    /\ pc = "ensure"
    /\ live' = Written({"kubernetes", "kubelet"})
    /\ torn' = torn \ {"kubernetes", "kubelet"}
    /\ pc' = "startKubelet"
    /\ UNCHANGED <<hostVars, etcAside, backups, lastBoot, marker, localVars,
                   kubelet, historyVars>>

EnsureFails ==
    /\ pc = "ensure"
    /\ \E done \in {{}, {"kubernetes"}, {"kubernetes", "kubelet"}} :
          live' = Written(done)
    /\ Halt("failed")
    /\ UNCHANGED <<hostVars, torn, etcAside, backups, lastBoot, marker, kubelet,
                   historyVars>>

StartKubelet ==
    /\ pc = "startKubelet"
    /\ kubelet' = TRUE
    /\ pc' = "readyz"
    /\ UNCHANGED <<hostVars, diskVars, localVars, historyVars>>

\* waitReadyz: the apiserver answers, so etcd runs, and has written.
WaitReadyz ==
    /\ pc = "readyz"
    /\ kubelet
    /\ boot \in live["etcd"]
    /\ Goto("rbac")

EnsureAdminRBAC == pc = "rbac" /\ Goto("controlPlane")
WaitControlPlane == pc = "controlPlane" /\ Goto("mark")
MarkControlPlane == pc = "mark" /\ Goto("addons")

\* `systemctl start` fails, a wait runs into its timeout, or an API call
\* fails: bootFailed.  The kubelet stays as it is.
PhaseFails == pc \in ClusterPhases /\ Fail

\* EnsureAddons; its error is only logged.
EnsureAddons ==
    /\ pc = "addons"
    /\ Goto(IF OSTree THEN "prune" ELSE "record")

-----------------------------------------------------------------------------
(***************************************************************************)
(* backup.Prune(ostree.AllDeploymentIDs()).                                *)
(***************************************************************************)
\* The list of deployments cannot be had: Prune is skipped.
PruneSkipped == pc = "prune" /\ "detect" \in Faults /\ Goto("record")

PruneBegin ==
    /\ pc = "prune"
    /\ doomed' = backups \ Survivors(backups, Known)
    /\ pc' = "pruning"
    /\ UNCHANGED <<hostVars, diskVars, prev, target, tree, kubelet, historyVars>>

\* b is the next directory to go: first those of unknown deployments, in any
\* order; then, deployment by deployment, from the newest to the oldest.
NextDoomed(b) ==
    /\ b \in doomed
    /\ \/ target = b
       \/ target = NoBackup /\ b.dep \notin Known
       \/ /\ target = NoBackup
          /\ \A c \in doomed : c.dep \in Known
          /\ \A c \in doomed : c.dep = b.dep => c.mtime <= b.mtime

\* What is left of b once the trees of `lost`, and perhaps meta.json, have
\* been unlinked: unlinking is the directory's latest modification.
Remains(b, lost, metaLost, m) ==
    [b EXCEPT !.data = [t \in Trees |-> IF t \in lost THEN {} ELSE b.data[t]],
              !.meta = IF metaLost THEN NoLastBoot ELSE @,
              !.mtime = m]

\* os.RemoveAll has unlinked some of the entries, not the directory yet.
PrunePartly ==
    /\ "remove" \in Faults
    /\ pc = "pruning"
    /\ target = NoBackup
    /\ \E b \in doomed, m \in 1 .. MaxTime, lost \in SUBSET Trees,
          metaLost \in BOOLEAN :
          /\ NextDoomed(b)
          /\ lost # {} \/ metaLost
          /\ IsNow(m, backups)
          /\ target' = Remains(b, lost, metaLost, m)
          /\ backups' = (backups \ {b}) \cup {target'}
          /\ doomed' = (doomed \ {b}) \cup {target'}
    /\ UNCHANGED <<hostVars, live, torn, etcAside, lastBoot, marker, pc, prev,
                   tree, kubelet, historyVars>>

PruneOne ==
    /\ pc = "pruning"
    /\ \E b \in doomed :
          /\ NextDoomed(b)
          /\ backups' = backups \ {b}
          /\ doomed' = doomed \ {b}
    /\ target' = NoBackup
    /\ UNCHANGED <<hostVars, live, torn, etcAside, lastBoot, marker, pc, prev,
                   tree, kubelet, historyVars>>

\* Prune is through, or List, Stat or RemoveAll failed, which is only logged.
PruneEnds ==
    /\ pc = "pruning"
    /\ pc' = "record"
    /\ doomed' = {}
    /\ target' = NoBackup
    /\ UNCHANGED <<hostVars, diskVars, prev, tree, kubelet, historyVars>>

-----------------------------------------------------------------------------
ThisBoot == [dep |-> IF OSTree THEN booted ELSE 0, boot |-> boot]

\* state.WriteLastBoot: from here on this boot is the last healthy one.
Record ==
    /\ pc = "record"
    /\ lastBoot' = ThisBoot
    /\ recorded' = recorded \cup {ThisBoot}
    /\ pc' = "announce"
    /\ UNCHANGED <<hostVars, live, torn, etcAside, backups, marker, localVars,
                   kubelet, wroteAs>>

RecordFails == pc = "record" /\ "record" \in Faults /\ Fail

\* notifyReady, and `nanok8s boot` parks until SIGTERM.
Announce ==
    /\ pc = "announce"
    /\ Halt("active")
    /\ UNCHANGED <<hostVars, diskVars, kubelet, historyVars>>

-----------------------------------------------------------------------------
(***************************************************************************)
(* What happens around the service.                                        *)
(***************************************************************************)
\* The pods of a running kubelet: etcd writes its first entry of this boot.
EtcdWrites ==
    /\ kubelet
    /\ boot \notin live["etcd"]
    /\ live' = [live EXCEPT !["etcd"] = @ \cup {boot}]
    /\ wroteAs' = [wroteAs EXCEPT ![boot] = booted]
    /\ UNCHANGED <<hostVars, torn, etcAside, backups, lastBoot, marker, pc,
                   localVars, kubelet, recorded>>

\* The process dies; kubelet.service does not die with it.
ServiceKilled ==
    /\ "kill" \in Faults
    /\ pc # "failed"
    /\ Fail

\* `systemctl restart nanok8s.service`, in the same boot.
RestartService ==
    /\ pc \in Ended
    /\ ~AutoReboots
    /\ pc' = "start"
    /\ UNCHANGED <<hostVars, diskVars, localVars, kubelet, historyVars>>

\* required.d found the service active.
Green ==
    /\ pc = "active"
    /\ HostGreen
    /\ UNCHANGED <<diskVars, pc, localVars, kubelet, historyVars>>

\* Mutants: red.d does not look at boot_counter; it looks for the wrong value.
RequestRestoreAlways == OSTree
RequestRestoreTooEarly == OSTree /\ counter = 1

\* red.d/40-nanok8s-pre-rollback.sh: the last attempt failed, on ostree.
RequestRestore == OSTree /\ counter = 0

\* required.d found it failed, and red.d runs.
Red ==
    /\ pc = "failed"
    /\ HostRed
    /\ marker' = (marker \/ RequestRestore)
    /\ UNCHANGED <<live, torn, etcAside, backups, lastBoot, pc, localVars,
                   kubelet, historyVars>>

StageUpgrade ==
    /\ OSTree
    /\ \/ pc = "active"
       \/ "eager" \in Faults /\ pc = "failed"
    /\ Stage
    /\ UNCHANGED <<diskVars, pc, localVars, kubelet, historyVars>>

(***************************************************************************)
(* /var is one for all deployments, /etc is not: bootc gives a deployment  *)
(* it finalises a copy of the running /etc, and each then keeps its own.   *)
(***************************************************************************)
ThisEtc == [data |-> live["kubernetes"], torn |-> "kubernetes" \in torn]

EtcCopied ==
    /\ etcAside' = ThisEtc
    /\ UNCHANGED <<live, torn>>

EtcFollows ==
    IF counter = 0
       THEN /\ live' = [live EXCEPT !["kubernetes"] = etcAside.data]
            /\ torn' = (torn \ {"kubernetes"})
                          \cup (IF etcAside.torn THEN {"kubernetes"} ELSE {})
            /\ etcAside' = ThisEtc
       ELSE UNCHANGED <<live, torn, etcAside>>

\* The machine comes up again, and systemd starts nanok8s.service.
ComesUp ==
    /\ Halt("start")
    /\ kubelet' = FALSE
    /\ UNCHANGED <<backups, lastBoot, marker, historyVars>>

CleanReboot ==
    /\ pc \in Ended
    /\ verdict # "pending"
    /\ Reboot
    /\ IF staged # 0 THEN EtcCopied ELSE EtcFollows
    /\ ComesUp

PowerLoss ==
    /\ "power" \in Faults
    /\ PowerCut
    /\ EtcFollows
    /\ ComesUp

-----------------------------------------------------------------------------
\* The steps nanok8s itself takes, when it is left alone.
BootStep ==
    \/ Detect \/ EarlyError
    \/ NoRestoreRequested \/ NoBackupToRestore \/ BeginRestore
    \/ WipeTree \/ SwapTree \/ RestoreMeta \/ RestoreFails \/ ClearMarker
    \/ ReadLastBoot \/ SnapshotSkipped \/ SnapshotTaken \/ SnapshotFails
    \/ Ensure \/ EnsureFails \/ StartKubelet
    \/ WaitReadyz \/ EnsureAdminRBAC \/ WaitControlPlane \/ MarkControlPlane
    \/ PhaseFails \/ EnsureAddons
    \/ PruneSkipped \/ PruneBegin \/ PrunePartly \/ PruneOne \/ PruneEnds
    \/ Record \/ RecordFails \/ Announce

HostStep ==
    \/ EtcdWrites \/ ServiceKilled \/ RestartService
    \/ Green \/ Red \/ StageUpgrade \/ CleanReboot \/ PowerLoss

Next == BootStep \/ HostStep

Spec == Init /\ [][Next]_vars

-----------------------------------------------------------------------------
(***************************************************************************)
(* What the flow must guarantee.                                           *)
(***************************************************************************)
\* A backup, and last-boot.json, name only boots that were recorded healthy:
\* a rollback never returns to the state of a boot that failed.
HonestRecords ==
    /\ lastBoot = NoLastBoot \/ lastBoot \in recorded
    /\ \A b \in backups : Name(b) \in recorded

\* For a deployment the host can still boot, the backup named after a boot
\* holds that boot's data, and nothing written after it, in all three trees.
SnapshotHoldsItsBoot ==
    \A b \in backups : b.dep \in Known =>
        \A t \in Trees : \A x \in b.data[t] : x <= b.boot

\* ... and what that boot wrote is in it, in each of the three trees.
SnapshotComplete ==
    \A b \in backups : b.dep \in Known =>
        \A t \in Trees : b.boot \in b.data[t]

\* The part of it that holds wherever the power is lost: etcd's tree and the
\* kubelet's files are in /var, which never falls back.
DataSnapshotComplete ==
    \A b \in backups : b.dep \in Known =>
        b.boot \in b.data["etcd"] \cap b.data["kubelet"]

\* The data of a later boot is on disk.
WrittenSince(id) ==
    \/ \E t \in Trees : \E x \in live[t] : x > id
    \/ \E x \in etcAside.data : x > id

\* Once anything of a later boot has been written over it, the state of the
\* last healthy boot is in a backup, for as long as its deployment can boot.
RollbackAnchor ==
    /\ OSTree
    /\ lastBoot.dep \in Known
    /\ WrittenSince(lastBoot.boot)
    => Exists(backups, lastBoot)

\* The boots whose cluster has left its trace in etcd, among those of S.
Clusters(S) == {x \in S \cap Boots : wroteAs[x] # 0}

\* No reconcile runs over a half-restored node: the trees are whole, and of the
\* same cluster.  The kubelet's files have the history etcd has; the PKI and
\* the manifests have none that etcd does not have (they may have less, when
\* the host fell back without greenboot's red.d, taking /etc but not /var).
ReconcileOnWholeTrees ==
    pc \in Reconciling =>
        /\ torn = {}
        /\ Clusters(live["kubelet"]) = live["etcd"]
        /\ Clusters(live["kubernetes"]) \subseteq live["etcd"]

\* A restore request is gone before anything is reconciled: it cannot undo
\* the boot that comes after it.
MarkerGoneBeforeReconcile == pc \in Reconciling => ~marker

\* Trees are replaced, and snapshots are taken, only while no etcd runs.
ColdRestore == pc = "restore" => ~kubelet
ColdSnapshot == pc = "snapshot" /\ SnapshotDue /\ ~Exists(backups, prev) => ~kubelet

\* The kubelet never brings up an etcd that holds what another deployment
\* wrote after the last healthy boot.
RolledBackDataIsClean ==
    pc = "startKubelet" =>
        \A x \in live["etcd"] : x <= lastBoot.boot \/ wroteAs[x] = booted

\* Whatever Prune removes, the host can no longer boot, or has a backup of a
\* later boot for, with everything in it.
PruneKeepsMostRecent ==
    [][pc = "pruning" =>
         \A b \in backups \ backups' : b.dep \in Known =>
            \E c \in backups' :
                c.dep = b.dep /\ c.boot >= b.boot /\ c.meta = Name(c)]_vars

\* "last-boot.json: metadata of the last healthy boot" (the repository's README),
\* at least among those of the deployment it names.
LastBootIsLastHealthy ==
    \A r \in recorded : r.dep = lastBoot.dep => r.boot <= lastBoot.boot

-----------------------------------------------------------------------------
(***************************************************************************)
(* The store of this module, under a host that reboots, upgrades and falls *)
(* back, keeps the promise that BackupStore keeps call by call.            *)
(***************************************************************************)
\* A tree that is being replaced is nobody's.
Half == {-1}
SeenLive == [t \in Trees |-> IF t \in torn THEN Half ELSE live[t]]

SavedAs(b) == [name |-> Name(b), data |-> b.data]
Saved == {SavedAs(b) : b \in backups}
TakenBefore(B) ==
    {<<Name(p[1]), Name(p[2])>> : p \in {q \in B \X B : q[1].mtime < q[2].mtime}}

BeingPutBack == IF pc = "restore" THEN {SavedAs(target)} ELSE {}
Reported == IF pc = "meta" THEN "ok" ELSE "none"

\* The deployments that can boot, or are still to be built.
NotForgotten == {d \in Images : d \in Known \/ d > newest}

Store == INSTANCE SnapshotStore WITH
    Deps <- Images,
    Names <- [dep : Images, boot : Boots],
    Contents <- {Half} \cup SUBSET BootIds,
    Torn <- Half,
    live <- SeenLive,
    saved <- Saved,
    before <- TakenBefore(backups),
    known <- NotForgotten,
    goal <- BeingPutBack,
    outcome <- Reported

\* Whatever the host does and wherever the service dies: a backup appears
\* whole and is not changed, Restore puts the newest of the booted deployment
\* back and comes to its end only with all three trees of it, nobody else writes
\* meanwhile, and Prune takes what has a newer one or cannot boot.
StorePromiseKept == Store!Spec

-----------------------------------------------------------------------------
(***************************************************************************)
(* Progress.  The service's own steps are fair: each ends, by itself or by *)
(* its timeout (readyzTimeout, controlPlaneTimeout, the API client's).     *)
(* greenboot gives its verdict, and reboots after red while the counter is *)
(* armed; nothing else of the host is fair.                                *)
(***************************************************************************)
Fairness ==
    /\ WF_vars(BootStep)
    /\ WF_vars(Green \/ Red)
    /\ WF_vars(AutoReboots /\ CleanReboot)

FairSpec == Spec /\ Fairness

\* Boot always comes to an end, healthy or failed.
BootSettles == pc \in Steps ~> pc \in Ended

\* A restore request is consumed: the machine reboots, and the boot that
\* finds the marker removes it -- unless every start of the service from then
\* on fails in its first reads or is killed, or one fails and nobody starts
\* another.
RestoreRequestConsumed ==
    \/ marker ~> ~marker \/ boot = MaxBoot
    \/ []<><<EarlyError \/ ServiceKilled>>_vars
    \/ <>[](pc = "failed")
=============================================================================
