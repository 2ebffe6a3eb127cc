----------------------------- MODULE NodeBootInv -------------------------------
(***************************************************************************)
(* The inductive invariants behind NodeBoot's rollback guarantees, by      *)
(* their parts.  TLC checks them on small instances, under the failures    *)
(* the proofs allow: AnchorInv as long as no directory is removed in part  *)
(* (NodeBoot_proofs); DataInv if restores and removals of the marker do    *)
(* not fail either, and only healthy nodes upgrade (NodeBootData_proofs);  *)
(* RollInv if the power stays on, too (NodeBootRollback_proofs).           *)
(***************************************************************************)
EXTENDS NodeBoot

\* Ids come from the past: no deployment is newer than the newest image, and
\* an armed counter has a deployment to fall back to.
HostInv ==
    /\ \A d \in Known : d <= newest
    /\ counter # Unset => fallback # 0

\* No tree and no backup knows a boot that has not happened, a backup is of
\* an earlier boot than this one, and last-boot.json is of this or an earlier.
PastOnly ==
    /\ \A t \in Trees : \A x \in live[t] : x <= boot
    /\ \A x \in etcAside.data : x <= boot
    /\ \A b \in backups : b.boot < boot /\ b.dep <= newest
    /\ lastBoot.boot <= boot
    /\ lastBoot.dep <= newest
    /\ lastBoot.boot = 0 => lastBoot.dep = 0

\* meta.json says what the directory's name says.
MetaIsName == \A b \in backups : b.meta = Name(b)

\* Names are names: no two backups share one.
NamesUnique == \A b, c \in backups : Name(b) = Name(c) => b = c

\* The locals of Boot agree with the disk where they are used.
LocalsFresh ==
    /\ pc = "snapshot" => prev = lastBoot
    /\ pc \in {"restore", "meta"} =>
          target \in LatestForDeployment(backups, booted)
    /\ pc = "pruning" => doomed \subseteq backups

\* The backup of the last healthy boot is the newest of its deployment, and
\* Prune is not about to take it from a deployment that can boot.
AnchorIsNewest ==
    \A b \in backups : Name(b) = lastBoot =>
        /\ IsNewest(b, backups)
        /\ pc = "pruning" /\ b \in doomed => b.dep \notin Known

\* A last healthy boot that has no backup is later than all that have one.
NewestUnsaved ==
    OSTree /\ lastBoot.dep \in Known /\ ~Exists(backups, lastBoot)
        => \A b \in backups : b.boot < lastBoot.boot

\* Before Ensure or etcd can write, the last healthy boot is this very one,
\* or its state is in a backup.
Anchored ==
    kubelet \/ pc \in {"ensure", "startKubelet"} =>
        \/ ~OSTree
        \/ lastBoot.dep \notin Known
        \/ lastBoot.boot = boot
        \/ Exists(backups, lastBoot)

AnchorInv ==
    /\ HostInv
    /\ PastOnly
    /\ MetaIsName
    /\ NamesUnique
    /\ LocalsFresh
    /\ AnchorIsNewest
    /\ NewestUnsaved
    /\ Anchored
    /\ HonestRecords
    /\ SnapshotHoldsItsBoot
    /\ RollbackAnchor

-----------------------------------------------------------------------------
(***************************************************************************)
(* DataInv: what the disk holds, restores under way included.              *)
(***************************************************************************)
HasBackup == LatestForDeployment(backups, booted) # {}

\* A restore is under way, or was cut short, and the next start of the service
\* begins it again: on this deployment, whatever happens to the machine.
RedoPlaces == {"start", "maybeRestore", "restore", "meta", "failed"}
Redo == /\ marker /\ counter = Unset /\ staged = 0 /\ HasBackup
        /\ pc \in RedoPlaces

\* A marker waits for the fallback's boot, or for a boot that has nothing to
\* restore, or for one that will stay the booted deployment.
MarkerAlone ==
    marker =>
       /\ pc \in RedoPlaces \cup {"clearThenGo"}
       /\ \/ AutoReboots /\ counter = 0
          \/ staged = 0 /\ (counter = Unset \/ ~HasBackup)

\* An image is staged by a healthy boot only, and has no backups yet.
LastBootKnown ==
    /\ lastBoot.dep \in {0, booted, fallback}
    /\ staged # 0 \/ pc \in {"announce", "active"} => lastBoot.dep \in {0, booted}
StagedFresh ==
    staged # 0 => booted # staged /\ \A b \in backups : b.dep # staged

\* The three trees are of one cluster.
SameCluster(data) ==
    /\ Clusters(data["kubelet"]) = data["etcd"]
    /\ Clusters(data["kubernetes"]) \subseteq data["etcd"]

BackupsWhole ==
    \A b \in backups :
       /\ b.boot \in b.data["etcd"] \cap b.data["kubelet"]
       /\ b.dep \in Known => SameCluster(b.data)

\* Outside a restore the live trees are whole, and have the last healthy boot.
LiveWhole ==
    \/ Redo
    \/ /\ torn = {}
       /\ SameCluster(live)
       /\ lastBoot.boot # 0 => lastBoot.boot \in live["etcd"] \cap live["kubelet"]

\* ... and so would be the /etc the boot loader may fall back to.
AsideWhole ==
    counter # Unset =>
       /\ ~etcAside.torn
       /\ Clusters(etcAside.data) \subseteq live["etcd"]

\* How far Restore is.
PutBack(t) == live[t] = target.data[t] /\ t \notin torn
RestoreGoes ==
    /\ pc \in {"restore", "meta"} => Redo
    /\ pc = "restore" /\ tree # "etcd" => PutBack("etcd")
    /\ pc = "restore" /\ tree = "kubelet" => PutBack("kubernetes")
    /\ pc = "meta" => \A t \in Trees : PutBack(t)
    /\ pc \notin {"restore", "meta"} => tree = "etcd"

\* What this boot has written.
PastReady ==
    {"rbac", "controlPlane", "mark", "addons", "prune", "pruning", "record", "announce"}
BootWrote ==
    /\ kubelet \/ pc \in PastReady \cup {"startKubelet", "readyz"} => boot \in live["kubelet"]
    /\ pc \in PastReady => boot \in live["etcd"]
EtcdWrote ==
    /\ \A x \in Boots : x > boot => wroteAs[x] = 0
    /\ ~kubelet => wroteAs[boot] = 0
    /\ wroteAs[boot] # 0 => boot \in live["etcd"]

HostPart == MarkerAlone /\ LastBootKnown /\ StagedFresh
DataPart == BackupsWhole /\ LiveWhole /\ AsideWhole

\* Wherever Boot or Restore is cut short: the trees are whole and of one cluster,
\* or a restore will put whole ones back; the backups are whole; and a request
\* to restore is left only for a boot it is meant for (red.d, maybeRestore).
DataInv == HostPart /\ DataPart /\ RestoreGoes /\ BootWrote /\ EtcdWrote

-----------------------------------------------------------------------------
(***************************************************************************)
(* RollInv: what a rollback returns to.                                    *)
(***************************************************************************)
\* Images are staged by boots recorded as healthy, and only those boots are.
Healthy ==
    /\ staged # 0 => OSTree
    /\ staged # 0 \/ pc \in {"announce", "active"} => lastBoot = ThisBoot
    /\ lastBoot.boot = boot => lastBoot = ThisBoot

\* A boot that counts attempts is of a new image, and is not yet green; after
\* red on the last attempt a restore is requested.
Armed ==
    /\ counter # Unset => OSTree /\ fallback # booted
    /\ verdict = "green" => counter = Unset
    /\ AutoReboots /\ counter = 0 => marker

\* /etc/kubernetes, too, has what the last healthy boot wrote there.
WritesEtc == PastReady \cup {"startKubelet", "readyz"}
KubeHeld ==
    /\ \A b \in backups : b.boot \in b.data["kubernetes"]
    /\ Redo \/ (lastBoot.boot # 0 => lastBoot.boot \in live["kubernetes"])
    /\ pc \in WritesEtc => boot \in live["kubernetes"]
    /\ pc \in PastReady => kubelet

\* The image to fall back to has a backup; or it was the last to be healthy,
\* and its own /etc is as it left it.
FallbackSaved ==
    counter # Unset =>
       \/ \E b \in backups : b.dep = fallback
       \/ lastBoot.dep = fallback /\ lastBoot.boot \in etcAside.data

\* What was written to etcd since the last healthy boot, this image wrote.
CleanEtcd ==
    \/ Redo
    \/ \A x \in live["etcd"] : x <= lastBoot.boot \/ wroteAs[x] = booted

\* At all times the fallback image can be started on its own data: red.d leaves
\* its request, a backup answers it, or nothing was written that needs one.
RollInv == Healthy /\ Armed /\ KubeHeld /\ FallbackSaved /\ CleanEtcd
=============================================================================
