------------------------------ MODULE BackupStore ------------------------------
(***************************************************************************)
(* internal/backup/backup.go call by call: the directories Create, Restore *)
(* and Prune make, fill, rename and remove, for a process that may meet an *)
(* error at any of them, or die between any two.  NodeBoot takes Create to *)
(* be one step; this module shows that it may (Implements).                *)
(*                                                                         *)
(* The content of a tree is a number: the version last written, Absent, or *)
(* Torn (in pieces, or gone until its replacement is renamed into place).  *)
(* The callers are any: they create under any name, restore and prune for  *)
(* any deployments the host has, and write the trees between the calls but *)
(* not during one (NodeBoot's ColdSnapshot and ColdRestore).  A published  *)
(* directory goes in one step; PrunePartly of NodeBoot has the case where  *)
(* it does not.                                                            *)
(***************************************************************************)
EXTENDS BackupSets

CONSTANTS
    MaxDeps,    \* bound: how many deployments there are
    MaxBoot,    \* bound: how many boots a snapshot may be named after
    MaxWrites,  \* bound: how often a tree is written
    MaxTime,    \* bound: the ticks of the modification times
    MaxTroubles \* bound: how many calls fail, or die

ASSUME StoreAssumption ==
    /\ MaxDeps \in Nat \ {0}
    /\ MaxBoot \in Nat \ {0}
    /\ MaxWrites \in Nat
    /\ MaxTime \in Nat \ {0}
    /\ MaxTroubles \in Nat

VARIABLES
    live,       \* [Trees -> Contents]
    writes,     \* how often one has been written
    backups,    \* the directories List shows, as in BackupSets
    tmp,        \* the `.tmp` directories beside them
    staged,     \* the `.restoring` sibling of each live tree (Absent: none)
    known,      \* the deployments rpm-ostree lists
    troubles,   \* how many calls have failed, or died
    pc,         \* where the running call stands
    name,       \* the backup Create is making
    target,     \* the backup Restore is copying
    tree,       \* the tree either has come to
    outcome     \* what the last Restore returned

diskVars == <<live, writes, backups, tmp, staged, known>>
locals == <<name, target, tree>>
callVars == <<pc, locals, outcome>>
vars == <<diskVars, callVars, troubles>>

Torn == -1
Absent == 0
Contents == Torn .. MaxWrites
Deps == 1 .. MaxDeps
Names == [dep : Deps, boot : 1 .. MaxBoot]
Nothing == [t \in Trees |-> Absent]

BackupDirs == [dep   : Deps,
               boot  : 1 .. MaxBoot,
               data  : [Trees -> Contents],
               mtime : 1 .. MaxTime]

NoName == [dep |-> 0, boot |-> 0]
NoTarget == [dep |-> 0, boot |-> 0, data |-> Nothing, mtime |-> 0]

Copying == {"copy", "copying", "publish"}
Creating == Copying \cup {"clean", "rollback"}
Restoring == {"stage", "staging", "wipe", "swap"}

TypeOK ==
    /\ live \in [Trees -> Contents]
    /\ writes \in 0 .. MaxWrites
    /\ backups \subseteq BackupDirs
    /\ tmp \subseteq [name : Names, data : [Trees -> Contents]]
    /\ staged \in [Trees -> Contents]
    /\ known \subseteq Deps
    /\ troubles \in 0 .. MaxTroubles
    /\ pc \in {"idle", "pruning"} \cup Creating \cup Restoring
    /\ name \in Names \cup {NoName}
    /\ target \in BackupDirs \cup {NoTarget}
    /\ tree \in Trees
    /\ outcome \in {"none", "ok", "error"}
    /\ pc \in Creating => name # NoName
    /\ pc \in Copying => \E d \in tmp : d.name = name

\* Bootstrap has written its files, etcd has not run yet.
Init ==
    /\ live = [t \in Trees |-> Absent]
    /\ writes = 0
    /\ backups = {}
    /\ tmp = {}
    /\ staged = Nothing
    /\ known = Deps
    /\ troubles = 0
    /\ pc = "idle"
    /\ name = NoName
    /\ target = NoTarget
    /\ tree = "etcd"
    /\ outcome = "none"

\* The order in which Create and Restore visit the trees.
TreeAfter(t) == IF t = "etcd" THEN "kubernetes" ELSE "kubelet"

\* The call is over: its locals go with it.
Return ==
    /\ pc' = "idle"
    /\ name' = NoName
    /\ target' = NoTarget
    /\ tree' = "etcd"

\* Something goes wrong.
Trouble ==
    /\ troubles < MaxTroubles
    /\ troubles' = troubles + 1

-----------------------------------------------------------------------------
(***************************************************************************)
(* Create.                                                                 *)
(***************************************************************************)
OtherTmps == {d \in tmp : d.name # name}

\* A mutant: what an interrupted Create left is not removed first.
TmpReused ==
    IF \E d \in tmp : d.name = name
       THEN {d \in tmp : d.name = name}
       ELSE {[name |-> name, data |-> Nothing]}

\* A mutant: MkdirAll comes first, and RemoveAll takes its directory away.
TmpRemovedLate == {}

\* RemoveAll(tmp), MkdirAll(tmp).
FreshTmp == {[name |-> name, data |-> Nothing]}

\* cp has copied part of a tree, or all of it.
TmpWith(content) ==
    OtherTmps \cup {[name |-> name, data |-> [d.data EXCEPT ![tree] = content]] :
                       d \in tmp \ OtherTmps}

\* If the backup exists Create returns at once, and nothing happens.
CallCreate(n) ==
    /\ pc = "idle"
    /\ ~Exists(backups, n)
    /\ \E m \in 1 .. MaxTime : IsNow(m, backups)
    /\ pc' = "clean"
    /\ name' = n
    /\ UNCHANGED <<diskVars, target, tree, outcome, troubles>>

CleanTmp ==
    /\ pc = "clean"
    /\ tmp' = OtherTmps \cup FreshTmp
    /\ pc' = "copy"
    /\ UNCHANGED <<live, writes, backups, staged, known, locals, outcome, troubles>>

\* copyDirIfExists, copyFileIfExists: what is absent is not copied.
CopyBegins ==
    /\ pc = "copy"
    /\ live[tree] # Absent
    /\ tmp' = TmpWith(Torn)
    /\ pc' = "copying"
    /\ UNCHANGED <<live, writes, backups, staged, known, locals, outcome, troubles>>

NextCopy ==
    /\ tree' = TreeAfter(tree)
    /\ pc' = IF tree = "kubelet" THEN "publish" ELSE "copy"
    /\ UNCHANGED <<live, writes, backups, staged, known, name, target, outcome, troubles>>

CopyEnds == pc = "copying" /\ tmp' = TmpWith(live[tree]) /\ NextCopy
CopyNothing == pc = "copy" /\ live[tree] = Absent /\ tmp' = tmp /\ NextCopy

\* A mutant: a copy is published, and the `.tmp` directory stays.
TmpsAfterCopy == tmp

\* os.Rename takes the `.tmp` directory away.
TmpsAfterRename == OtherTmps

\* writeMeta, and the rename that makes the backup appear.
Publish ==
    /\ pc = "publish"
    /\ \E d \in tmp \ OtherTmps, m \in 1 .. MaxTime :
          /\ IsNow(m, backups)
          /\ backups' = backups \cup
                 {[dep |-> name.dep, boot |-> name.boot, data |-> d.data, mtime |-> m]}
    /\ tmp' = TmpsAfterRename
    /\ Return
    /\ UNCHANGED <<live, writes, staged, known, outcome, troubles>>

\* RemoveAll or MkdirAll failed: there is nothing to roll back.
CleanFails ==
    /\ pc = "clean"
    /\ Trouble
    /\ Return
    /\ UNCHANGED <<diskVars, outcome>>

\* A copy, the meta file or the rename failed.
CreateFails ==
    /\ pc \in Copying
    /\ Trouble
    /\ pc' = "rollback"
    /\ UNCHANGED <<diskVars, locals, outcome>>

\* rollbackTmp, whose RemoveAll may fail too.
RollbackTmp ==
    /\ pc = "rollback"
    /\ \/ tmp' = OtherTmps /\ UNCHANGED troubles
       \/ tmp' = tmp /\ Trouble
    /\ Return
    /\ UNCHANGED <<live, writes, backups, staged, known, outcome>>

-----------------------------------------------------------------------------
(***************************************************************************)
(* LatestForDeployment and Restore.                                        *)
(***************************************************************************)
CallRestore(d) ==
    /\ pc = "idle"
    /\ target' \in LatestForDeployment(backups, d)
    /\ pc' = "stage"
    /\ UNCHANGED <<diskVars, name, tree, outcome, troubles>>

\* RemoveAll(staged) and cp; a tree the backup does not cover has no copy.
StageBegins ==
    /\ pc = "stage"
    /\ target.data[tree] # Absent
    /\ staged' = [staged EXCEPT ![tree] = Torn]
    /\ pc' = "staging"
    /\ UNCHANGED <<live, writes, backups, tmp, known, locals, outcome, troubles>>

StageEnds ==
    /\ pc = "staging"
    /\ staged' = [staged EXCEPT ![tree] = target.data[tree]]
    /\ pc' = "wipe"
    /\ UNCHANGED <<live, writes, backups, tmp, known, locals, outcome, troubles>>

NothingToStage ==
    /\ pc = "stage"
    /\ target.data[tree] = Absent
    /\ pc' = "wipe"
    /\ UNCHANGED <<diskVars, locals, outcome, troubles>>

\* RemoveAll(dst); of the kubelet's files the first is renamed into place.
WipeTree ==
    /\ pc = "wipe"
    /\ live' = [live EXCEPT ![tree] = Torn]
    /\ pc' = "swap"
    /\ UNCHANGED <<writes, backups, tmp, staged, known, locals, outcome, troubles>>

\* A mutant: the sibling is renamed even when the backup has no such tree.
PlacedIfStaged == staged[tree]

\* What is in the live tree's place in the end.
Placed == IF target.data[tree] = Absent THEN Absent ELSE staged[tree]

SwapTree ==
    /\ pc = "swap"
    /\ live' = [live EXCEPT ![tree] = Placed]
    /\ staged' = [staged EXCEPT ![tree] =
                     IF target.data[tree] = Absent THEN @ ELSE Absent]
    /\ IF tree = "kubelet"
          THEN Return /\ outcome' = "ok"
          ELSE pc' = "stage" /\ tree' = TreeAfter(tree)
               /\ UNCHANGED <<name, target, outcome>>
    /\ UNCHANGED <<writes, backups, tmp, known, troubles>>

\* Any of these calls fails; the sibling may be removed, or stay.
RestoreFails ==
    /\ pc \in Restoring
    /\ Trouble
    /\ \/ staged' = staged
       \/ pc # "stage" /\ staged' = [staged EXCEPT ![tree] = Absent]
    /\ Return
    /\ outcome' = "error"
    /\ UNCHANGED <<live, writes, backups, tmp, known>>

-----------------------------------------------------------------------------
(***************************************************************************)
(* Prune.                                                                  *)
(***************************************************************************)
CallPrune ==
    /\ pc = "idle"
    /\ pc' = "pruning"
    /\ UNCHANGED <<diskVars, locals, outcome, troubles>>

PruneOne ==
    /\ pc = "pruning"
    /\ \E b \in backups \ Survivors(backups, known) : backups' = backups \ {b}
    /\ UNCHANGED <<live, writes, tmp, staged, known, callVars, troubles>>

\* It is through, or a RemoveAll failed.
PruneEnds ==
    /\ pc = "pruning"
    /\ Return
    /\ UNCHANGED <<diskVars, outcome, troubles>>

-----------------------------------------------------------------------------
\* The process dies, and the next one finds the disk as it is.
Dies ==
    /\ pc # "idle"
    /\ Trouble
    /\ Return
    /\ outcome' = IF pc \in Restoring THEN "error" ELSE outcome
    /\ UNCHANGED diskVars

\* Ensure and etcd, while no call is running.
Write(t) ==
    /\ pc = "idle"
    /\ writes < MaxWrites
    /\ writes' = writes + 1
    /\ live' = [live EXCEPT ![t] = writes + 1]
    /\ outcome' = "none"
    /\ UNCHANGED <<backups, tmp, staged, known, pc, locals, troubles>>

\* bootc garbage-collects a deployment.
Retire(d) ==
    /\ pc = "idle"
    /\ known' = known \ {d}
    /\ UNCHANGED <<live, writes, backups, tmp, staged, callVars, troubles>>

Create ==
    \/ \E n \in Names : CallCreate(n)
    \/ CleanTmp \/ CopyBegins \/ CopyEnds \/ CopyNothing \/ Publish
    \/ CleanFails \/ CreateFails \/ RollbackTmp

Restore ==
    \/ \E d \in known : CallRestore(d)
    \/ StageBegins \/ StageEnds \/ NothingToStage \/ WipeTree \/ SwapTree
    \/ RestoreFails

Prune == CallPrune \/ PruneOne \/ PruneEnds

Others == Dies \/ (\E t \in Trees : Write(t)) \/ (\E d \in known : Retire(d))

Next == Create \/ Restore \/ Prune \/ Others

Spec == Init /\ [][Next]_vars

-----------------------------------------------------------------------------
(***************************************************************************)
(* The store implements its promise.  Nobody can tell Create from one step *)
(* at its rename: not by what a crash leaves, nor by what an earlier       *)
(* crash had left, nor from an error.                                      *)
(***************************************************************************)
Snapshot(b) == [name |-> Name(b), data |-> b.data]

Saved == {Snapshot(b) : b \in backups}

TakenBefore ==
    {n \in Names \X Names :
       \E b, c \in backups :
          n = <<Name(b), Name(c)>> /\ b.mtime < c.mtime}

BeingPutBack == IF pc \in Restoring THEN {Snapshot(target)} ELSE {}

Promise == INSTANCE SnapshotStore WITH
    saved <- Saved, before <- TakenBefore, goal <- BeingPutBack

\* backup.go keeps what its package comment promises: atomic snapshots of one
\* moment, restores of the newest that are total when they succeed, and no
\* snapshot dropped but for a newer one or a deployment that is gone.
Implements == Promise!Spec

\* What an interrupted Create leaves can still be reclaimed: only Create of
\* the same name removes a `.tmp`, and that does nothing once the name exists.
StrayIsReclaimable ==
    \A d \in tmp : ~Exists(backups, d.name)
=============================================================================
