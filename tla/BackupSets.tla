------------------------------ MODULE BackupSets -------------------------------
(***************************************************************************)
(* The pure part of internal/backup/backup.go: which backup a restore      *)
(* picks and which ones Prune keeps, over a set of backup records          *)
(*                                                                         *)
(*   [dep, boot : the two halves of the directory name  (backup.Name)      *)
(*    data      : what each saved tree contains                            *)
(*    meta      : meta.json, the LastBoot the backup was taken for         *)
(*    mtime     : the directory's modification time]                       *)
(*                                                                         *)
(* The contents of a tree are abstracted to its provenance: the set of     *)
(* boots that wrote into it (0 is `nanok8s bootstrap`; {} is an absent or  *)
(* emptied tree).  A directory name is a pair, not a string: ids contain   *)
(* no "_".                                                                 *)
(***************************************************************************)
EXTENDS Integers

\* The three things a backup holds, in the order Create and Restore visit
\* them: /var/lib/etcd, /etc/kubernetes, and the kubelet's state files.
Trees == {"etcd", "kubernetes", "kubelet"}

\* state.LastBoot without the version; the zero value is an absent file.
NoLastBoot == [dep |-> 0, boot |-> 0]

\* Name(meta): the directory a snapshot of boot `meta` is saved under.
Name(b) == [dep |-> b.dep, boot |-> b.boot]

Exists(B, meta) == \E b \in B : Name(b) = meta

IsNewest(b, B) == \A c \in B : c.dep = b.dep => c.mtime <= b.mtime

\* A mutant: a restore that takes any backup of the deployment.
AnyForDeployment(B, d) == {b \in B : b.dep = d}

\* LatestForDeployment: at most one backup, when modification times differ.
LatestForDeployment(B, d) == {b \in B : b.dep = d /\ IsNewest(b, B)}

\* A mutant: the sort in Prune compares the wrong way round.
SurvivorsOldest(B, known) ==
    {b \in B : b.dep \in known /\ \A c \in B : c.dep = b.dep => b.mtime <= c.mtime}

\* What Prune leaves of B when rpm-ostree lists the deployments `known`.
Survivors(B, known) == {b \in B : b.dep \in known /\ IsNewest(b, B)}

\* m is the modification time a directory of B gets when it is written now:
\* later than all of B.  Only the order of the times matters, so the clock
\* takes the first free tick.
IsNow(m, B) ==
    /\ \A b \in B : b.mtime < m
    /\ m = 1 \/ \E b \in B : b.mtime = m - 1
=============================================================================
