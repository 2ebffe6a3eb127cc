------------------------- MODULE NodeBootPrune_proofs --------------------------
(***************************************************************************)
(* backup.Prune keeps the most recent backup of every deployment the host  *)
(* can boot, for every number of images, boots and attempts.               *)
(***************************************************************************)
EXTENDS NodeBoot_proofs, WellFoundedInduction

\* A bounded set of numbers has a largest one: the smallest distance to the
\* bound.
LEMMA HasLargest ==
    ASSUME NEW N \in Nat, NEW S \in SUBSET (1 .. N), S # {}
    PROVE  \E m \in S : \A k \in S : k <= m
<1> DEFINE T == {N - m : m \in S}
<1>1. T \subseteq Nat /\ T # {}
  <2>1. \A m \in S : m \in Int /\ m <= N
    OBVIOUS
  <2>2. ASSUME NEW x \in T PROVE x \in Nat
    BY <2>1
  <2>3. PICK m \in S : TRUE
    OBVIOUS
  <2>4. N - m \in T
    BY <2>3
  <2> QED
    BY <2>2, <2>4
<1>2. PICK x \in T : \A y \in T : ~(<<y, x>> \in OpToRel(<, Nat))
  <2> HIDE DEF T
  <2> QED
    BY <1>1, WFMin, NatLessThanWellFounded
<1>3. PICK m \in S : x = N - m
  BY <1>2
<1>4. \A k \in S : k <= m
  <2> SUFFICES ASSUME NEW k \in S, ~(k <= m) PROVE FALSE
    OBVIOUS
  <2>1. N - k \in T /\ N - k \in Nat /\ x \in Nat /\ N - k < x
    BY <1>3
  <2>2. <<N - k, x>> \in OpToRel(<, Nat)
    BY <2>1 DEF OpToRel
  <2> QED
    BY <2>1, <2>2, <1>2
<1> QED
  BY <1>4

-----------------------------------------------------------------------------
\* Within a deployment that can boot, a directory written later is of a later
\* boot.
TimesFollowBoots ==
    \A b, c \in backups :
        b.dep \in Known /\ c.dep = b.dep /\ b.mtime < c.mtime => b.boot < c.boot

\* What Prune is about to remove, and the host can boot, has a younger sibling
\* that stays.
YoungerStays ==
    pc = "pruning" =>
        \A b \in doomed : b.dep \in Known =>
            \E c \in backups \ doomed : c.dep = b.dep /\ b.mtime < c.mtime

PruneInv == TimesFollowBoots /\ YoungerStays

\* The directory modified last survives: every deployment that is known and
\* has a backup keeps one, and it is younger than those that go.
LEMMA SurvivorExists ==
    ASSUME TypeOK, NEW b \in backups, b.dep \in Known, b \notin Survivors(backups, Known)
    PROVE  \E c \in Survivors(backups, Known) : c.dep = b.dep /\ b.mtime < c.mtime
<1> DEFINE times == {c.mtime : c \in {d \in backups : d.dep = b.dep}}
<1>1. MaxTime \in Nat /\ \A c \in backups : c.mtime \in 1 .. MaxTime
  BY NodeAssumption DEF TypeOK, BackupRecords
<1>2. times \subseteq 1 .. MaxTime /\ b.mtime \in times
  BY <1>1
<1>3. PICK m \in times : \A k \in times : k <= m
  <2> HIDE DEF times
  <2> QED
    BY <1>1, <1>2, HasLargest
<1>4. PICK c \in backups : c.dep = b.dep /\ c.mtime = m
  BY <1>3
<1>5. IsNewest(c, backups)
  BY <1>3, <1>4 DEF IsNewest
<1>6. c \in Survivors(backups, Known)
  BY <1>4, <1>5 DEF Survivors
<1>7. PICK d \in backups : d.dep = b.dep /\ ~(d.mtime <= b.mtime)
  BY DEF Survivors, IsNewest
<1>8. b.mtime < c.mtime
  BY <1>1, <1>4, <1>5, <1>7 DEF IsNewest
<1> QED
  BY <1>4, <1>6, <1>8

\* Steps that keep the backups and the deployments, and either do not prune or
\* go on pruning the same.
LEMMA PruneKeptOtherwise ==
    ASSUME PruneInv,
           backups' = backups,
           \A b \in backups : b.dep \in Known' => b.dep \in Known,
           pc' = "pruning" => pc = "pruning" /\ doomed' = doomed /\ Known' = Known
    PROVE  PruneInv'
<1>1. TimesFollowBoots'
  BY DEF PruneInv, TimesFollowBoots
<1>2. YoungerStays'
  BY DEF PruneInv, YoungerStays
<1> QED
  BY <1>1, <1>2 DEF PruneInv

LEMMA PruneInvStep ==
    ASSUME RemovesWhole, TypeInv, AnchorInv, PruneInv, [Next]_vars
    PROVE  PruneInv'
<1> USE DEF Goto, Fail, Halt
<1>1. CASE SnapshotTaken
  <2>1. Known' = Known /\ pc' = "ensure"
    BY <1>1 DEF SnapshotTaken, hostVars, Known
  <2>2. PICK m \in 1 .. MaxTime : IsNow(m, backups) /\ backups' = backups \cup {Snapshot(m)}
    BY <1>1 DEF SnapshotTaken
  <2>3. OSTree /\ prev = lastBoot /\ ~Exists(backups, lastBoot)
    BY <1>1 DEF SnapshotTaken, SnapshotDue, AnchorInv, LocalsFresh
  <2>4. lastBoot.dep \in Known => \A b \in backups : b.boot < lastBoot.boot
    BY <2>3 DEF AnchorInv, NewestUnsaved
  <2>5. /\ Snapshot(m).dep = lastBoot.dep /\ Snapshot(m).boot = lastBoot.boot
        /\ Snapshot(m).mtime = m
    BY <2>3 DEF Snapshot
  <2>6. \A b \in backups : b.mtime \in Int /\ b.mtime < m
    BY <2>2 DEF IsNow, TypeInv, TypeOK, BackupRecords
  <2>7. TimesFollowBoots'
    BY <2>1, <2>2, <2>4, <2>5, <2>6 DEF PruneInv, TimesFollowBoots
  <2> QED
    BY <2>1, <2>7 DEF PruneInv, YoungerStays
<1>2. CASE PruneBegin
  <2>1. /\ Known' = Known /\ backups' = backups
        /\ doomed' = backups \ Survivors(backups, Known)
    BY <1>2 DEF PruneBegin, hostVars, diskVars, Known
  <2>2. YoungerStays'
    <3> SUFFICES ASSUME NEW b \in doomed', b.dep \in Known
                 PROVE  \E c \in backups \ doomed' : c.dep = b.dep /\ b.mtime < c.mtime
      BY <2>1 DEF YoungerStays
    <3>1. PICK c \in Survivors(backups, Known) : c.dep = b.dep /\ b.mtime < c.mtime
      BY <2>1, SurvivorExists DEF TypeInv
    <3> QED
      BY <2>1, <3>1 DEF Survivors
  <2> QED
    BY <2>1, <2>2 DEF PruneInv, TimesFollowBoots
<1>3. CASE PruneOne
  <2>1. PICK b \in doomed : backups' = backups \ {b} /\ doomed' = doomed \ {b}
    BY <1>3 DEF PruneOne
  <2>2. Known' = Known /\ pc' = pc /\ pc = "pruning"
    BY <1>3 DEF PruneOne, hostVars, Known
  <2> QED
    BY <2>1, <2>2 DEF PruneInv, TimesFollowBoots, YoungerStays
<1>4. CASE StageUpgrade \/ CleanReboot \/ PowerLoss
  <2>1. backups' = backups /\ pc' # "pruning"
    BY <1>4 DEF StageUpgrade, CleanReboot, PowerLoss, ComesUp, diskVars
  <2>2. \A d \in 0 .. newest : d \in Known' => d \in Known
    BY <1>4, HostMoves DEF AnchorInv, StageUpgrade, CleanReboot, PowerLoss
  <2>3. \A b \in backups : b.dep \in 0 .. newest
    BY DEF AnchorInv, PastOnly, TypeInv, TypeOK, BackupRecords, HostTypeOK, Images
  <2> QED
    BY <2>1, <2>2, <2>3, PruneKeptOtherwise
<1>5. CASE Green \/ Red
  <2>1. UNCHANGED <<booted, fallback, staged, backups, pc, doomed>>
    BY <1>5 DEF Green, HostGreen, Red, HostRed, diskVars, localVars
  <2> QED
    BY <2>1, PruneKeptOtherwise DEF Known
<1>6. CASE \/ BootStep /\ ~SnapshotTaken /\ ~PruneBegin /\ ~PruneOne
           \/ EtcdWrites \/ ServiceKilled \/ RestartService \/ UNCHANGED vars
  <2>1. /\ UNCHANGED <<booted, fallback, staged, backups>>
        /\ pc' = "pruning" => pc = "pruning" /\ doomed' = doomed
    BY <1>6 DEF BootStep, Detect, EarlyError, NoRestoreRequested, NoBackupToRestore,
       BeginRestore, WipeTree, SwapTree, RestoreMeta, RestoreFails, ClearMarker,
       ReadLastBoot, SnapshotSkipped, SnapshotFails, Ensure, EnsureFails, StartKubelet,
       WaitReadyz, EnsureAdminRBAC, WaitControlPlane, MarkControlPlane, PhaseFails,
       EnsureAddons, PruneSkipped, PrunePartly, RemovesWhole, PruneEnds, Record,
       RecordFails, Announce, EtcdWrites, ServiceKilled, RestartService, vars, hostVars,
       diskVars, localVars
  <2> QED
    BY <2>1, PruneKeptOtherwise DEF Known
<1> QED
  BY <1>1, <1>2, <1>3, <1>4, <1>5, <1>6 DEF Next, HostStep

\* Whatever Prune removes (backup.go:246-285), the host can no longer boot, or
\* has a backup of a later boot for, with its meta.json: as long as no removal
\* is cut short.
THEOREM PruneKept == ASSUME RemovesWhole PROVE Spec => PruneKeepsMostRecent
<1>1. Init => TypeInv /\ AnchorInv /\ PruneInv
  BY TypeInit, AnchorInit DEF Init, PruneInv, TimesFollowBoots, YoungerStays
<1>2. TypeInv /\ AnchorInv /\ PruneInv /\ [Next]_vars => (TypeInv /\ AnchorInv /\ PruneInv)'
  BY TypeStep, AnchorStep, PruneInvStep
<1>3. TypeInv /\ AnchorInv /\ PruneInv /\ [Next]_vars =>
        [pc = "pruning" =>
           \A b \in backups \ backups' : b.dep \in Known =>
              \E c \in backups' :
                  c.dep = b.dep /\ c.boot >= b.boot /\ c.meta = Name(c)]_vars
  <2> SUFFICES ASSUME TypeInv, AnchorInv, PruneInv, Next, pc = "pruning",
                      NEW b \in backups \ backups', b.dep \in Known
               PROVE  \E c \in backups' :
                          c.dep = b.dep /\ c.boot >= b.boot /\ c.meta = Name(c)
    OBVIOUS
  <2>1. PruneOne
    BY DEF Next, BootStep, HostStep, Goto, Fail, Halt, Detect, EarlyError,
       NoRestoreRequested, NoBackupToRestore, BeginRestore, WipeTree, SwapTree,
       RestoreMeta, RestoreFails, ClearMarker, ReadLastBoot, SnapshotSkipped,
       SnapshotTaken, SnapshotFails, Ensure, EnsureFails, StartKubelet, WaitReadyz,
       EnsureAdminRBAC, WaitControlPlane, MarkControlPlane, PhaseFails, ClusterPhases,
       EnsureAddons, PruneSkipped, PruneBegin, PrunePartly, RemovesWhole, PruneEnds,
       Record, RecordFails, Announce, EtcdWrites, ServiceKilled, RestartService,
       Green, Red, StageUpgrade, CleanReboot, PowerLoss, ComesUp, diskVars
  <2>2. PICK d \in doomed : backups' = backups \ {d}
    BY <2>1 DEF PruneOne
  <2>3. PICK c \in backups \ doomed : c.dep = b.dep /\ b.mtime < c.mtime
    BY <2>2 DEF PruneInv, YoungerStays
  <2>4. c \in backups' /\ b.boot < c.boot /\ c.meta = Name(c)
    BY <2>2, <2>3 DEF PruneInv, TimesFollowBoots, AnchorInv, MetaIsName
  <2>5. b.boot \in Int /\ c.boot \in Int
    BY DEF TypeInv, TypeOK, BackupRecords, Boots
  <2> QED
    BY <2>3, <2>4, <2>5
<1> QED
  BY <1>1, <1>2, <1>3, PTL DEF Spec, PruneKeepsMostRecent
================================================================================
