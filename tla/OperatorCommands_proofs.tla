------------------------ MODULE OperatorCommands_proofs ------------------------
(***************************************************************************)
(* What OperatorCommands promises, for any configuration files and any     *)
(* number of clusters, commands, boots and troubles, on the inductive      *)
(* invariant CommandInv.                                                   *)
(***************************************************************************)
EXTENDS OperatorCommands, TLAPS

\* Where the operator's command or Boot may stand.
Places ==
    {"idle", "check", "load", "pki", "manifests", "kubeletFiles", "event",
     "stopKubelet", "containers", "unmount", "remove", "network", "off",
     "startKubelet", "wait", "mark", "record", "active", "failed"}

Typed ==
    /\ clusters \in Nat
    /\ pki \in 0 .. clusters
    /\ etcd \in 0 .. clusters
    /\ lastBoot \in 0 .. clusters
    /\ joined \in 0 .. clusters
    /\ known \subseteq 0 .. clusters
    /\ at \in [Processes -> Places]
    /\ tree \in 1 .. 4
    /\ at["command"] # "remove" => tree = 1
    /\ at["boot"] \in {"mark", "record"} => joined # 0
    /\ result = "reset" => at["command"] = "idle"

\* Reset is through with the n-th of its trees.
Removed(n) ==
    \/ at["command"] = "network"
    \/ at["command"] = "remove" /\ tree > n

\* A reset that runs by itself: what it has stopped and removed stays so.
ResetAlone ==
    Resetting /\ ~Disturbed =>
        /\ ~Booting
        /\ at["command"] # "stopKubelet" => ~kubelet
        /\ at["command"] \in {"unmount", "remove", "network"} =>
              (pods => "containers" \in amiss)
        /\ Removed(1) => pki = 0 /\ ~manifests
        /\ Removed(2) => etcd = 0
        /\ Removed(3) => ~kubeletDir /\ ~mounts
        /\ Removed(4) => lastBoot = 0 /\ ~lastEvent

\* `pending` tells what runs beside a reset.
Pending ==
    Resetting => /\ pending # "no"
                 /\ pending # "overlapped" => ~Disturbed

\* After a reset that ran by itself nothing comes back until a boot.
AfterReset ==
    result = "reset" /\ ~Disturbed => Undone /\ ~Booting

\* A known cluster has left a file in the state directory while its CA or its
\* data is there.
Guarded ==
    pending # "overlapped" /\ {pki, etcd} \cap (known \ {0}) # {} =>
        lastBoot # 0 \/ lastEvent

\* Where a Boot that has been through CreatePKIAssets stands.
PastPKI == {"manifests", "kubeletFiles", "startKubelet", "wait", "mark", "record"}

\* Boot keeps the CA it has found or made; an unforced bootstrap that is about
\* to make one was right when it checked, and still is.
KeepsCA ==
    pending # "overlapped" =>
        /\ at["boot"] \in PastPKI => pki # 0
        /\ at["command"] \in {"load", "pki"} /\ ~force /\ pki = 0 =>
              etcd \notin known \ {0}

\* One CA, and everything else is its.
OfOneCA ==
    pending = "no" =>
        /\ etcd \in {0, pki}
        /\ lastBoot \in {0, pki}
        /\ at["boot"] \in {"mark", "record"} => joined = pki

CommandInv ==
    /\ Typed /\ ResetAlone /\ Pending /\ AfterReset /\ Guarded /\ KeepsCA /\ OfOneCA

-----------------------------------------------------------------------------
\* The four trees, in the order of runReset.
LEMMA TreeOrder ==
    /\ Len(Trees) = 4
    /\ Trees[1] = "kubernetes" /\ Trees[2] = "etcd"
    /\ Trees[3] = "kubelet" /\ Trees[4] = "nanok8s"
  BY DEF Trees

USE DEF files, running, locals, history, resetHistory, counts, Trouble,
        Resetting, Booting, Disturbed

\* Every step moves a process or none.
LEMMA AtStep ==
    ASSUME at \in [Processes -> Places], [Next]_vars
    PROVE  at' \in [Processes -> Places]
<1> USE DEF Goto, Return, AnotherCommand, BootGoto, BeginReset, Processes
<1>1. CASE Bootstrap BY <1>1 DEF Bootstrap, Places
<1>2. CASE BootstrapCheck BY <1>2 DEF BootstrapCheck, Places
<1>3. CASE BootstrapLoad BY <1>3 DEF BootstrapLoad, Places
<1>4. CASE BootstrapEvent BY <1>4 DEF BootstrapEvent, Places
<1>5. CASE CommandFails BY <1>5 DEF CommandFails, Places
<1>6. CASE Reset BY <1>6 DEF Reset, Places
<1>7. CASE ResetAgain BY <1>7 DEF ResetAgain, Places
<1>8. CASE ResetWithoutYes BY <1>8 DEF ResetWithoutYes, Places
<1>9. CASE StopKubelet BY <1>9 DEF StopKubelet, Places
<1>10. CASE CleanupCRIContainers BY <1>10 DEF CleanupCRIContainers, Places
<1>11. CASE UnmountKubeletMounts BY <1>11 DEF UnmountKubeletMounts, Places
<1>12. CASE RemoveTree BY <1>12 DEF RemoveTree, Places
<1>13. CASE RemoveFails BY <1>13 DEF RemoveFails, Places
<1>14. CASE CleanNetwork BY <1>14 DEF CleanNetwork, Places
<1>15. CASE BootStart BY <1>15 DEF BootStart, Places
<1>16. CASE BootLoad BY <1>16 DEF BootLoad, Places
<1>17. CASE BootStartKubelet BY <1>17 DEF BootStartKubelet, Places
<1>18. CASE BootWait BY <1>18 DEF BootWait, Places
<1>19. CASE BootMark BY <1>19 DEF BootMark, Places
<1>20. CASE BootRecord BY <1>20 DEF BootRecord, Places
<1>21. CASE BootEvent BY <1>21 DEF BootEvent, Places
<1>22. CASE BootFails BY <1>22 DEF BootFails, Places
<1>23. CASE BootStop BY <1>23 DEF BootStop, Places
<1>24. CASE KubeletRunsPods BY <1>24 DEF KubeletRunsPods, Places
<1>25. CASE KubeletStopsPods BY <1>25 DEF KubeletStopsPods, Places
<1>26. CASE Restart BY <1>26 DEF Restart, Places
<1>27. ASSUME NEW p \in Processes, EnsurePKI(p) PROVE at' \in [Processes -> Places]
   BY <1>27 DEF EnsurePKI, Places
<1>28. ASSUME NEW p \in Processes, EnsureManifests(p) PROVE at' \in [Processes ->
    Places]
   BY <1>28 DEF EnsureManifests, Places
<1>29. ASSUME NEW p \in Processes, EnsureKubeletFiles(p) PROVE at' \in [Processes ->
    Places]
   BY <1>29 DEF EnsureKubeletFiles, Places
<1>30. CASE UNCHANGED vars BY <1>30 DEF vars
<1> QED BY <1>1, <1>2, <1>3, <1>4, <1>5, <1>6, <1>7, <1>8, <1>9, <1>10, <1>11,
    <1>12, <1>13, <1>14, <1>15, <1>16, <1>17, <1>18, <1>19, <1>20, <1>21, <1>22,
    <1>23, <1>24, <1>25, <1>26, <1>27, <1>28, <1>29, <1>30 DEF Next, BootstrapStep,
    ResetStep, BootStep, System, EnsureStep

\* What RemoveTree unlinks, tree by tree, and what it lets be.
LEMMA TreeRemoved ==
    ASSUME Typed, RemoveTree
    PROVE  /\ at["command"] = "remove"
           /\ IF tree = 1 THEN pki' = 0 /\ ~manifests'
                          ELSE pki' = pki /\ (manifests' <=> manifests)
           /\ IF tree = 2 THEN etcd' = 0 ELSE etcd' = etcd
           /\ IF tree = 3 THEN ~mounts /\ ~kubeletDir' ELSE kubeletDir'
               <=> kubeletDir
           /\ IF tree = 4 THEN lastBoot' = 0 /\ ~lastEvent'
                          ELSE lastBoot' = lastBoot /\ (lastEvent' <=> lastEvent)
           /\ IF tree = 4 THEN at'["command"] = "network" /\ tree' = 1
                          ELSE at'["command"] = "remove" /\ tree' = tree + 1
           /\ at'["boot"] = at["boot"]
           /\ UNCHANGED <<running, force, joined, result, history,
               resetHistory, counts>>
<1> USE TreeOrder DEF RemoveTree, Unlink, TreeToRemove
<1>0. tree \in 1 .. 4 /\ at \in [Processes -> Places] BY DEF Typed
<1>5. /\ at["command"] = "remove" /\ at'["boot"] = at["boot"]
      /\ UNCHANGED <<running, force, joined, result, history, resetHistory, counts>>
      /\ IF tree = 4 THEN at'["command"] = "network" /\ tree' = 1
                     ELSE at'["command"] = "remove" /\ tree' = tree + 1
  BY <1>0 DEF Goto, Processes
<1>1. CASE tree = 1
  <2>1. EntriesOf(TreeToRemove) = {"pki", "manifests"}
    BY <1>1 DEF EntriesOf
  <2> QED
    BY <1>5, <1>1, <2>1 DEF Removable
<1>2. CASE tree = 2
  <2>1. EntriesOf(TreeToRemove) = {"etcd"}
    BY <1>2 DEF EntriesOf
  <2> QED
    BY <1>5, <1>2, <2>1 DEF Removable
<1>3. CASE tree = 3
  <2>1. EntriesOf(TreeToRemove) = {"kubeletDir"}
    BY <1>3 DEF EntriesOf
  <2> QED
    BY <1>5, <1>3, <2>1 DEF Removable
<1>4. CASE tree = 4
  <2>1. EntriesOf(TreeToRemove) = {"lastBoot", "lastEvent"}
    BY <1>4 DEF EntriesOf
  <2> QED
    BY <1>5, <1>4, <2>1 DEF Removable
<1> QED
  BY <1>0, <1>1, <1>2, <1>3, <1>4

\* CommandInv is inductive: action by action, types first, then what relates.
LEMMA Step ==
    ASSUME CommandInv, [Next]_vars
    PROVE  CommandInv'
<1> USE TreeOrder DEF Goto, Return, AnotherCommand, BootGoto, Processes, Places,
        ResetSteps, BootSteps, EnsureSteps, Removed, Undone, Exists, PastPKI, NoNode
<1>a. at' \in [Processes -> Places]
  BY AtStep DEF CommandInv, Typed
<1> USE <1>a
<1>1. CASE Bootstrap
  <2>1. Typed'
    BY <1>1 DEF CommandInv, Typed, Bootstrap
  <2>2. ResetAlone' /\ Pending' /\ AfterReset' /\ Guarded' /\ KeepsCA' /\ OfOneCA'
    BY <1>1 DEF CommandInv, Typed, ResetAlone, Pending, AfterReset, Guarded,
        KeepsCA, OfOneCA, Bootstrap
  <2> QED
    BY <2>1, <2>2 DEF CommandInv
<1>2. CASE BootstrapCheck
  <2>1. Typed'
    BY <1>2 DEF CommandInv, Typed, BootstrapCheck
  <2>2. ResetAlone' /\ Pending' /\ AfterReset' /\ Guarded' /\ KeepsCA' /\ OfOneCA'
    BY <1>2 DEF CommandInv, Typed, ResetAlone, Pending, AfterReset, Guarded,
        KeepsCA, OfOneCA, BootstrapCheck
  <2> QED
    BY <2>1, <2>2 DEF CommandInv
<1>3. CASE BootstrapLoad
  <2>1. Typed'
    BY <1>3 DEF CommandInv, Typed, BootstrapLoad
  <2>2. ResetAlone' /\ Pending' /\ AfterReset' /\ Guarded' /\ KeepsCA' /\ OfOneCA'
    BY <1>3 DEF CommandInv, Typed, ResetAlone, Pending, AfterReset, Guarded,
        KeepsCA, OfOneCA, BootstrapLoad
  <2> QED
    BY <2>1, <2>2 DEF CommandInv
<1>4. CASE BootstrapEvent
  <2>1. Typed'
    BY <1>4 DEF CommandInv, Typed, BootstrapEvent
  <2>2. ResetAlone' /\ Pending' /\ AfterReset' /\ Guarded' /\ KeepsCA' /\ OfOneCA'
    BY <1>4 DEF CommandInv, Typed, ResetAlone, Pending, AfterReset, Guarded,
        KeepsCA, OfOneCA, BootstrapEvent
  <2> QED
    BY <2>1, <2>2 DEF CommandInv
<1>5. CASE CommandFails
  <2>1. Typed'
    BY <1>5 DEF CommandInv, Typed, CommandFails
  <2>2. ResetAlone' /\ Pending' /\ AfterReset' /\ Guarded' /\ KeepsCA' /\ OfOneCA'
    BY <1>5 DEF CommandInv, Typed, ResetAlone, Pending, AfterReset, Guarded,
        KeepsCA, OfOneCA, CommandFails
  <2> QED
    BY <2>1, <2>2 DEF CommandInv
<1>6. CASE Reset
  <2>1. Typed'
    BY <1>6 DEF CommandInv, Typed, Reset, BeginReset
  <2>2. ResetAlone' /\ Pending' /\ AfterReset' /\ Guarded' /\ KeepsCA' /\ OfOneCA'
    BY <1>6 DEF CommandInv, Typed, ResetAlone, Pending, AfterReset, Guarded,
        KeepsCA, OfOneCA, Reset, BeginReset
  <2> QED
    BY <2>1, <2>2 DEF CommandInv
<1>7. CASE ResetAgain
  <2>1. Typed'
    BY <1>7 DEF CommandInv, Typed, ResetAgain, BeginReset
  <2>2. ResetAlone' /\ Pending' /\ AfterReset' /\ Guarded' /\ KeepsCA' /\ OfOneCA'
    BY <1>7 DEF CommandInv, Typed, ResetAlone, Pending, AfterReset, Guarded,
        KeepsCA, OfOneCA, ResetAgain, BeginReset
  <2> QED
    BY <2>1, <2>2 DEF CommandInv
<1>8. CASE ResetWithoutYes
  <2>1. Typed'
    BY <1>8 DEF CommandInv, Typed, ResetWithoutYes
  <2>2. ResetAlone' /\ Pending' /\ AfterReset' /\ Guarded' /\ KeepsCA' /\ OfOneCA'
    BY <1>8 DEF CommandInv, Typed, ResetAlone, Pending, AfterReset, Guarded,
        KeepsCA, OfOneCA, ResetWithoutYes
  <2> QED
    BY <2>1, <2>2 DEF CommandInv
<1>9. CASE StopKubelet
  <2>1. Typed'
    BY <1>9 DEF CommandInv, Typed, StopKubelet, DoneOrNoted
  <2>2. ResetAlone' /\ Pending' /\ AfterReset' /\ Guarded' /\ KeepsCA' /\ OfOneCA'
    BY <1>9 DEF CommandInv, Typed, ResetAlone, Pending, AfterReset, Guarded,
        KeepsCA, OfOneCA, StopKubelet, DoneOrNoted
  <2> QED
    BY <2>1, <2>2 DEF CommandInv
<1>10. CASE CleanupCRIContainers
  <2>1. Typed'
    BY <1>10 DEF CommandInv, Typed, CleanupCRIContainers, DoneOrNoted
  <2>2. ResetAlone' /\ Pending' /\ AfterReset' /\ Guarded' /\ KeepsCA' /\ OfOneCA'
    BY <1>10 DEF CommandInv, Typed, ResetAlone, Pending, AfterReset, Guarded,
        KeepsCA, OfOneCA, CleanupCRIContainers, DoneOrNoted
  <2> QED
    BY <2>1, <2>2 DEF CommandInv
<1>11. CASE UnmountKubeletMounts
  <2>1. Typed'
    BY <1>11 DEF CommandInv, Typed, UnmountKubeletMounts
  <2>2. ResetAlone' /\ Pending' /\ AfterReset' /\ Guarded' /\ KeepsCA' /\ OfOneCA'
    BY <1>11 DEF CommandInv, Typed, ResetAlone, Pending, AfterReset, Guarded,
        KeepsCA, OfOneCA, UnmountKubeletMounts
  <2> QED
    BY <2>1, <2>2 DEF CommandInv
<1>12. CASE RemoveTree
  <2>1. Typed'
    BY <1>12 DEF CommandInv, Typed, RemoveTree, Unlink
  <2>2. ResetAlone' /\ Pending' /\ AfterReset' /\ Guarded' /\ KeepsCA' /\ OfOneCA'
    BY <1>12, TreeRemoved DEF CommandInv, Typed, ResetAlone, Pending,
        AfterReset, Guarded, KeepsCA, OfOneCA
  <2> QED
    BY <2>1, <2>2 DEF CommandInv
<1>13. CASE RemoveFails
  <2>1. Typed'
    BY <1>13 DEF CommandInv, Typed, RemoveFails, Unlink, EntriesOf, TreeToRemove
  <2>2. ResetAlone'
    <3>1. CASE tree = 1
      BY <1>13, <3>1 DEF CommandInv, Typed, ResetAlone, Pending, AfterReset,
          Guarded, KeepsCA, OfOneCA, RemoveFails, Unlink, EntriesOf,
          TreeToRemove
    <3>2. CASE tree = 2
      BY <1>13, <3>2 DEF CommandInv, Typed, ResetAlone, Pending, AfterReset,
          Guarded, KeepsCA, OfOneCA, RemoveFails, Unlink, EntriesOf,
          TreeToRemove
    <3>3. CASE tree = 3
      BY <1>13, <3>3 DEF CommandInv, Typed, ResetAlone, Pending, AfterReset,
          Guarded, KeepsCA, OfOneCA, RemoveFails, Unlink, EntriesOf,
          TreeToRemove
    <3>4. CASE tree = 4
      BY <1>13, <3>4 DEF CommandInv, Typed, ResetAlone, Pending, AfterReset,
          Guarded, KeepsCA, OfOneCA, RemoveFails, Unlink, EntriesOf,
          TreeToRemove
    <3> QED BY <3>1, <3>2, <3>3, <3>4 DEF CommandInv, Typed
  <2>3. Pending'
    BY <1>13 DEF CommandInv, Typed, ResetAlone, Pending, AfterReset, Guarded,
        KeepsCA, OfOneCA, RemoveFails, Unlink, EntriesOf, TreeToRemove
  <2>4. AfterReset'
    BY <1>13 DEF CommandInv, Typed, ResetAlone, Pending, AfterReset, Guarded,
        KeepsCA, OfOneCA, RemoveFails, Unlink, EntriesOf, TreeToRemove
  <2>5. Guarded'
    <3>1. CASE tree = 1
      BY <1>13, <3>1 DEF CommandInv, Typed, ResetAlone, Pending, AfterReset,
          Guarded, KeepsCA, OfOneCA, RemoveFails, Unlink, EntriesOf,
          TreeToRemove
    <3>2. CASE tree = 2
      BY <1>13, <3>2 DEF CommandInv, Typed, ResetAlone, Pending, AfterReset,
          Guarded, KeepsCA, OfOneCA, RemoveFails, Unlink, EntriesOf,
          TreeToRemove
    <3>3. CASE tree = 3
      BY <1>13, <3>3 DEF CommandInv, Typed, ResetAlone, Pending, AfterReset,
          Guarded, KeepsCA, OfOneCA, RemoveFails, Unlink, EntriesOf,
          TreeToRemove
    <3>4. CASE tree = 4
      BY <1>13, <3>4 DEF CommandInv, Typed, ResetAlone, Pending, AfterReset,
          Guarded, KeepsCA, OfOneCA, RemoveFails, Unlink, EntriesOf,
          TreeToRemove
    <3> QED BY <3>1, <3>2, <3>3, <3>4 DEF CommandInv, Typed
  <2>6. KeepsCA'
    BY <1>13 DEF CommandInv, Typed, ResetAlone, Pending, AfterReset, Guarded,
        KeepsCA, OfOneCA, RemoveFails, Unlink, EntriesOf, TreeToRemove
  <2>7. OfOneCA'
    BY <1>13 DEF CommandInv, Typed, ResetAlone, Pending, AfterReset, Guarded,
        KeepsCA, OfOneCA, RemoveFails, Unlink, EntriesOf, TreeToRemove
  <2> QED
    BY <2>1, <2>2, <2>3, <2>4, <2>5, <2>6, <2>7 DEF CommandInv
<1>14. CASE CleanNetwork
  <2>1. Typed'
    BY <1>14 DEF CommandInv, Typed, CleanNetwork, DoneOrNoted
  <2>2. ResetAlone' /\ Pending' /\ AfterReset' /\ Guarded' /\ KeepsCA' /\ OfOneCA'
    BY <1>14 DEF CommandInv, Typed, ResetAlone, Pending, AfterReset, Guarded,
        KeepsCA, OfOneCA, CleanNetwork, DoneOrNoted
  <2> QED
    BY <2>1, <2>2 DEF CommandInv
<1>15. CASE BootStart
  <2>1. Typed'
    BY <1>15 DEF CommandInv, Typed, BootStart
  <2>2. ResetAlone' /\ Pending' /\ AfterReset' /\ Guarded' /\ KeepsCA' /\ OfOneCA'
    BY <1>15 DEF CommandInv, Typed, ResetAlone, Pending, AfterReset, Guarded,
        KeepsCA, OfOneCA, BootStart
  <2> QED
    BY <2>1, <2>2 DEF CommandInv
<1>16. CASE BootLoad
  <2>1. Typed'
    BY <1>16 DEF CommandInv, Typed, BootLoad
  <2>2. ResetAlone' /\ Pending' /\ AfterReset' /\ Guarded' /\ KeepsCA' /\ OfOneCA'
    BY <1>16 DEF CommandInv, Typed, ResetAlone, Pending, AfterReset, Guarded,
        KeepsCA, OfOneCA, BootLoad
  <2> QED
    BY <2>1, <2>2 DEF CommandInv
<1>17. CASE BootStartKubelet
  <2>1. Typed'
    BY <1>17 DEF CommandInv, Typed, BootStartKubelet
  <2>2. ResetAlone' /\ Pending' /\ AfterReset' /\ Guarded' /\ KeepsCA' /\ OfOneCA'
    BY <1>17 DEF CommandInv, Typed, ResetAlone, Pending, AfterReset, Guarded,
        KeepsCA, OfOneCA, BootStartKubelet
  <2> QED
    BY <2>1, <2>2 DEF CommandInv
<1>18. CASE BootWait
  <2>1. Typed'
    BY <1>18 DEF CommandInv, Typed, BootWait
  <2>2. ResetAlone' /\ Pending' /\ AfterReset' /\ Guarded' /\ KeepsCA' /\ OfOneCA'
    BY <1>18 DEF CommandInv, Typed, ResetAlone, Pending, AfterReset, Guarded,
        KeepsCA, OfOneCA, BootWait
  <2> QED
    BY <2>1, <2>2 DEF CommandInv
<1>19. CASE BootMark
  <2>1. Typed'
    BY <1>19 DEF CommandInv, Typed, BootMark
  <2>2. ResetAlone' /\ Pending' /\ AfterReset' /\ Guarded' /\ KeepsCA' /\ OfOneCA'
    BY <1>19 DEF CommandInv, Typed, ResetAlone, Pending, AfterReset, Guarded,
        KeepsCA, OfOneCA, BootMark
  <2> QED
    BY <2>1, <2>2 DEF CommandInv
<1>20. CASE BootRecord
  <2>1. Typed'
    BY <1>20 DEF CommandInv, Typed, BootRecord
  <2>2. ResetAlone' /\ Pending' /\ AfterReset' /\ Guarded' /\ KeepsCA' /\ OfOneCA'
    BY <1>20 DEF CommandInv, Typed, ResetAlone, Pending, AfterReset, Guarded,
        KeepsCA, OfOneCA, BootRecord
  <2> QED
    BY <2>1, <2>2 DEF CommandInv
<1>21. CASE BootEvent
  <2>1. Typed'
    BY <1>21 DEF CommandInv, Typed, BootEvent
  <2>2. ResetAlone' /\ Pending' /\ AfterReset' /\ Guarded' /\ KeepsCA' /\ OfOneCA'
    BY <1>21 DEF CommandInv, Typed, ResetAlone, Pending, AfterReset, Guarded,
        KeepsCA, OfOneCA, BootEvent
  <2> QED
    BY <2>1, <2>2 DEF CommandInv
<1>22. CASE BootFails
  <2>1. Typed'
    BY <1>22 DEF CommandInv, Typed, BootFails
  <2>2. ResetAlone' /\ Pending' /\ AfterReset' /\ Guarded' /\ KeepsCA' /\ OfOneCA'
    BY <1>22 DEF CommandInv, Typed, ResetAlone, Pending, AfterReset, Guarded,
        KeepsCA, OfOneCA, BootFails
  <2> QED
    BY <2>1, <2>2 DEF CommandInv
<1>23. CASE BootStop
  <2>1. Typed'
    BY <1>23 DEF CommandInv, Typed, BootStop
  <2>2. ResetAlone' /\ Pending' /\ AfterReset' /\ Guarded' /\ KeepsCA' /\ OfOneCA'
    BY <1>23 DEF CommandInv, Typed, ResetAlone, Pending, AfterReset, Guarded,
        KeepsCA, OfOneCA, BootStop
  <2> QED
    BY <2>1, <2>2 DEF CommandInv
<1>24. CASE KubeletRunsPods
  <2>1. Typed'
    BY <1>24 DEF CommandInv, Typed, KubeletRunsPods
  <2>2. ResetAlone' /\ Pending' /\ AfterReset' /\ Guarded' /\ KeepsCA' /\ OfOneCA'
    BY <1>24 DEF CommandInv, Typed, ResetAlone, Pending, AfterReset, Guarded,
        KeepsCA, OfOneCA, KubeletRunsPods
  <2> QED
    BY <2>1, <2>2 DEF CommandInv
<1>25. CASE KubeletStopsPods
  <2>1. Typed'
    BY <1>25 DEF CommandInv, Typed, KubeletStopsPods
  <2>2. ResetAlone' /\ Pending' /\ AfterReset' /\ Guarded' /\ KeepsCA' /\ OfOneCA'
    BY <1>25 DEF CommandInv, Typed, ResetAlone, Pending, AfterReset, Guarded,
        KeepsCA, OfOneCA, KubeletStopsPods
  <2> QED
    BY <2>1, <2>2 DEF CommandInv
<1>26. CASE Restart
  <2>1. Typed'
    BY <1>26 DEF CommandInv, Typed, Restart
  <2>2. ResetAlone' /\ Pending' /\ AfterReset' /\ Guarded' /\ KeepsCA' /\ OfOneCA'
    BY <1>26 DEF CommandInv, Typed, ResetAlone, Pending, AfterReset, Guarded,
        KeepsCA, OfOneCA, Restart
  <2> QED
    BY <2>1, <2>2 DEF CommandInv
<1>27. ASSUME NEW p \in Processes, EnsurePKI(p) PROVE CommandInv'
  <2>1. Typed'
    BY <1>27 DEF CommandInv, Typed, EnsurePKI, CreatePKIAssets
  <2>2. ResetAlone' /\ Pending' /\ AfterReset' /\ Guarded' /\ KeepsCA' /\ OfOneCA'
    BY <1>27 DEF CommandInv, Typed, ResetAlone, Pending, AfterReset, Guarded,
        KeepsCA, OfOneCA, EnsurePKI, CreatePKIAssets
  <2> QED
    BY <2>1, <2>2 DEF CommandInv
<1>28. ASSUME NEW p \in Processes, EnsureManifests(p) PROVE CommandInv'
  <2>1. Typed'
    BY <1>28 DEF CommandInv, Typed, EnsureManifests
  <2>2. ResetAlone' /\ Pending' /\ AfterReset' /\ Guarded' /\ KeepsCA' /\ OfOneCA'
    BY <1>28 DEF CommandInv, Typed, ResetAlone, Pending, AfterReset, Guarded,
        KeepsCA, OfOneCA, EnsureManifests
  <2> QED
    BY <2>1, <2>2 DEF CommandInv
<1>29. ASSUME NEW p \in Processes, EnsureKubeletFiles(p) PROVE CommandInv'
  <2>1. Typed'
    BY <1>29 DEF CommandInv, Typed, EnsureKubeletFiles
  <2>2. ResetAlone' /\ Pending' /\ AfterReset' /\ Guarded' /\ KeepsCA' /\ OfOneCA'
    BY <1>29 DEF CommandInv, Typed, ResetAlone, Pending, AfterReset, Guarded,
        KeepsCA, OfOneCA, EnsureKubeletFiles
  <2> QED
    BY <2>1, <2>2 DEF CommandInv
<1>30. CASE UNCHANGED vars
  BY <1>30 DEF CommandInv, vars, Typed, ResetAlone, Pending, AfterReset, Guarded,
      KeepsCA, OfOneCA
<1> QED BY <1>1, <1>2, <1>3, <1>4, <1>5, <1>6, <1>7, <1>8, <1>9, <1>10, <1>11,
    <1>12, <1>13, <1>14, <1>15, <1>16, <1>17, <1>18, <1>19, <1>20, <1>21, <1>22,
    <1>23, <1>24, <1>25, <1>26, <1>27, <1>28, <1>29, <1>30 DEF Next, BootstrapStep,
    ResetStep, BootStep, System, EnsureStep

LEMMA InitHolds == Init => CommandInv
<1> SUFFICES ASSUME Init PROVE CommandInv
  OBVIOUS
<1>1. Typed
  BY DEF Init, Typed, Processes, Places
<1>2. ResetAlone /\ Pending /\ AfterReset /\ Guarded /\ KeepsCA /\ OfOneCA
  BY DEF Init, ResetAlone, Pending, AfterReset, Guarded, KeepsCA, OfOneCA,
      ResetSteps, BootSteps, EnsureSteps, PastPKI
<1> QED
  BY <1>1, <1>2 DEF CommandInv

LEMMA Invariance == Spec => []CommandInv
  BY InitHolds, Step, PTL DEF Spec

\* A reset that returned nil, could stop the kubelet and had no boot beside it
\* or since has left a fresh node, whatever failed, died or was repeated before.
THEOREM FreshAfterReset == Spec => []ResetLeavesFreshNode
<1>1. CommandInv => ResetLeavesFreshNode
  BY DEF CommandInv, AfterReset, ResetLeavesFreshNode
<1> QED
  BY <1>1, Invariance, PTL

\* Data of a known cluster in /var/lib/etcd makes state.Exists true, wherever
\* resets that no boot overlapped failed or died.
THEOREM KnownGuarded == Spec => []KnownDataIsGuarded
<1>1. CommandInv => KnownDataIsGuarded
  BY DEF CommandInv, Typed, Guarded, KnownDataIsGuarded, Exists
<1> QED
  BY <1>1, Invariance, PTL

\* The CA, etcd's data and last-boot.json are of one cluster until a reset
\* begins that does not come to its end.
THEOREM ClustersAgree == Spec => []OneCluster
<1>1. CommandInv => OneCluster
  BY DEF CommandInv, OfOneCA, OneCluster
<1> QED
  BY <1>1, Invariance, PTL

\* A bootstrap without --force makes no new CA over the data of a known cluster,
\* whatever happens between its check and its writes.
THEOREM UnforcedKeeps == Spec => UnforcedKeepsClusters
<1>1. CommandInv /\ [Next]_vars =>
        [EnsurePKI("command") /\ ~force /\ pki' # pki
           => etcd \notin known \ {0} \/ pending = "overlapped"]_vars
  BY DEF CommandInv, KeepsCA, EnsurePKI, CreatePKIAssets
<1> QED
  BY <1>1, Invariance, PTL DEF Spec, UnforcedKeepsClusters

================================================================================
