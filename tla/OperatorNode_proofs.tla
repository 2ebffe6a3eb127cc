------------------------ MODULE OperatorNode_proofs ------------------------
(***************************************************************************)
(* The shape of OperatorCommands, and what a configuration file comes to:  *)
(* what loads, what survives being written back, the taints of the Node    *)
(* object and the validity periods, for every file there can be.           *)
(***************************************************************************)
EXTENDS OperatorCommands_proofs

USE DEF files, running, locals, history, resetHistory, counts, Trouble,
        Resetting, Booting, Disturbed

\* What the two processes' places, and the operator's history, may be.
Shape ==
    /\ clusters \in 0 .. MaxClusters
    /\ at["command"] \in {"idle"} \cup BootstrapSteps \cup ResetSteps
    /\ at["boot"] \in BootEnds \cup BootSteps
    /\ result \in {"none", "refused", "failed", "bootstrapped", "resetFailed", "reset"}
    /\ pending \in {"no", "begun", "overlapped"}
    /\ amiss \subseteq {"boot", "kubelet", "containers", "network"}
    /\ commands \in 0 .. MaxCommands
    /\ boots \in 0 .. MaxBoots
    /\ troubles \in 0 .. MaxTroubles

Flags ==
    /\ manifests \in BOOLEAN
    /\ kubeletDir \in BOOLEAN
    /\ lastEvent \in BOOLEAN
    /\ kubelet \in BOOLEAN
    /\ pods \in BOOLEAN
    /\ mounts \in BOOLEAN
    /\ network \in BOOLEAN
    /\ force \in BOOLEAN

LEMMA ShapeStep ==
    ASSUME CommandInv, Shape, Flags, [Next]_vars
    PROVE  Shape' /\ Flags'
<1> USE CommandAssumption DEF Goto, Return, AnotherCommand, BootGoto, Processes,
        BootstrapSteps, ResetSteps, BootSteps, BootEnds, EnsureSteps
<1>0. at \in [Processes -> Places] /\ Typed
  BY DEF CommandInv, Typed
<1>1. CASE Bootstrap
  <2>1. Shape'
    BY <1>1, <1>0 DEF Shape, Bootstrap
  <2>2. Flags'
    BY <1>1, <1>0 DEF Flags, Bootstrap
  <2> QED BY <2>1, <2>2
<1>2. CASE BootstrapCheck
  <2>1. Shape'
    BY <1>2, <1>0 DEF Shape, BootstrapCheck
  <2>2. Flags'
    BY <1>2, <1>0 DEF Flags, BootstrapCheck
  <2> QED BY <2>1, <2>2
<1>3. CASE BootstrapLoad
  <2>1. Shape'
    BY <1>3, <1>0 DEF Shape, BootstrapLoad
  <2>2. Flags'
    BY <1>3, <1>0 DEF Flags, BootstrapLoad
  <2> QED BY <2>1, <2>2
<1>4. CASE BootstrapEvent
  <2>1. Shape'
    BY <1>4, <1>0 DEF Shape, BootstrapEvent
  <2>2. Flags'
    BY <1>4, <1>0 DEF Flags, BootstrapEvent
  <2> QED BY <2>1, <2>2
<1>5. CASE CommandFails
  <2>1. Shape'
    BY <1>5, <1>0 DEF Shape, CommandFails
  <2>2. Flags'
    BY <1>5, <1>0 DEF Flags, CommandFails
  <2> QED BY <2>1, <2>2
<1>6. CASE Reset
  <2>1. Shape'
    BY <1>6, <1>0 DEF Shape, Reset, BeginReset
  <2>2. Flags'
    BY <1>6, <1>0 DEF Flags, Reset, BeginReset
  <2> QED BY <2>1, <2>2
<1>7. CASE ResetAgain
  <2>1. Shape'
    BY <1>7, <1>0 DEF Shape, ResetAgain, BeginReset
  <2>2. Flags'
    BY <1>7, <1>0 DEF Flags, ResetAgain, BeginReset
  <2> QED BY <2>1, <2>2
<1>8. CASE ResetWithoutYes
  <2>1. Shape'
    BY <1>8, <1>0 DEF Shape, ResetWithoutYes
  <2>2. Flags'
    BY <1>8, <1>0 DEF Flags, ResetWithoutYes
  <2> QED BY <2>1, <2>2
<1>9. CASE StopKubelet
  <2>1. Shape'
    <3>1. \/ amiss' = amiss /\ troubles' = troubles
          \/ Trouble /\ amiss' = amiss \cup {"kubelet"}
      BY <1>9 DEF StopKubelet, DoneOrNoted
    <3>2. amiss' \subseteq {"boot", "kubelet", "containers", "network"}
      BY <3>1 DEF Shape
    <3> QED
      BY <1>9, <1>0, <3>1, <3>2 DEF Shape, StopKubelet
  <2>2. Flags'
    BY <1>9, <1>0 DEF Flags, StopKubelet, DoneOrNoted
  <2> QED BY <2>1, <2>2
<1>10. CASE CleanupCRIContainers
  <2>1. Shape'
    <3>1. \/ amiss' = amiss /\ troubles' = troubles
          \/ Trouble /\ amiss' = amiss \cup {"containers"}
      BY <1>10 DEF CleanupCRIContainers, DoneOrNoted
    <3>2. amiss' \subseteq {"boot", "kubelet", "containers", "network"}
      BY <3>1 DEF Shape
    <3> QED
      BY <1>10, <1>0, <3>1, <3>2 DEF Shape, CleanupCRIContainers
  <2>2. Flags'
    BY <1>10, <1>0 DEF Flags, CleanupCRIContainers, DoneOrNoted
  <2> QED BY <2>1, <2>2
<1>11. CASE UnmountKubeletMounts
  <2>1. Shape'
    BY <1>11, <1>0 DEF Shape, UnmountKubeletMounts
  <2>2. Flags'
    BY <1>11, <1>0 DEF Flags, UnmountKubeletMounts
  <2> QED BY <2>1, <2>2
<1>12. CASE RemoveTree
  <2>1. Shape'
    BY <1>12, <1>0 DEF Shape, RemoveTree, Unlink
  <2>2. Flags'
    BY <1>12, <1>0 DEF Flags, RemoveTree, Unlink
  <2> QED BY <2>1, <2>2
<1>13. CASE RemoveFails
  <2>1. Shape'
    BY <1>13, <1>0 DEF Shape, RemoveFails, Unlink
  <2>2. Flags'
    BY <1>13, <1>0 DEF Flags, RemoveFails, Unlink
  <2> QED BY <2>1, <2>2
<1>14. CASE CleanNetwork
  <2>1. Shape'
    <3>1. \/ amiss' = amiss /\ troubles' = troubles
          \/ Trouble /\ amiss' = amiss \cup {"network"}
      BY <1>14 DEF CleanNetwork, DoneOrNoted
    <3>2. amiss' \subseteq {"boot", "kubelet", "containers", "network"}
      BY <3>1 DEF Shape
    <3> QED
      BY <1>14, <1>0, <3>1, <3>2 DEF Shape, CleanNetwork
  <2>2. Flags'
    BY <1>14, <1>0 DEF Flags, CleanNetwork, DoneOrNoted
  <2> QED BY <2>1, <2>2
<1>15. CASE BootStart
  <2>1. Shape'
    BY <1>15, <1>0 DEF Shape, BootStart
  <2>2. Flags'
    BY <1>15, <1>0 DEF Flags, BootStart
  <2> QED BY <2>1, <2>2
<1>16. CASE BootLoad
  <2>1. Shape'
    BY <1>16, <1>0 DEF Shape, BootLoad
  <2>2. Flags'
    BY <1>16, <1>0 DEF Flags, BootLoad
  <2> QED BY <2>1, <2>2
<1>17. CASE BootStartKubelet
  <2>1. Shape'
    BY <1>17, <1>0 DEF Shape, BootStartKubelet
  <2>2. Flags'
    BY <1>17, <1>0 DEF Flags, BootStartKubelet
  <2> QED BY <2>1, <2>2
<1>18. CASE BootWait
  <2>1. Shape'
    BY <1>18, <1>0 DEF Shape, BootWait
  <2>2. Flags'
    BY <1>18, <1>0 DEF Flags, BootWait
  <2> QED BY <2>1, <2>2
<1>19. CASE BootMark
  <2>1. Shape'
    BY <1>19, <1>0 DEF Shape, BootMark
  <2>2. Flags'
    BY <1>19, <1>0 DEF Flags, BootMark
  <2> QED BY <2>1, <2>2
<1>20. CASE BootRecord
  <2>1. Shape'
    BY <1>20, <1>0 DEF Shape, BootRecord
  <2>2. Flags'
    BY <1>20, <1>0 DEF Flags, BootRecord
  <2> QED BY <2>1, <2>2
<1>21. CASE BootEvent
  <2>1. Shape'
    BY <1>21, <1>0 DEF Shape, BootEvent
  <2>2. Flags'
    BY <1>21, <1>0 DEF Flags, BootEvent
  <2> QED BY <2>1, <2>2
<1>22. CASE BootFails
  <2>1. Shape'
    BY <1>22, <1>0 DEF Shape, BootFails
  <2>2. Flags'
    BY <1>22, <1>0 DEF Flags, BootFails
  <2> QED BY <2>1, <2>2
<1>23. CASE BootStop
  <2>1. Shape'
    BY <1>23, <1>0 DEF Shape, BootStop
  <2>2. Flags'
    BY <1>23, <1>0 DEF Flags, BootStop
  <2> QED BY <2>1, <2>2
<1>24. CASE KubeletRunsPods
  <2>1. Shape'
    BY <1>24, <1>0 DEF Shape, KubeletRunsPods
  <2>2. Flags'
    BY <1>24, <1>0 DEF Flags, KubeletRunsPods
  <2> QED BY <2>1, <2>2
<1>25. CASE KubeletStopsPods
  <2>1. Shape'
    BY <1>25, <1>0 DEF Shape, KubeletStopsPods
  <2>2. Flags'
    BY <1>25, <1>0 DEF Flags, KubeletStopsPods
  <2> QED BY <2>1, <2>2
<1>26. CASE Restart
  <2>1. Shape'
    BY <1>26, <1>0 DEF Shape, Restart
  <2>2. Flags'
    BY <1>26, <1>0 DEF Flags, Restart
  <2> QED BY <2>1, <2>2
<1>27. ASSUME NEW p \in Processes, EnsurePKI(p) PROVE Shape' /\ Flags'
  <2>1. Shape'
    BY <1>27, <1>0 DEF Shape, EnsurePKI, CreatePKIAssets
  <2>2. Flags'
    BY <1>27, <1>0 DEF Flags, EnsurePKI, CreatePKIAssets
  <2> QED BY <2>1, <2>2
<1>28. ASSUME NEW p \in Processes, EnsureManifests(p) PROVE Shape' /\ Flags'
  <2>1. Shape'
    BY <1>28, <1>0 DEF Shape, EnsureManifests
  <2>2. Flags'
    BY <1>28, <1>0 DEF Flags, EnsureManifests
  <2> QED BY <2>1, <2>2
<1>29. ASSUME NEW p \in Processes, EnsureKubeletFiles(p) PROVE Shape' /\ Flags'
  <2>1. Shape'
    BY <1>29, <1>0 DEF Shape, EnsureKubeletFiles
  <2>2. Flags'
    BY <1>29, <1>0 DEF Flags, EnsureKubeletFiles
  <2> QED BY <2>1, <2>2
<1>30. CASE UNCHANGED vars
  BY <1>30 DEF vars, Shape, Flags
<1> QED BY <1>1, <1>2, <1>3, <1>4, <1>5, <1>6, <1>7, <1>8, <1>9, <1>10, <1>11, <1>12, <1>13, <1>14, <1>15, <1>16, <1>17, <1>18, <1>19, <1>20, <1>21, <1>22, <1>23, <1>24, <1>25, <1>26, <1>27, <1>28, <1>29, <1>30
    DEF Next, BootstrapStep, ResetStep, BootStep, System, EnsureStep

-----------------------------------------------------------------------------
\* A Node object is there as long as etcd's data, and its taints are taints.
NodeInv ==
    /\ file \in Files
    /\ node = NoNode \/ node \subseteq Taints
    /\ node = NoNode <=> etcd = 0

\* Where Boot has seen etcd answer, and where it has marked the Node.
PastWait == {"mark", "record", "event", "active"}
PastMark == {"record", "event", "active"}

\* The Node has no taint but those asked for, and all of them once Boot has
\* marked it; a kubelet that is still up then has not begun etcd's data anew.
AskedInv ==
    pending = "no" =>
        /\ node # NoNode => node \subseteq Asked(file.taints)
        /\ at["boot"] \in PastMark /\ node # NoNode => Asked(file.taints) \subseteq node
        /\ at["boot"] \in PastWait /\ kubelet => etcd # 0

\* From the file through SetDefaults and kubeadm's InitConfiguration to the Node.
LEMMA TaintsGiven ==
    ASSUME NEW c \in Files
    PROVE  /\ BuildInitConfiguration(Loaded(c)).taints = Asked(c.taints)
           /\ Asked(c.taints) \subseteq Taints
<1>1. BuildInitConfiguration(Loaded(c)).taints = ToSet(TaintsOrDefault(c.taints))
  <2>1. Loaded(c).taints = TaintsOrDefault(c.taints)
    BY DEF Loaded, SetDefaults, Files
  <2> QED
    BY <2>1 DEF BuildInitConfiguration
<1>2. ToSet(<<DefaultControlPlaneTaint>>) = {DefaultControlPlaneTaint}
  BY DEF ToSet
<1>3. DefaultControlPlaneTaint \in Taints
  BY DEF DefaultControlPlaneTaint, Taints
<1>4. c.taints # Unset => c.taints \in Seq(Taints)
  BY DEF Files
<1>5. c.taints # Unset => ToSet(c.taints) \subseteq Taints
  BY <1>4 DEF ToSet
<1> QED
  BY <1>1, <1>2, <1>3, <1>5 DEF Asked, TaintsOrDefault, OrDefault

\* No set of taints stands for a missing Node.
LEMMA NoNodeIsNone == ~(NoNode \subseteq Taints)
<1>1. [key |-> "unset", effect |-> "unset"] \in NoNode
  BY DEF NoNode, ToSet, Unset
<1>2. [key |-> "unset", effect |-> "unset"] \notin Taints
  BY DEF Taints
<1> QED
  BY <1>1, <1>2

\* Steps that leave the Node alone and do not bring Boot past a call.
LEMMA NodeKept ==
    ASSUME NodeInv, AskedInv, file' = file, node' = node, etcd' = etcd,
           pending' = "no" => pending = "no",
           at'["boot"] \in PastMark => at["boot"] \in PastMark,
           at'["boot"] \in PastWait /\ kubelet' => at["boot"] \in PastWait /\ kubelet
    PROVE  NodeInv' /\ AskedInv'
<1>1. NodeInv'
  BY DEF NodeInv
<1>2. AskedInv'
  BY DEF AskedInv
<1> QED
  BY <1>1, <1>2

LEMMA NodeStep ==
    ASSUME CommandInv, Shape, Flags, NodeInv, AskedInv, [Next]_vars
    PROVE  NodeInv' /\ AskedInv'
<1> USE DEF Goto, Return, AnotherCommand, BootGoto, Processes, PastMark, PastWait
<1>0. at \in [Processes -> Places] /\ Typed /\ ResetAlone /\ Pending
  BY DEF CommandInv, Typed
<1>1. CASE Bootstrap
  BY <1>1, <1>0, NodeKept DEF Bootstrap
<1>2. CASE BootstrapCheck
  BY <1>2, <1>0, NodeKept DEF BootstrapCheck
<1>3. CASE BootstrapLoad
  BY <1>3, <1>0, NodeKept DEF BootstrapLoad
<1>4. CASE BootstrapEvent
  BY <1>4, <1>0, NodeKept DEF BootstrapEvent
<1>5. CASE CommandFails
  BY <1>5, <1>0, NodeKept DEF CommandFails
<1>6. CASE Reset
  BY <1>6, <1>0, NodeKept DEF Reset, BeginReset
<1>7. CASE ResetAgain
  BY <1>7, <1>0, NodeKept DEF ResetAgain, BeginReset
<1>8. CASE ResetWithoutYes
  BY <1>8, <1>0, NodeKept DEF ResetWithoutYes
<1>9. CASE StopKubelet
  <2>1. kubelet' => kubelet
    BY <1>9 DEF StopKubelet, Flags
  <2>2. /\ UNCHANGED <<file, node, etcd>>
        /\ pending' = "no" => pending = "no"
        /\ at'["boot"] = at["boot"]
    BY <1>9, <1>0 DEF StopKubelet
  <2> QED
    BY <2>1, <2>2, NodeKept
<1>10. CASE CleanupCRIContainers
  BY <1>10, <1>0, NodeKept DEF CleanupCRIContainers
<1>11. CASE UnmountKubeletMounts
  BY <1>11, <1>0, NodeKept DEF UnmountKubeletMounts
<1>12. CASE BootStart
  BY <1>12, <1>0, NodeKept DEF BootStart
<1>13. CASE BootLoad
  BY <1>13, <1>0, NodeKept DEF BootLoad
<1>14. CASE BootStartKubelet
  BY <1>14, <1>0, NodeKept DEF BootStartKubelet
<1>15. CASE BootRecord
  BY <1>15, <1>0, NodeKept DEF BootRecord
<1>16. CASE BootEvent
  BY <1>16, <1>0, NodeKept DEF BootEvent
<1>17. CASE BootFails
  BY <1>17, <1>0, NodeKept DEF BootFails
<1>18. CASE BootStop
  BY <1>18, <1>0, NodeKept DEF BootStop
<1>19. CASE KubeletStopsPods
  BY <1>19, <1>0, NodeKept DEF KubeletStopsPods
<1>20. CASE Restart
  BY <1>20, <1>0, NodeKept DEF Restart
<1>21. ASSUME NEW p \in Processes, EnsurePKI(p) PROVE NodeInv' /\ AskedInv'
  BY <1>21, <1>0, NodeKept DEF EnsurePKI
<1>22. ASSUME NEW p \in Processes, EnsureManifests(p) PROVE NodeInv' /\ AskedInv'
  BY <1>22, <1>0, NodeKept DEF EnsureManifests
<1>23. ASSUME NEW p \in Processes, EnsureKubeletFiles(p) PROVE NodeInv' /\ AskedInv'
  BY <1>23, <1>0, NodeKept DEF EnsureKubeletFiles
<1>24. CASE RemoveTree
  <2>1. NodeInv'
    BY <1>24, <1>0, NoNodeIsNone DEF RemoveTree, Unlink, NodeInv
  <2>2. pending' # "no"
    BY <1>24, <1>0 DEF RemoveTree, Pending, ResetSteps
  <2> QED
    BY <2>1, <2>2 DEF AskedInv
<1>25. CASE RemoveFails
  <2>1. NodeInv'
    BY <1>25, <1>0, NoNodeIsNone DEF RemoveFails, Unlink, NodeInv
  <2>2. pending' # "no"
    BY <1>25, <1>0 DEF RemoveFails, Pending, ResetSteps
  <2> QED
    BY <2>1, <2>2 DEF AskedInv
<1>26. CASE CleanNetwork
  <2>1. NodeInv'
    BY <1>26 DEF CleanNetwork, NodeInv
  <2>2. Disturbed \/ (etcd' = 0 /\ ~kubelet')
    <3>1. at["command"] = "network" /\ UNCHANGED <<etcd, kubelet>>
      BY <1>26 DEF CleanNetwork
    <3>2. Disturbed \/ (etcd = 0 /\ ~kubelet)
      BY <3>1, <1>0 DEF ResetAlone, ResetSteps, Removed
    <3> QED
      BY <3>1, <3>2
  <2>3. pending' = "no" => ~Disturbed
    BY <1>26 DEF CleanNetwork
  <2> QED
    BY <2>1, <2>2, <2>3 DEF AskedInv, NodeInv
<1>27. CASE BootWait
  <2>1. NodeInv'
    BY <1>27 DEF BootWait, NodeInv
  <2>2. /\ UNCHANGED <<file, node, etcd, pending>>
        /\ etcd # 0
        /\ at'["boot"] = "mark"
    BY <1>27, <1>0 DEF BootWait
  <2> QED
    BY <2>1, <2>2 DEF AskedInv
<1>28. CASE BootMark
  <2>1. /\ node # NoNode
        /\ node' = node \cup Asked(file.taints)
        /\ UNCHANGED <<file, etcd, pending, kubelet>>
        /\ at["boot"] = "mark"
        /\ Asked(file.taints) \subseteq Taints
    BY <1>28, <1>0, TaintsGiven DEF BootMark, NodeInv
  <2>2. NodeInv'
    BY <2>1, NoNodeIsNone DEF NodeInv
  <2> QED
    BY <2>1, <2>2 DEF AskedInv
<1>29. CASE KubeletRunsPods
  <2>1. /\ UNCHANGED <<file, at, pending, kubelet>>
        /\ kubelet
        /\ etcd # 0 => etcd' = etcd /\ node' = node
        /\ etcd = 0 => etcd' # 0 /\ node' = {}
    BY <1>29 DEF KubeletRunsPods
  <2>2. NodeInv'
    BY <2>1, NoNodeIsNone DEF NodeInv
  <2>3. AskedInv'
    BY <2>1 DEF AskedInv
  <2> QED
    BY <2>2, <2>3
<1>30. CASE UNCHANGED vars
  BY <1>30, NodeKept DEF vars
<1> QED BY <1>1, <1>2, <1>3, <1>4, <1>5, <1>6, <1>7, <1>8, <1>9, <1>10, <1>11, <1>12, <1>13, <1>14, <1>15, <1>16, <1>17, <1>18, <1>19, <1>20, <1>21, <1>22, <1>23, <1>24, <1>25, <1>26, <1>27, <1>28, <1>29, <1>30
    DEF Next, BootstrapStep, ResetStep, BootStep, System, EnsureStep

LEMMA NodeInit == Init => Shape /\ Flags /\ NodeInv /\ AskedInv
<1> SUFFICES ASSUME Init PROVE Shape /\ Flags /\ NodeInv /\ AskedInv
  OBVIOUS
<1>1. Shape
  BY CommandAssumption DEF Init, Shape, BootEnds
<1>2. Flags
  BY DEF Init, Flags
<1>3. NodeInv
  BY CommandAssumption DEF Init, NodeInv
<1>4. AskedInv
  BY DEF Init, AskedInv, PastMark, PastWait
<1> QED
  BY <1>1, <1>2, <1>3, <1>4

LEMMA NodeInvariance == Spec => [](CommandInv /\ Shape /\ Flags /\ NodeInv /\ AskedInv)
<1>1. CommandInv /\ Shape /\ Flags /\ NodeInv /\ AskedInv /\ [Next]_vars
        => (CommandInv /\ Shape /\ Flags /\ NodeInv /\ AskedInv)'
  BY Step, ShapeStep, NodeStep
<1> QED
  BY <1>1, InitHolds, NodeInit, PTL DEF Spec

\* The state keeps its shape: in particular there is a Node object exactly as
\* long as there is data of etcd, and only the commands move the operator.
THEOREM TypeCorrect == Spec => []TypeOK
<1>1. CommandInv /\ Shape /\ Flags /\ NodeInv => TypeOK
  <2> SUFFICES ASSUME CommandInv, Shape, Flags, NodeInv PROVE TypeOK
    OBVIOUS
  <2>1. {pki, etcd, lastBoot, joined, clusters} \subseteq Clusters /\ known \subseteq Clusters
    BY CommandAssumption DEF CommandInv, Typed, Shape, Clusters
  <2>2. {manifests, kubeletDir, lastEvent, kubelet, pods, mounts, network, force}
          \subseteq BOOLEAN
    BY DEF Flags
  <2>3. DOMAIN at = Processes /\ tree \in 1 .. Len(Trees)
        /\ (at["command"] # "remove" => tree = 1)
    BY TreeOrder DEF CommandInv, Typed
  <2> QED
    BY <2>1, <2>2, <2>3 DEF Shape, NodeInv, TypeOK
<1> QED
  BY <1>1, NodeInvariance, PTL

\* A boot that has marked the Node has given it the taints the file asks for,
\* and no others (types.go:41-44), through a nil, an empty and a full list.
THEOREM TaintsAsked == Spec => []TaintsAreThoseAsked
<1>1. AskedInv => TaintsAreThoseAsked
  BY DEF AskedInv, TaintsAreThoseAsked, PastMark
<1> QED
  BY <1>1, NodeInvariance, PTL

-----------------------------------------------------------------------------
(***************************************************************************)
(* The configuration, for every file there may be.                         *)
(***************************************************************************)
\* What SetDefaults gives each field.
LEMMA DefaultsGiven ==
    ASSUME NEW c \in Files
    PROVE  /\ \A f \in TextFields :
                 Loaded(c).text[f] = IF f \in Defaulted /\ c.text[f] = "empty"
                                        THEN "default" ELSE c.text[f]
           /\ Loaded(c).bindPort = OrDefault(c.bindPort, 0, 6443)
           /\ Loaded(c).caDays = OrDefault(c.caDays, 0, 3650)
           /\ Loaded(c).leafDays = OrDefault(c.leafDays, 0, 3650)
           /\ Loaded(c).taints = TaintsOrDefault(c.taints)
           /\ Loaded(c).selfSigned = c.selfSigned /\ Loaded(c).strict = c.strict
  BY DEF Loaded, SetDefaults, DefaultBindPort, DefaultValidityDays, OrDefault

LEMMA LoadedTyped == ASSUME NEW c \in Files PROVE Loaded(c) \in Files
<1>1. \A f \in TextFields :
         (IF f \in Defaulted THEN OrDefault(c.text[f], "empty", "default") ELSE c.text[f])
           \in Texts
  BY DEF Files, Texts, OrDefault
<1>2. SetDefaults(c).text \in [TextFields -> Texts]
  BY <1>1 DEF SetDefaults
<1>3. TaintsOrDefault(c.taints) \in Seq(Taints) \cup {Unset}
  BY DEF TaintsOrDefault, OrDefault, Files, DefaultControlPlaneTaint, Taints
<1>4. /\ SetDefaults(c).bindPort \in Int
      /\ SetDefaults(c).caDays \in Int /\ SetDefaults(c).leafDays \in Int
  BY DEF SetDefaults, OrDefault, Files, DefaultBindPort, DefaultValidityDays
<1>5. c.selfSigned \in BOOLEAN /\ c.strict \in BOOLEAN
  BY DEF Files
<1> QED
  BY <1>2, <1>3, <1>4, <1>5 DEF Files, SetDefaults, Loaded

\* SetDefaults leaves what Validate accepts alone, but for taints that are not
\* given.
LEMMA DefaultsSettle ==
    ASSUME NEW c \in Files, NEW d \in Files, Validate(d),
           c.text = d.text, c.bindPort = d.bindPort, c.caDays = d.caDays,
           c.leafDays = d.leafDays, c.selfSigned = d.selfSigned, c.strict = d.strict
    PROVE  Loaded(c) = [text |-> d.text, bindPort |-> d.bindPort, caDays |-> d.caDays,
                        leafDays |-> d.leafDays, taints |-> TaintsOrDefault(c.taints),
                        selfSigned |-> d.selfSigned, strict |-> d.strict]
<1>1. \A f \in TextFields : d.text[f] # "empty"
  BY DEF Validate
<1>2. d.bindPort # 0 /\ d.caDays # 0 /\ d.leafDays # 0
  BY DEF Validate, Positive, Files
<1>3. d.text \in [TextFields -> Texts]
  BY DEF Files
<1>4. d.text = [f \in TextFields |->
                  IF f \in Defaulted THEN OrDefault(d.text[f], "empty", "default")
                                     ELSE d.text[f]]
  BY <1>1, <1>3 DEF OrDefault
<1> QED
  BY <1>2, <1>4 DEF SetDefaults, OrDefault, Loaded

\* One field of a text at a time, filling in what is missing before looking at
\* it accepts what was usable as it was written.
LEMMA TextUsable ==
    ASSUME NEW c \in Files, NEW f \in TextFields
    PROVE  Loaded(c).text[f] \in (IF f \in Fixed THEN {"default"} ELSE {"default", "own"})
             <=> \/ c.text[f] = "default"
                 \/ c.text[f] = "empty" /\ f # "advertiseAddress"
                 \/ c.text[f] = "own" /\ f \notin Fixed
<1>1. c.text[f] \in Texts
  BY DEF Files
<1>2. f \in Defaulted <=> f # "advertiseAddress"
  BY DEF TextFields, Defaulted
<1> QED
  BY <1>1, <1>2, DefaultsGiven DEF Texts

LEMMA TaintsUsable ==
    ASSUME NEW c \in Files
    PROVE  (\A t \in ToSet(Loaded(c).taints) : t.key # "empty" /\ t.effect # "bad")
             <=> (c.taints # Unset => \A i \in DOMAIN c.taints :
                    /\ c.taints[i].key \in {"control-plane", "workload"}
                    /\ c.taints[i].effect # "bad")
<1>1. Loaded(c).taints = TaintsOrDefault(c.taints)
  BY DefaultsGiven
<1>2. CASE c.taints = Unset
  <2>1. ToSet(Loaded(c).taints) = {DefaultControlPlaneTaint}
    BY <1>1, <1>2 DEF TaintsOrDefault, OrDefault, ToSet
  <2> QED
    BY <2>1, <1>2 DEF DefaultControlPlaneTaint
<1>3. CASE c.taints # Unset
  <2>1. Loaded(c).taints = c.taints /\ c.taints \in Seq(Taints)
    BY <1>1, <1>3 DEF TaintsOrDefault, OrDefault, Files
  <2>2. \A i \in DOMAIN c.taints :
           c.taints[i].key # "empty" <=> c.taints[i].key \in {"control-plane", "workload"}
    <3> TAKE i \in DOMAIN c.taints
    <3>1. c.taints[i] \in Taints
      BY <2>1
    <3> QED
      BY <3>1 DEF Taints
  <2> QED
    BY <2>1, <2>2, <1>3 DEF ToSet
<1> QED
  BY <1>2, <1>3

\* Load accepts exactly the usable files, whatever they hold.
LEMMA LoadsUsable == ASSUME NEW c \in Files PROVE Loads(c) <=> Usable(c)
<1>1. /\ (1 <= Loaded(c).bindPort /\ Loaded(c).bindPort <= 65535) <=> 0 <= c.bindPort /\ c.bindPort < 65536
      /\ Positive(Loaded(c).caDays) <=> 0 <= c.caDays
      /\ Positive(Loaded(c).leafDays) <=> 0 <= c.leafDays
  BY DefaultsGiven DEF OrDefault, Positive, Files
<1>2. /\ Loaded(c).selfSigned = c.selfSigned
      /\ c.strict \in BOOLEAN /\ c.selfSigned \in BOOLEAN
  BY DefaultsGiven DEF Files
<1>3. (\A f \in TextFields :
          Loaded(c).text[f] \in IF f \in Fixed THEN {"default"} ELSE {"default", "own"})
        <=> \A f \in TextFields :
               \/ c.text[f] = "default"
               \/ c.text[f] = "empty" /\ f # "advertiseAddress"
               \/ c.text[f] = "own" /\ f \notin Fixed
  BY TextUsable
<1> QED
  BY <1>1, <1>2, <1>3, TaintsUsable DEF Loads, Validate, Usable

\* What Load has returned, Marshal writes so that Load accepts it again.
LEMMA LoadsAgain ==
    ASSUME NEW c \in Files, Loads(c)
    PROVE  LET again == Marshal(Loaded(c))
           IN  /\ Loads(again)
               /\ Loaded(again) = Loaded(c) <=> c.taints # <<>>
<1> DEFINE d == Loaded(c)
           ts == IF d.taints = <<>> THEN Unset ELSE d.taints
           with(t) == [text |-> d.text, bindPort |-> d.bindPort, caDays |-> d.caDays,
                       leafDays |-> d.leafDays, taints |-> t,
                       selfSigned |-> d.selfSigned, strict |-> d.strict]
<1>1. d \in Files /\ Validate(d) /\ d.strict
  BY LoadedTyped, DefaultsGiven DEF Loads
<1>2. d.taints = TaintsOrDefault(c.taints)
  BY DefaultsGiven
<1>3. d.taints \in Seq(Taints) /\ d.taints # Unset
  <2>1. CASE c.taints = Unset
    <3>1. d.taints = <<DefaultControlPlaneTaint>>
      BY <2>1, <1>2 DEF TaintsOrDefault, OrDefault
    <3> QED
      BY <3>1 DEF DefaultControlPlaneTaint, Taints, Unset
  <2>2. CASE c.taints # Unset
    <3>1. d.taints = c.taints
      BY <2>2, <1>2 DEF TaintsOrDefault, OrDefault
    <3> QED
      BY <2>2, <3>1 DEF Files
  <2> QED
    BY <2>1, <2>2
<1>4. d = with(d.taints) /\ Marshal(d) = with(ts)
  <2>1. d \in Files
    BY <1>1
  <2> HIDE DEF d
  <2>2. d = with(d.taints)
    BY <2>1, SMT DEF Files
  <2>3. ASSUME NEW t PROVE [d EXCEPT !.taints = t] = with(t)
    BY <2>1, SMT DEF Files
  <2>4. Marshal(d) = [d EXCEPT !.taints = ts]
    BY DEF Marshal
  <2> QED
    BY <2>2, <2>3, <2>4
<1>5. with(ts) \in Files
  <2> HIDE DEF d
  <2> QED
    BY <1>1, <1>3 DEF Files
<1>6. Loaded(Marshal(d)) = with(TaintsOrDefault(ts))
  <2> HIDE DEF d, ts
  <2>1. /\ with(ts).text = d.text /\ with(ts).bindPort = d.bindPort
        /\ with(ts).caDays = d.caDays /\ with(ts).leafDays = d.leafDays
        /\ with(ts).selfSigned = d.selfSigned /\ with(ts).strict = d.strict
        /\ with(ts).taints = ts
    OBVIOUS
  <2>2. Loaded(with(ts)) = with(TaintsOrDefault(with(ts).taints))
    BY <1>1, <1>5, <2>1, DefaultsSettle
  <2> QED
    BY <1>4, <2>1, <2>2
<1>7. Marshal(d).strict
  BY <1>1, <1>4
<1>8. d.taints = <<>> <=> c.taints = <<>>
  BY <1>2 DEF TaintsOrDefault, OrDefault, Unset
<1>9. CASE c.taints # <<>>
  <2>1. TaintsOrDefault(ts) = d.taints
    <3> HIDE DEF d
    <3> QED
      BY <1>3, <1>8, <1>9 DEF TaintsOrDefault, OrDefault
  <2>2. Loaded(Marshal(d)) = d
    BY <2>1, <1>4, <1>6
  <2> QED
    BY <2>2, <1>1, <1>7, <1>9 DEF Loads
<1>10. CASE c.taints = <<>>
  <2>1. TaintsOrDefault(ts) = <<DefaultControlPlaneTaint>>
    BY <1>8, <1>10 DEF TaintsOrDefault, OrDefault
  <2>2. Loaded(Marshal(d)) = with(<<DefaultControlPlaneTaint>>)
    BY <2>1, <1>6
  <2>3. Loaded(Marshal(d)).taints # d.taints
    <3>1. Loaded(Marshal(d)).taints = <<DefaultControlPlaneTaint>>
      BY <2>2
    <3>2. <<DefaultControlPlaneTaint>> # <<>>
      OBVIOUS
    <3> HIDE DEF d
    <3> QED
      BY <3>1, <3>2, <1>8, <1>10
  <2>4. Validate(with(<<DefaultControlPlaneTaint>>))
    <3> HIDE DEF d
    <3>1. ToSet(<<DefaultControlPlaneTaint>>) = {DefaultControlPlaneTaint}
      BY DEF ToSet
    <3>2. DefaultControlPlaneTaint.key # "empty" /\ DefaultControlPlaneTaint.effect # "bad"
      BY DEF DefaultControlPlaneTaint
    <3> QED
      BY <3>1, <3>2, <1>1 DEF Validate
  <2> QED
    BY <2>2, <2>3, <2>4, <1>7, <1>10 DEF Loads
<1> QED
  BY <1>9, <1>10

\* config.Load, which fills in defaults before it validates (load.go,
\* defaults.go, validate.go), accepts a file just when its fields are usable as
\* they are written, zeros and absent ones among them.
THEOREM LoadsTheUsable == Spec => []LoadsWhatIsUsable
<1>1. NodeInv => LoadsWhatIsUsable
  BY LoadsUsable DEF NodeInv, LoadsWhatIsUsable
<1> QED
  BY <1>1, NodeInvariance, PTL

\* A configuration that was loaded and written back loads again as the same,
\* unless its list of taints is empty (TestMarshalRoundTrips, `omitempty`).
THEOREM SurvivesMarshal == Spec => []RoundTrip
<1>1. NodeInv => RoundTrip
  BY LoadsAgain DEF NodeInv, RoundTrip
<1> QED
  BY <1>1, NodeInvariance, PTL

\* A time.Duration keeps a number of days up to 106751 of them.
LEMMA DurationKeeps ==
    ASSUME NEW days \in Int, 0 < days
    PROVE  Duration(days) = days <=> days < 106752
<1> DEFINE d == days % 213504
<1>1. d \in Int /\ 0 <= d /\ d < 213504
  OBVIOUS
<1>2. days < 106752 => d = days
  OBVIOUS
<1>3. 213504 \div 2 = 106752
  OBVIOUS
<1>4. Duration(days) = IF d < 106752 THEN d ELSE d - 213504
  BY <1>3 DEF Duration, DurationWidth
<1> HIDE DEF d
<1> QED
  BY <1>1, <1>2, <1>4

\* The certificates are valid for the days a file asks for (kubeadm/config.go:79-81),
\* or, where it asks for none, for the default: exactly as long as they are fewer
\* than 106752, which Validate does not ask for.
THEOREM PeriodsKept ==
    ASSUME NEW c \in Files, Loads(c)
    PROVE  LET init == BuildInitConfiguration(Loaded(c))
               asked(days) == IF days = 0 THEN 3650 ELSE days
           IN  /\ init.caPeriod = asked(c.caDays) <=> c.caDays < 106752
               /\ init.leafPeriod = asked(c.leafDays) <=> c.leafDays < 106752
<1>1. /\ Loaded(c).caDays = IF c.caDays = 0 THEN 3650 ELSE c.caDays
      /\ Loaded(c).leafDays = IF c.leafDays = 0 THEN 3650 ELSE c.leafDays
      /\ c.caDays \in Int /\ c.leafDays \in Int
  BY DefaultsGiven DEF OrDefault, Files
<1>2. 0 < Loaded(c).caDays /\ 0 < Loaded(c).leafDays
  BY <1>1 DEF Loads, Validate, Positive
<1>3. /\ Duration(Loaded(c).caDays) = Loaded(c).caDays <=> Loaded(c).caDays < 106752
      /\ Duration(Loaded(c).leafDays) = Loaded(c).leafDays <=> Loaded(c).leafDays < 106752
  BY <1>1, <1>2, DurationKeeps
<1>4. /\ BuildInitConfiguration(Loaded(c)).caPeriod = Duration(Loaded(c).caDays)
      /\ BuildInitConfiguration(Loaded(c)).leafPeriod = Duration(Loaded(c).leafDays)
  BY DEF BuildInitConfiguration
<1> QED
  BY <1>1, <1>3, <1>4
=============================================================================
