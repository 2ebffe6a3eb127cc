--------------------------- MODULE OperatorCommands ----------------------------
(***************************************************************************)
(* What an operator does to a node: `nanok8s bootstrap [--force]` and      *)
(* `nanok8s reset --yes`, call by call, beside the `nanok8s boot` that     *)
(* systemd starts whenever it likes.                                       *)
(*                                                                         *)
(* A cluster is named by the number of its CA.  The host is a package-mode *)
(* one, where Boot neither restores nor snapshots (boot.go:66-78); those   *)
(* steps are NodeBoot's.  One operator runs one command at a time; only    *)
(* Boot runs beside it.  kubeadm's phases are single steps, PKI included.  *)
(***************************************************************************)
EXTENDS NanoConfig

CONSTANTS
    ConfigFiles,  \* what /etc/nanok8s/config.yaml may hold
    UsedFiles,    \* bound: the files commands are run with
    MaxClusters,  \* bound: how many CAs are made
    MaxCommands,  \* bound: how many commands are given (retries apart)
    MaxBoots,     \* bound: how often nanok8s.service is started
    MaxTroubles   \* bound: how many calls fail, or die

ASSUME CommandAssumption ==
    /\ ConfigFiles \subseteq Files
    /\ MaxClusters \in Nat
    /\ MaxCommands \in Nat
    /\ MaxBoots \in Nat
    /\ MaxTroubles \in Nat

VARIABLES
    \* on disk
    file,       \* the config file
    pki,        \* the CA of /etc/kubernetes/pki (0: none)
    manifests,  \* kube-apiserver.yaml is in the manifests directory
    kubeletDir, \* /var/lib/kubelet is there
    etcd,       \* the CA under which the data of /var/lib/etcd began (0: none)
    node,       \* the taints of the Node object in that data
    lastBoot,   \* the cluster last-boot.json was written for (0: no file)
    lastEvent,  \* the file last-event is there
    \* the running system
    kubelet,    \* kubelet.service is up
    pods,       \* containers run
    mounts,     \* volumes are mounted under /var/lib/kubelet
    network,    \* there are CNI interfaces, iptables or ipvs rules
    at,         \* where the operator's command and Boot stand
    force,      \* bootstrap was given --force
    tree,       \* the tree reset has come to
    joined,     \* the cluster Boot has seen answer
    result,     \* how the operator's last command ended
    \* history, for the properties only
    clusters,   \* how many CAs have been made
    known,      \* those bootstrapped, or recorded as healthy, here
    pending,    \* a reset has begun, and none has come to its end undisturbed:
                \* "no", "begun" or, where a boot or the kubelet ran on beside it,
                \* "overlapped"
    amiss,      \* what this reset went on without, and a boot beside it or since
    commands, boots, troubles

files == <<file, pki, manifests, kubeletDir, etcd, node, lastBoot, lastEvent>>
running == <<kubelet, pods, mounts, network>>
locals == <<force, tree, joined>>
history == <<clusters, known>>
resetHistory == <<pending, amiss>>
counts == <<commands, boots, troubles>>
vars == <<files, running, at, locals, result, history, resetHistory, counts>>

Processes == {"command", "boot"}
Clusters == 0 .. MaxClusters
\* No data, no Node object: a value no set of its taints has.
NoNode == ToSet(Unset)

EnsureSteps == {"pki", "manifests", "kubeletFiles"}
BootstrapSteps == {"check", "load", "event"} \cup EnsureSteps
ResetSteps == {"stopKubelet", "containers", "unmount", "remove", "network"}
BootSteps == {"load", "startKubelet", "wait", "mark", "record", "event"} \cup EnsureSteps
BootEnds == {"off", "active", "failed"}

Trees == <<"kubernetes", "etcd", "kubelet", "nanok8s">>

TypeOK ==
    /\ {pki, etcd, lastBoot, joined, clusters} \subseteq Clusters
    /\ at["command"] # "remove" => tree = 1
    /\ known \subseteq Clusters
    /\ {manifests, kubeletDir, lastEvent, kubelet, pods, mounts, network, force}
         \subseteq BOOLEAN
    /\ node = NoNode \/ node \subseteq Taints
    /\ at["command"] \in {"idle"} \cup BootstrapSteps \cup ResetSteps
    /\ at["boot"] \in BootEnds \cup BootSteps
    /\ DOMAIN at = Processes
    /\ tree \in 1 .. Len(Trees)
    /\ result \in {"none", "refused", "failed", "bootstrapped", "resetFailed", "reset"}
    /\ pending \in {"no", "begun", "overlapped"}
    /\ node = NoNode <=> etcd = 0
    /\ amiss \subseteq {"boot", "kubelet", "containers", "network"}
    /\ commands \in 0 .. MaxCommands
    /\ boots \in 0 .. MaxBoots
    /\ troubles \in 0 .. MaxTroubles

Init ==
    /\ file \in ConfigFiles
    /\ pki = 0 /\ etcd = 0 /\ lastBoot = 0 /\ joined = 0 /\ clusters = 0
    /\ node = NoNode
    /\ known = {}
    /\ manifests = FALSE /\ kubeletDir = FALSE /\ lastEvent = FALSE
    /\ kubelet = FALSE /\ pods = FALSE /\ mounts = FALSE /\ network = FALSE
    /\ at = [command |-> "idle", boot |-> "off"]
    /\ force = FALSE
    /\ tree = 1
    /\ result = "none"
    /\ pending = "no"
    /\ amiss = {}
    /\ commands = 0 /\ boots = 0 /\ troubles = 0

-----------------------------------------------------------------------------
Goto(p, step) == at' = [at EXCEPT ![p] = step]

\* A mutant: a repeated reset goes on where the one before it stopped.
ReturnWithTree(r) ==
    /\ Goto("command", "idle")
    /\ result' = r
    /\ force' = FALSE
    /\ tree' = tree

\* The command returns, or dies, and its variables with it.
Return(r) ==
    /\ Goto("command", "idle")
    /\ result' = r
    /\ force' = FALSE
    /\ tree' = 1

Trouble ==
    /\ troubles < MaxTroubles
    /\ troubles' = troubles + 1

AnotherCommand ==
    /\ file \in UsedFiles
    /\ commands < MaxCommands
    /\ commands' = commands + 1

Resetting == at["command"] \in ResetSteps
Booting == at["boot"] \in BootSteps

\* Mutants of state.Exists: it looks for a healthy boot only; it forgets what
\* bootstrap leaves.
ExistsAfterHealthyBoot == lastBoot # 0
ExistsByManifest == manifests

\* state.Exists
Exists == lastBoot # 0 \/ lastEvent \/ manifests

(***************************************************************************)
(* kubeadm.Ensure, for bootstrap and for Boot.  What is valid is kept, so  *)
(* a CA is made only where there is none; manifests and the kubelet's      *)
(* files are written anew.                                                 *)
(***************************************************************************)
\* A mutant: the CA is made anew each time.
CAMadeAnew ==
    /\ clusters < MaxClusters
    /\ clusters' = clusters + 1
    /\ pki' = clusters + 1

CreatePKIAssets ==
    \/ pki # 0 /\ UNCHANGED <<pki, clusters>>
    \/ /\ pki = 0
       /\ clusters < MaxClusters
       /\ clusters' = clusters + 1
       /\ pki' = clusters + 1

EnsurePKI(p) ==
    /\ at[p] = "pki"
    /\ CreatePKIAssets
    /\ Goto(p, "manifests")
    /\ UNCHANGED <<file, manifests, kubeletDir, etcd, node, lastBoot, lastEvent, running,
                   locals, result, known, resetHistory, counts>>

\* kubeconfigs, then the etcd and the control plane manifests.
EnsureManifests(p) ==
    /\ at[p] = "manifests"
    /\ manifests' = TRUE
    /\ Goto(p, "kubeletFiles")
    /\ UNCHANGED <<file, pki, kubeletDir, etcd, node, lastBoot, lastEvent, running,
                   locals, result, history, resetHistory, counts>>

EnsureKubeletFiles(p) ==
    /\ at[p] = "kubeletFiles"
    /\ kubeletDir' = TRUE
    /\ Goto(p, IF p = "command" THEN "event" ELSE "startKubelet")
    /\ UNCHANGED <<file, pki, manifests, etcd, node, lastBoot, lastEvent, running,
                   locals, result, history, resetHistory, counts>>

-----------------------------------------------------------------------------
(***************************************************************************)
(* nanok8s bootstrap.                                                      *)
(***************************************************************************)
Bootstrap ==
    /\ at["command"] = "idle"
    /\ AnotherCommand
    /\ force' \in BOOLEAN
    /\ Goto("command", "check")
    /\ result' = "none"
    /\ amiss' = {}
    /\ UNCHANGED <<files, running, tree, joined, history, pending, boots, troubles>>

BootstrapCheck ==
    /\ at["command"] = "check"
    /\ IF Exists /\ ~force
         THEN Return("refused")
         ELSE Goto("command", "load") /\ UNCHANGED <<result, force, tree>>
    /\ UNCHANGED <<files, running, joined, history, resetHistory, counts>>

BootstrapLoad ==
    /\ at["command"] = "load"
    /\ IF Loads(file)
         THEN Goto("command", "pki") /\ UNCHANGED <<result, force, tree>>
         ELSE Return("failed")
    /\ UNCHANGED <<files, running, joined, history, resetHistory, counts>>

\* A mutant: bootstrap leaves no event.
BootstrapEventForgotten ==
    /\ at["command"] = "event"
    /\ known' = known \cup {pki}
    /\ Return("bootstrapped")
    /\ UNCHANGED <<files, running, joined, clusters, resetHistory, counts>>

\* WriteLastEvent makes the directories it needs.
BootstrapEvent ==
    /\ at["command"] = "event"
    /\ lastEvent' = TRUE
    /\ known' = known \cup {pki}
    /\ Return("bootstrapped")
    /\ UNCHANGED <<file, pki, manifests, kubeletDir, etcd, node, lastBoot, running,
                   joined, clusters, resetHistory, counts>>

\* A call of the command returns an error, or the command is killed.
CommandFails ==
    /\ at["command"] # "idle"
    /\ Trouble
    /\ Return(IF Resetting THEN "resetFailed" ELSE "failed")
    /\ amiss' = {}
    /\ UNCHANGED <<files, running, joined, history, pending, commands, boots>>

-----------------------------------------------------------------------------
(***************************************************************************)
(* nanok8s reset.                                                          *)
(***************************************************************************)
BeginReset ==
    /\ at["command"] = "idle"
    /\ Goto("command", "stopKubelet")
    /\ result' = "none"
    /\ amiss' = IF Booting THEN {"boot"} ELSE {}
    /\ pending' = IF Booting \/ pending = "overlapped" THEN "overlapped" ELSE "begun"
    /\ UNCHANGED <<files, running, locals, history, boots, troubles>>

Reset ==
    /\ AnotherCommand
    /\ BeginReset

\* The operator gives the command again after an error.
ResetAgain ==
    /\ result = "resetFailed"
    /\ BeginReset
    /\ UNCHANGED commands

ResetWithoutYes ==
    /\ at["command"] = "idle"
    /\ AnotherCommand
    /\ result' = "refused"
    /\ amiss' = {}
    /\ UNCHANGED <<files, running, at, locals, history, pending, boots, troubles>>

\* The call does its work, or its error is logged and reset goes on.
DoneOrNoted(done, step) ==
    \/ done /\ UNCHANGED <<amiss, troubles>>
    \/ Trouble /\ amiss' = amiss \cup {step}

StopKubelet ==
    /\ at["command"] = "stopKubelet"
    /\ kubelet' \in {FALSE, kubelet}
    /\ DoneOrNoted(~kubelet', "kubelet")
    /\ pending' = IF "kubelet" \in amiss' THEN "overlapped" ELSE pending
    /\ Goto("command", "containers")
    /\ UNCHANGED <<files, pods, mounts, network, locals, result, history, commands,
                   boots>>

CleanupCRIContainers ==
    /\ at["command"] = "containers"
    /\ pods' \in {FALSE, pods}
    /\ DoneOrNoted(~pods', "containers")
    /\ Goto("command", "unmount")
    /\ UNCHANGED <<files, kubelet, mounts, network, locals, result, history, pending,
                   commands, boots>>

\* What stays mounted makes RemoveAll of the kubelet's tree fail below.
UnmountKubeletMounts ==
    /\ at["command"] = "unmount"
    /\ \/ mounts' = FALSE /\ UNCHANGED troubles
       \/ mounts' = mounts /\ Trouble
    /\ Goto("command", "remove")
    /\ UNCHANGED <<files, kubelet, pods, network, locals, result, history,
                   resetHistory, commands, boots>>

EntriesOf(t) ==
    CASE t = "kubernetes" -> {"pki", "manifests"}
      [] t = "etcd"       -> {"etcd"}
      [] t = "kubelet"    -> {"kubeletDir"}
      [] t = "nanok8s"    -> {"lastBoot", "lastEvent"}

Unlink(lost) ==
    /\ pki' = IF "pki" \in lost THEN 0 ELSE pki
    /\ manifests' = (manifests /\ "manifests" \notin lost)
    /\ kubeletDir' = (kubeletDir /\ "kubeletDir" \notin lost)
    /\ etcd' = IF "etcd" \in lost THEN 0 ELSE etcd
    /\ node' = IF "etcd" \in lost THEN NoNode ELSE node
    /\ lastBoot' = IF "lastBoot" \in lost THEN 0 ELSE lastBoot
    /\ lastEvent' = (lastEvent /\ "lastEvent" \notin lost)
    /\ file' = file

\* Mutants: the state directory goes first; a tree that is gone already is an
\* error; an error of RemoveAll is only logged.
TreeToRemoveStateFirst == <<"nanok8s", "kubernetes", "etcd", "kubelet">>[tree]
RemovableIfThere ==
    CASE tree = 1 -> pki # 0 \/ manifests
      [] tree = 2 -> etcd # 0
      [] tree = 3 -> kubeletDir /\ ~mounts
      [] tree = 4 -> lastBoot # 0 \/ lastEvent
RemoveFailsGoesOn ==
    /\ at["command"] = "remove"
    /\ Trouble
    /\ Goto("command", "network")
    /\ UNCHANGED <<files, running, locals, result, history, resetHistory, commands,
                   boots>>

TreeToRemove == Trees[tree]

\* Nothing is mounted in it.
Removable == TreeToRemove = "kubelet" => ~mounts

RemoveTree ==
    /\ at["command"] = "remove"
    /\ Removable
    /\ Unlink(EntriesOf(TreeToRemove))
    /\ IF tree < Len(Trees)
         THEN tree' = tree + 1 /\ UNCHANGED at
         ELSE tree' = 1 /\ Goto("command", "network")
    /\ UNCHANGED <<running, force, joined, result, history, resetHistory, counts>>

\* RemoveAll has unlinked some entries when it meets an error, or its end.
RemoveFails ==
    /\ at["command"] = "remove"
    /\ \/ ~Removable /\ UNCHANGED troubles
       \/ Trouble
    /\ \E lost \in SUBSET (EntriesOf(TreeToRemove) \ {"kubeletDir"}) : Unlink(lost)
    /\ Return("resetFailed")
    /\ amiss' = {}
    /\ UNCHANGED <<running, joined, history, pending, commands, boots>>

Disturbed == amiss \cap {"boot", "kubelet"} # {}

\* deleteCNIInterfaces, flushIptables, flushIPVS; then reset returns nil.
CleanNetwork ==
    /\ at["command"] = "network"
    /\ network' \in {FALSE, network}
    /\ DoneOrNoted(~network', "network")
    /\ pending' = IF Disturbed THEN "overlapped" ELSE "no"
    /\ Return("reset")
    /\ UNCHANGED <<files, kubelet, pods, mounts, joined, history, commands, boots>>

-----------------------------------------------------------------------------
(***************************************************************************)
(* nanok8s boot, as nanok8s.service runs it.                               *)
(***************************************************************************)
BootStart ==
    /\ at["boot"] \in {"off", "failed"}
    /\ file \in UsedFiles
    /\ boots < MaxBoots
    /\ boots' = boots + 1
    /\ Goto("boot", "load")
    /\ amiss' = IF Resetting \/ result = "reset" THEN amiss \cup {"boot"} ELSE amiss
    /\ pending' = IF Resetting THEN "overlapped" ELSE pending
    /\ UNCHANGED <<files, running, locals, result, history, commands, troubles>>

\* A step of Boot that changes no file.
BootGoto(step) ==
    /\ Goto("boot", step)
    /\ UNCHANGED <<files, pods, mounts, network, force, tree, result, history,
                   resetHistory, counts>>

\* config.Load, the boot id and last-boot.json.
BootLoad ==
    /\ at["boot"] = "load"
    /\ BootGoto(IF Loads(file) THEN "pki" ELSE "failed")
    /\ UNCHANGED <<kubelet, joined>>

BootStartKubelet ==
    /\ at["boot"] = "startKubelet"
    /\ kubelet' = TRUE
    /\ BootGoto("wait")
    /\ UNCHANGED joined

\* /readyz answers, so etcd runs on the data that is there.
BootWait ==
    /\ at["boot"] = "wait"
    /\ kubelet /\ pods /\ etcd # 0
    /\ joined' = etcd
    /\ BootGoto("mark")
    /\ UNCHANGED kubelet

\* WaitControlPlane and MarkControlPlane, which adds what the Node lacks.
BootMark ==
    /\ at["boot"] = "mark"
    /\ node # NoNode
    /\ node' = node \cup BuildInitConfiguration(Loaded(file)).taints
    /\ Goto("boot", "record")
    /\ UNCHANGED <<file, pki, manifests, kubeletDir, etcd, lastBoot, lastEvent, running,
                   locals, result, history, resetHistory, counts>>

BootRecord ==
    /\ at["boot"] = "record"
    /\ lastBoot' = joined
    /\ known' = known \cup {joined}
    /\ joined' = 0
    /\ Goto("boot", "event")
    /\ UNCHANGED <<file, pki, manifests, kubeletDir, etcd, node, lastEvent, running,
                   force, tree, result, clusters, resetHistory, counts>>

\* The error of the last WriteLastEvent is dropped.
BootEvent ==
    /\ at["boot"] = "event"
    /\ lastEvent' \in {TRUE, lastEvent}
    /\ Goto("boot", "active")
    /\ UNCHANGED <<file, pki, manifests, kubeletDir, etcd, node, lastBoot, running,
                   locals, result, history, resetHistory, counts>>

\* A call fails, with the event of bootFailed from Ensure on, or the process
\* dies.
BootFails ==
    /\ Booting
    /\ \/ lastEvent' = lastEvent
       \/ lastEvent' = TRUE /\ at["boot"] \in EnsureSteps \cup {"startKubelet", "wait", "mark"}
    /\ Goto("boot", "failed")
    /\ joined' = 0
    /\ UNCHANGED <<file, pki, manifests, kubeletDir, etcd, node, lastBoot, running,
                   force, tree, result, history, resetHistory, counts>>

\* `systemctl stop nanok8s`: the parked process returns, the kubelet stays.
BootStop ==
    /\ at["boot"] = "active"
    /\ BootGoto("off")
    /\ UNCHANGED <<kubelet, joined>>

-----------------------------------------------------------------------------
(***************************************************************************)
(* The kubelet, and the machine.                                           *)
(***************************************************************************)
\* It runs the static pods it finds: etcd opens its data, or begins anew.
KubeletRunsPods ==
    /\ kubelet /\ manifests /\ pki # 0
    /\ pods' = TRUE
    /\ mounts' = TRUE
    /\ network' = TRUE
    /\ kubeletDir' = TRUE
    /\ etcd' = IF etcd = 0 THEN pki ELSE etcd
    /\ node' = IF etcd = 0 THEN {} ELSE node
    /\ UNCHANGED <<file, pki, manifests, lastBoot, lastEvent, kubelet, at, locals,
                   result, history, resetHistory, counts>>

\* Without manifests it stops them, and keeps a directory of its own.
KubeletStopsPods ==
    /\ kubelet /\ ~manifests
    /\ pods' = FALSE
    /\ kubeletDir' = TRUE
    /\ UNCHANGED <<file, pki, manifests, etcd, node, lastBoot, lastEvent, kubelet,
                   mounts, network, at, locals, result, history, resetHistory, counts>>

\* Reboot, or power loss.  A reset it cuts short has failed.
Restart ==
    /\ Trouble
    /\ kubelet' = FALSE /\ pods' = FALSE /\ mounts' = FALSE /\ network' = FALSE
    /\ at' = [command |-> "idle", boot |-> "off"]
    /\ result' = IF Resetting THEN "resetFailed"
                 ELSE IF at["command"] # "idle" THEN "failed" ELSE result
    /\ amiss' = IF at["command"] = "idle" THEN amiss ELSE {}
    /\ force' = FALSE /\ tree' = 1 /\ joined' = 0
    /\ UNCHANGED <<files, history, pending, commands, boots>>

-----------------------------------------------------------------------------
EnsureStep(p) == EnsurePKI(p) \/ EnsureManifests(p) \/ EnsureKubeletFiles(p)
BootstrapStep ==
    Bootstrap \/ BootstrapCheck \/ BootstrapLoad \/ EnsureStep("command") \/ BootstrapEvent

\* What a command does of itself; every call of reset ends by its timeout.
ResetStep ==
    \/ StopKubelet \/ CleanupCRIContainers \/ UnmountKubeletMounts
    \/ RemoveTree \/ RemoveFails \/ CleanNetwork
BootStep ==
    \/ BootStart \/ BootLoad \/ EnsureStep("boot") \/ BootStartKubelet \/ BootWait
    \/ BootMark \/ BootRecord \/ BootEvent \/ BootFails \/ BootStop
System == KubeletRunsPods \/ KubeletStopsPods \/ Restart

Next ==
    \/ BootstrapStep \/ CommandFails
    \/ Reset \/ ResetAgain \/ ResetWithoutYes \/ ResetStep
    \/ BootStep
    \/ System

Spec == Init /\ [][Next]_vars

\* The commands run on by themselves, and the operator repeats a reset that
\* reported an error.
FairSpec ==
    /\ Spec
    /\ WF_vars(ResetStep)
    /\ WF_vars(BootstrapCheck \/ BootstrapLoad \/ EnsureStep("command") \/ BootstrapEvent)
    /\ WF_vars(ResetAgain)

-----------------------------------------------------------------------------
(***************************************************************************)
(* Properties.                                                             *)
(***************************************************************************)

\* "Reset must leave the node in a state where bootstrap succeeds without
\* --force" (e2e.sh:305-308), with the kubelet down and every tree gone,
\* whichever calls before it failed, died or were repeated: when it returned
\* nil, could stop the kubelet and no boot ran beside it or since.  The
\* containers and the network are clean too, unless it logged otherwise.
Undone ==
    /\ ~Exists /\ pki = 0 /\ etcd = 0 /\ ~kubeletDir
    /\ ~kubelet /\ ~mounts
    /\ pods => "containers" \in amiss
    /\ network => "network" \in amiss

ResetLeavesFreshNode == result = "reset" /\ ~Disturbed => Undone

\* While the data of a cluster that was bootstrapped, or recorded as healthy,
\* is in /var/lib/etcd, state.Exists says so, wherever resets fail or die: the
\* state directory goes last (reset.go:66-71).  Not so if a boot ran beside one.
KnownDataIsGuarded == etcd \in known \ {0} => Exists \/ pending = "overlapped"

\* The CA, etcd's data and last-boot.json are of one cluster, forced bootstraps
\* and boots beside a bootstrap included, until a reset begins that does not
\* come to its end.
OneCluster ==
    pending = "no" => \A c, d \in {pki, etcd, lastBoot} \ {0} : c = d

\* bootstrap without --force, which checks first and writes later
\* (bootstrap.go:35, 51), makes no new CA over the data of a known cluster.
UnforcedKeepsClusters ==
    [][EnsurePKI("command") /\ ~force /\ pki' # pki
         => etcd \notin known \ {0} \/ pending = "overlapped"]_vars

\* types.go:41-44: a boot that got as far as marking the node has given it the
\* default taint if the file names none, no taint if the list is empty, and
\* else those listed.
Asked(ts) == IF ts = Unset THEN {DefaultControlPlaneTaint} ELSE ToSet(ts)
TaintsAreThoseAsked ==
    pending = "no" /\ at["boot"] \in {"record", "event", "active"} /\ node # NoNode
       => node = Asked(file.taints)

\* load_test.go, TestMarshalRoundTrips, for every file that loads: written back,
\* it loads again as the same configuration, except that an explicit
\* `taints: []` comes back as the default taint.
RoundTrip ==
    Loads(file) =>
        LET again == Marshal(Loaded(file))
        IN  /\ Loads(again)
            /\ Loaded(again) = Loaded(file) <=> file.taints # <<>>

\* Load, which fills in defaults before it validates, accepts the files that,
\* field by field and as they are written, are usable.
Usable(c) ==
    /\ \A f \in TextFields :
          \/ c.text[f] = "default"
          \/ c.text[f] = "empty" /\ f # "advertiseAddress"
          \/ c.text[f] = "own" /\ f \notin Fixed
    /\ 0 <= c.bindPort /\ c.bindPort < 65536
    /\ 0 <= c.caDays /\ 0 <= c.leafDays
    /\ c.selfSigned /\ c.strict
    /\ c.taints # Unset => \A i \in DOMAIN c.taints :
          c.taints[i].key \in {"control-plane", "workload"} /\ c.taints[i].effect # "bad"
LoadsWhatIsUsable == Loads(file) <=> Usable(file)

\* A reset that fails part way can be completed by repeating it: no failure
\* makes the later ones fail too.
FailedResetsEnd == <>[](result # "resetFailed")

================================================================================
