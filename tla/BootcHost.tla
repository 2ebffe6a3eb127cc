------------------------------- MODULE BootcHost -------------------------------
(***************************************************************************)
(* The host nanok8s runs on, as far as the code relies on it: bootc/ostree *)
(* deployments, the boot loader's boot counter, and greenboot's verdict on *)
(* the running boot.  None of it is nanok8s code; it is modelled from what *)
(* internal/ostree/ostree.go, internal/backup/backup.go (BootID) and       *)
(* packaging/greenboot/ read and expect of it.                             *)
(*                                                                         *)
(* A deployment is a number, in the order the images were built: a fresh   *)
(* image is always one more than the newest, so an id that ostree has      *)
(* garbage-collected never comes back.  0 stands for "no deployment" (the  *)
(* empty id of the code).  Boot ids are numbers too: boot n is the n-th    *)
(* time the machine came up.                                               *)
(***************************************************************************)
EXTENDS Integers

CONSTANTS
    MaxImages,      \* bound: how many images are ever built
    MaxBoot,        \* bound: how often the machine comes up
    MaxAttempts     \* greenboot's boot_counter for a new deployment

ASSUME HostAssumption ==
    /\ MaxImages \in Nat \ {0}
    /\ MaxBoot \in Nat \ {0}
    /\ MaxAttempts \in Nat \ {0}

VARIABLES
    boot,       \* /proc/sys/kernel/random/boot_id of the running boot
    booted,     \* the deployment the machine is running
    fallback,   \* the rollback deployment (0: none)
    staged,     \* a deployment staged for the next clean reboot (0: none)
    newest,     \* the newest image built so far
    counter,    \* grubenv boot_counter, Unset when the variable is not set
    verdict     \* greenboot on this boot: "pending", "green" or "red"

hostVars == <<boot, booted, fallback, staged, newest, counter, verdict>>

Images == 1 .. MaxImages
Boots == 1 .. MaxBoot
Unset == -1

HostTypeOK ==
    /\ boot \in Boots
    /\ booted \in Images
    /\ fallback \in 0 .. MaxImages
    /\ staged \in 0 .. MaxImages
    /\ newest \in Images
    /\ counter \in Unset .. MaxAttempts
    /\ verdict \in {"pending", "green", "red"}

\* A freshly installed machine: one deployment, no counter armed.
HostInit ==
    /\ boot = 1
    /\ booted = 1
    /\ fallback = 0
    /\ staged = 0
    /\ newest = 1
    /\ counter = Unset
    /\ verdict = "pending"

\* What `rpm-ostree status --json` lists (ostree.AllDeploymentIDs).
Known == {booted, fallback, staged} \ {0}

-----------------------------------------------------------------------------
\* `bootc upgrade`: a fresh image is staged beside the running one.
Stage ==
    /\ staged = 0
    /\ newest < MaxImages
    /\ newest' = newest + 1
    /\ staged' = newest + 1
    /\ UNCHANGED <<boot, booted, fallback, counter, verdict>>

(***************************************************************************)
(* The machine comes up with `image` first in the boot order, `other`      *)
(* second, and boot_counter = `count`: the boot loader takes one attempt   *)
(* off the counter, and falls back to `other` once none is left.           *)
(***************************************************************************)
PowerOn(image, other, count) ==
    /\ boot < MaxBoot
    /\ boot' = boot + 1
    /\ IF count = 0
          THEN booted' = other /\ fallback' = image /\ counter' = Unset
          ELSE /\ booted' = image /\ fallback' = other
               /\ counter' = IF count = Unset THEN Unset ELSE count - 1
    /\ staged' = 0
    /\ verdict' = "pending"
    /\ newest' = newest

\* An orderly reboot finalises a staged deployment and arms the counter.
Reboot ==
    IF staged # 0
       THEN PowerOn(staged, booted, MaxAttempts)
       ELSE PowerOn(booted, fallback, counter)

\* Power is lost: a staged deployment that was not finalised is dropped.
PowerCut == PowerOn(booted, fallback, counter)

\* greenboot's checks passed: green.d runs and the counter is disarmed.
HostGreen ==
    /\ verdict = "pending"
    /\ verdict' = "green"
    /\ counter' = Unset
    /\ UNCHANGED <<boot, booted, fallback, staged, newest>>

\* greenboot's required.d failed.
HostRed ==
    /\ verdict = "pending"
    /\ verdict' = "red"
    /\ UNCHANGED <<boot, booted, fallback, staged, newest, counter>>

\* After red greenboot reboots by itself while an attempt is being counted.
AutoReboots == verdict = "red" /\ counter # Unset
=============================================================================
