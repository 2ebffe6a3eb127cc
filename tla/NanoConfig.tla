------------------------------ MODULE NanoConfig -------------------------------
(***************************************************************************)
(* NanoK8sConfig from the file to kubeadm: what internal/config reads,     *)
(* SetDefaults fills in, Validate accepts, Marshal writes back and         *)
(* BuildInitConfiguration hands to the phases.                             *)
(*                                                                         *)
(* A text field is reduced to what these functions tell apart: "empty" (or *)
(* left out), "default", "own" (another value Validate accepts) and "bad"  *)
(* (one it does not).  The numbers and the taints are kept.                *)
(***************************************************************************)
EXTENDS Integers, Sequences, SequencesExt

Texts == {"empty", "default", "own", "bad"}
Defaulted == {"apiVersion", "kind", "mode", "serviceSubnet", "podSubnet",
              "clusterDNS", "criSocket", "cgroupDriver"}
TextFields == Defaulted \cup {"advertiseAddress"}

\* Validate compares these with the one value there is.
Fixed == {"apiVersion", "kind", "mode"}

DefaultBindPort == 6443
DefaultValidityDays == 3650

\* A taint's key, or its absence, and its effect.
Taints == [key : {"empty", "control-plane", "workload"},
           effect : {"NoSchedule", "PreferNoSchedule", "NoExecute", "bad"}]
DefaultControlPlaneTaint == [key |-> "control-plane", effect |-> "NoSchedule"]

\* A nil slice, as opposed to the empty one: a value no list of taints has.
Unset == <<[key |-> "unset", effect |-> "unset"]>>

\* What a configuration file may say; strict: it has no field of another name.
Files == [text : [TextFields -> Texts],
          bindPort : Int, caDays : Int, leafDays : Int,
          selfSigned : BOOLEAN, strict : BOOLEAN,
          taints : Seq(Taints) \cup {Unset}]

-----------------------------------------------------------------------------
OrDefault(value, zero, default) == IF value = zero THEN default ELSE value

\* A mutant: an empty list of taints is taken for none at all.
TaintsOrDefaultByLength(ts) ==
    IF ts = Unset \/ Len(ts) = 0 THEN <<DefaultControlPlaneTaint>> ELSE ts

TaintsOrDefault(ts) == OrDefault(ts, Unset, <<DefaultControlPlaneTaint>>)

SetDefaults(c) ==
    [text |-> [f \in TextFields |->
                 IF f \in Defaulted THEN OrDefault(c.text[f], "empty", "default")
                                    ELSE c.text[f]],
     bindPort |-> OrDefault(c.bindPort, 0, DefaultBindPort),
     caDays |-> OrDefault(c.caDays, 0, DefaultValidityDays),
     leafDays |-> OrDefault(c.leafDays, 0, DefaultValidityDays),
     taints |-> TaintsOrDefault(c.taints),
     selfSigned |-> c.selfSigned, strict |-> c.strict]

\* A mutant: only zero is refused, which SetDefaults has replaced anyway.
PositiveUnlessZero(days) == days # 0

Positive(days) == days > 0

Validate(c) ==
    /\ \A f \in TextFields :
          c.text[f] \in IF f \in Fixed THEN {"default"} ELSE {"default", "own"}
    /\ 1 <= c.bindPort /\ c.bindPort <= 65535
    /\ c.selfSigned
    /\ Positive(c.caDays) /\ Positive(c.leafDays)
    /\ \A t \in ToSet(c.taints) : t.key # "empty" /\ t.effect # "bad"

\* A mutant: the phases get the file as it is.
LoadedAsWritten(c) == c

Loaded(c) == SetDefaults(c)

\* Load: UnmarshalStrict refuses a field it does not know.
Loads(c) == c.strict /\ Validate(Loaded(c))

\* `omitempty`: an empty list is not written, and reads back as nil.
Marshal(c) == [c EXCEPT !.taints = IF @ = <<>> THEN Unset ELSE @]

\* `config print-defaults`, the operator's template.  The address is the
\* placeholder 0.0.0.0, which parses as an IP.
NewDefault ==
    SetDefaults([text |-> [f \in TextFields |->
                             IF f = "advertiseAddress" THEN "default" ELSE "empty"],
                 bindPort |-> 0, selfSigned |-> TRUE, caDays |-> 0, leafDays |-> 0,
                 taints |-> Unset, strict |-> TRUE])

-----------------------------------------------------------------------------
\* time.Duration counts nanoseconds in an int64: 2^64 of them are 213503 days
\* and almost 24 hours, here 213504 days.
DurationWidth == 213504
Duration(days) ==
    LET d == days % DurationWidth
    IN  IF d < DurationWidth \div 2 THEN d ELSE d - DurationWidth

\* The fields of kubeadm's InitConfiguration that are this program's choice.
BuildInitConfiguration(c) ==
    [text |-> c.text, bindPort |-> c.bindPort, taints |-> ToSet(c.taints),
     caPeriod |-> Duration(c.caDays), leafPeriod |-> Duration(c.leafDays)]

================================================================================
