--------------------------- MODULE MCOperatorCommands --------------------------
(***************************************************************************)
(* OperatorCommands with small sets of configuration files, and NanoConfig *)
(* evaluated on more of them.                                              *)
(***************************************************************************)
EXTENDS OperatorCommands

\* README.md:54-63, the minimum.
Minimal == [NewDefault EXCEPT !.text = [f \in TextFields |->
                                          IF f \in Defaulted THEN "empty" ELSE "own"],
                              !.bindPort = 0, !.caDays = 0, !.leafDays = 0,
                              !.taints = Unset]
Schedulable == [Minimal EXCEPT !.taints = <<>>]
Expired == [Minimal EXCEPT !.caDays = -1]

\* A field left out, wrong, or at a limit, one at a time and two at a time.
Change(c) ==
    {[c EXCEPT !.text[f] = t] : f \in TextFields, t \in Texts}
    \cup {[c EXCEPT !.bindPort = n] : n \in {-1, 0, 1, 65535, 65536}}
    \cup {[c EXCEPT !.caDays = n] : n \in {-1, 0, 1, 106751, 106752}}
    \cup {[c EXCEPT !.leafDays = n] : n \in {-1, 0, 1}}
    \cup {[c EXCEPT !.taints = ts] :
            ts \in {Unset, <<>>} \cup {<<t>> : t \in Taints}
                   \cup {<<DefaultControlPlaneTaint, t>> : t \in Taints}}
    \cup {[c EXCEPT !.selfSigned = FALSE], [c EXCEPT !.strict = FALSE]}
MCConfigFiles == Change(Minimal) \cup UNION {Change(c) : c \in Change(NewDefault)}
MCUsedFiles == {Schedulable, Minimal, Expired}

\* What print-defaults emits loads (cli_test.go, PrintDefaultsThenValidate).
ASSUME TemplateLoads == Loads(Marshal(NewDefault))

\* Validate has no upper limit: from 106752 days on the period wraps around.
ASSUME PeriodWraps ==
    \E c \in MCConfigFiles : Loads(c) /\ BuildInitConfiguration(Loaded(c)).caPeriod < 0

================================================================================
