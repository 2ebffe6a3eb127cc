------------------------------- MODULE WaitReady -------------------------------
(***************************************************************************)
(* waitAllReady (internal/kubeclient/kubeclient.go): one goroutine per     *)
(* check polls until the check holds or the context is done, and reports   *)
(* once on a buffered channel; the caller counts reports until all are in  *)
(* or the context is done, and its deferred cancel ends the context when   *)
(* it returns.  The conditions themselves belong to the cluster, and may   *)
(* come and go.                                                            *)
(***************************************************************************)
EXTENDS Integers, FiniteSets

CONSTANTS
    Checks,     \* the node and the three static pods
    MaxFlips    \* bound: how often a condition changes

ASSUME WaitAssumption ==
    /\ IsFiniteSet(Checks)
    /\ Checks # {}
    /\ MaxFlips \in Nat

VARIABLES
    holds,      \* [Checks -> BOOLEAN]: the condition, as the apiserver has it
    flips,      \* how often one has changed
    poller,     \* [Checks -> PollerStates]: where each goroutine stands
    passed,     \* the names in the channel
    caller,     \* "waiting", or how waitAllReady returned: "nil", "error"
    remaining,  \* the reports still to come
    done,       \* ctx.Done() is closed
    seen        \* history: the checks some probe found to hold

vars == <<holds, flips, poller, passed, caller, remaining, done, seen>>

\* "probe": before c.fn;  "report": it returned true;  "pause": in the select.
PollerStates == {"probe", "report", "pause", "exited"}

TypeOK ==
    /\ holds \in [Checks -> BOOLEAN]
    /\ flips \in 0 .. MaxFlips
    /\ poller \in [Checks -> PollerStates]
    /\ passed \subseteq Checks
    /\ caller \in {"waiting", "nil", "error"}
    /\ remaining \in 0 .. Cardinality(Checks)
    /\ done \in BOOLEAN
    /\ seen \subseteq Checks

\* A mutant: one report too many is waited for.
ReportsOneMore == Cardinality(Checks) + 1

\* remaining := len(checks).
Reports == Cardinality(Checks)

Init ==
    /\ holds \in [Checks -> BOOLEAN]
    /\ flips = 0
    /\ poller = [c \in Checks |-> "probe"]
    /\ passed = {}
    /\ caller = "waiting"
    /\ remaining = Reports
    /\ done = FALSE
    /\ seen = {}

-----------------------------------------------------------------------------
\* A mutant: a channel with room for one name.
RoomForOne == Cardinality(passed) < 1

\* make(chan string, len(checks)).
Room == Cardinality(passed) < Cardinality(Checks)

\* c.fn answers true: the condition held when the apiserver read it.
ProbeHolds(c) ==
    /\ poller[c] = "probe"
    /\ holds[c]
    /\ ~done
    /\ poller' = [poller EXCEPT ![c] = "report"]
    /\ seen' = seen \cup {c}
    /\ UNCHANGED <<holds, flips, passed, caller, remaining, done>>

\* c.fn answers false: the condition does not hold, or the Get failed, which
\* it always does once the context is done.
ProbeFails(c) ==
    /\ poller[c] = "probe"
    /\ poller' = [poller EXCEPT ![c] = "pause"]
    /\ UNCHANGED <<holds, flips, passed, caller, remaining, done, seen>>

\* passed <- c.name, and return.
Report(c) ==
    /\ poller[c] = "report"
    /\ Room
    /\ passed' = passed \cup {c}
    /\ poller' = [poller EXCEPT ![c] = "exited"]
    /\ UNCHANGED <<holds, flips, caller, remaining, done, seen>>

\* The select: two seconds are over, or the context is done; when both are
\* true either branch may be taken.
PollAgain(c) ==
    /\ poller[c] = "pause"
    /\ poller' = [poller EXCEPT ![c] = "probe"]
    /\ UNCHANGED <<holds, flips, passed, caller, remaining, done, seen>>

PollerStops(c) ==
    /\ poller[c] = "pause"
    /\ done
    /\ poller' = [poller EXCEPT ![c] = "exited"]
    /\ UNCHANGED <<holds, flips, passed, caller, remaining, done, seen>>

-----------------------------------------------------------------------------
\* A mutant: the loop ends with one report still to come.
EnoughButOne == remaining <= 2

\* `for remaining > 0` ends after this receive.
LastReport == remaining = 1

\* case <-passed.
Receive ==
    /\ caller = "waiting"
    /\ \E c \in passed : passed' = passed \ {c}
    /\ remaining' = remaining - 1
    /\ caller' = IF LastReport THEN "nil" ELSE "waiting"
    /\ UNCHANGED <<holds, flips, poller, done, seen>>

\* A mutant: the context is looked at only once a report has come in.
GiveUpAfterReport ==
    /\ caller = "waiting"
    /\ done
    /\ passed # {}
    /\ caller' = "error"
    /\ UNCHANGED <<holds, flips, poller, passed, remaining, done, seen>>

\* case <-ctx.Done().
GiveUp ==
    /\ caller = "waiting"
    /\ done
    /\ caller' = "error"
    /\ UNCHANGED <<holds, flips, poller, passed, remaining, done, seen>>

\* The deadline of waitControlPlane passes, or SIGTERM cancels the context.
Expire ==
    /\ ~done
    /\ done' = TRUE
    /\ UNCHANGED <<holds, flips, poller, passed, caller, remaining, seen>>

\* waitControlPlane's deferred cancel, once waitAllReady has returned.
Cancel == caller # "waiting" /\ Expire

\* The cluster: a condition comes true, or is lost again.
Flip(c) ==
    /\ flips < MaxFlips
    /\ flips' = flips + 1
    /\ holds' = [holds EXCEPT ![c] = ~@]
    /\ UNCHANGED <<poller, passed, caller, remaining, done, seen>>

Poller(c) ==
    ProbeHolds(c) \/ ProbeFails(c) \/ Report(c) \/ PollAgain(c) \/ PollerStops(c)

Caller == Receive \/ GiveUp \/ Cancel

Next ==
    \/ \E c \in Checks : Poller(c) \/ Flip(c)
    \/ Caller
    \/ Expire

Spec == Init /\ [][Next]_vars

(***************************************************************************)
(* Go runs every goroutine that can run, and the deadline passes.  A       *)
(* poller that enters its select with the context done takes that case,    *)
(* its two seconds not being over; only one that was in the select before  *)
(* may find both ready and choose to probe once more.  So a poller that    *)
(* comes to its select again and again stops (SF on PollerStops).          *)
(***************************************************************************)
Fairness ==
    /\ WF_vars(Caller)
    /\ WF_vars(Expire)
    /\ \A c \in Checks : WF_vars(Poller(c)) /\ SF_vars(PollerStops(c))

FairSpec == Spec /\ Fairness

-----------------------------------------------------------------------------
\* nil is returned only if every check was found to hold by a probe of its own
\* (waitAllReady counts reports, not names).
NilMeansEachSeen == caller = "nil" => seen = Checks

\* No goroutine can be left behind at its send, whether or not the caller is
\* still there to receive.
SendNeverBlocks == \A c \in Checks : poller[c] = "report" => Room

\* waitAllReady returns, by its deadline at the latest.
Returns == <>(caller # "waiting")

\* Every goroutine ends once the caller has gone.
GoroutinesEnd == caller # "waiting" ~> \A c \in Checks : poller[c] = "exited"
=============================================================================
