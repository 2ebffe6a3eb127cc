--------------------------- MODULE WaitReady_proofs ----------------------------
(***************************************************************************)
(* WaitReady for any finite set of checks.                                 *)
(***************************************************************************)
EXTENDS WaitReady, FiniteSetTheorems, TLAPS

\* The checks whose report the caller has taken from the channel.
Received == {c \in seen : poller[c] = "exited" /\ c \notin passed}

\* Each check found to hold is on its way to the caller or has arrived, and
\* the caller's count is right.
CountInv ==
    /\ \A c \in seen : poller[c] \in {"report", "exited"}
    /\ \A c \in Checks : poller[c] = "report" => c \in seen
    /\ passed \subseteq seen
    /\ \A c \in passed : poller[c] = "exited"
    /\ remaining = Cardinality(Checks \ Received)
    /\ caller = "waiting" => remaining > 0
    /\ caller = "nil" => remaining = 0

Inv == TypeOK /\ CountInv

LEMMA CheckCount ==
    /\ Cardinality(Checks) \in Nat
    /\ Cardinality(Checks) > 0
    /\ \A S \in SUBSET Checks : IsFiniteSet(S) /\ Cardinality(S) \in Nat
                                /\ Cardinality(S) <= Cardinality(Checks)
  BY WaitAssumption, FS_CardinalityType, FS_EmptySet, FS_Subset

\* Taking one element from a set of checks takes one from its size.
LEMMA OneLess ==
    ASSUME NEW S, IsFiniteSet(S), NEW c \in S
    PROVE  Cardinality(S \ {c}) = Cardinality(S) - 1
  BY FS_RemoveElement

LEMMA InitInv == Init => Inv
<1> SUFFICES ASSUME Init PROVE Inv
  OBVIOUS
<1>1. Checks \ Received = Checks
  BY DEF Init, Received
<1>2. TypeOK
  <2>1. remaining \in 0 .. Cardinality(Checks) /\ flips \in 0 .. MaxFlips
    BY CheckCount, WaitAssumption DEF Init, Reports
  <2>2. poller \in [Checks -> PollerStates] /\ holds \in [Checks -> BOOLEAN]
    BY DEF Init, PollerStates
  <2> QED BY <2>1, <2>2 DEF Init, TypeOK
<1>3. CountInv
  BY <1>1, CheckCount DEF Init, CountInv, Reports
<1> QED BY <1>2, <1>3 DEF Inv

LEMMA StepInv == Inv /\ [Next]_vars => Inv'
<1> SUFFICES ASSUME Inv, [Next]_vars PROVE Inv'
  OBVIOUS
<1> USE CheckCount, WaitAssumption DEF Inv, TypeOK, PollerStates
<1>1. ASSUME NEW c \in Checks, ProbeHolds(c) PROVE Inv'
  <2>1. Received' = Received
    BY <1>1 DEF ProbeHolds, Received, CountInv
  <2> QED BY <1>1, <2>1 DEF ProbeHolds, CountInv
<1>2. ASSUME NEW c \in Checks, ProbeFails(c) PROVE Inv'
  <2>1. Received' = Received
    BY <1>2 DEF ProbeFails, Received, CountInv
  <2> QED BY <1>2, <2>1 DEF ProbeFails, CountInv
<1>3. ASSUME NEW c \in Checks, Report(c) PROVE Inv'
  <2>1. Received' = Received
    BY <1>3 DEF Report, Received, CountInv
  <2> QED BY <1>3, <2>1 DEF Report, CountInv
<1>4. ASSUME NEW c \in Checks, PollAgain(c) \/ PollerStops(c) PROVE Inv'
  <2>1. Received' = Received
    BY <1>4 DEF PollAgain, PollerStops, Received, CountInv
  <2> QED BY <1>4, <2>1 DEF PollAgain, PollerStops, CountInv
<1>5. ASSUME NEW c \in Checks, Flip(c) PROVE Inv'
  <2>1. Received' = Received
    BY <1>5 DEF Flip, Received
  <2> QED BY <1>5, <2>1 DEF Flip, CountInv
<1>6. CASE Receive
  <2>1. PICK c \in passed : passed' = passed \ {c}
    BY <1>6 DEF Receive
  <2>2. Checks \ Received' = (Checks \ Received) \ {c} /\ c \in Checks \ Received
    BY <1>6, <2>1 DEF Receive, Received, CountInv
  <2>3. Cardinality(Checks \ Received') = remaining - 1
    <3>1. remaining = Cardinality(Checks \ Received)
      BY DEF CountInv
    <3>2. IsFiniteSet(Checks \ Received)
      BY CheckCount
    <3>3. Cardinality((Checks \ Received) \ {c}) = Cardinality(Checks \ Received) - 1
      <4> HIDE CheckCount, WaitAssumption DEF Inv, TypeOK, PollerStates
      <4> QED BY <2>2, <3>2, OneLess
    <3> HIDE CheckCount, WaitAssumption DEF Inv, TypeOK, PollerStates
    <3> QED BY <2>2, <3>1, <3>3
  <2>4. TypeOK'
    BY <1>6, <2>1 DEF Receive, CountInv, LastReport
  <2> QED BY <1>6, <2>1, <2>3, <2>4 DEF Receive, LastReport, CountInv
<1>7. CASE GiveUp
  <2>1. Received' = Received
    BY <1>7 DEF GiveUp, Received
  <2> QED BY <1>7, <2>1 DEF GiveUp, CountInv
<1>8. CASE Expire \/ UNCHANGED vars
  <2>1. Received' = Received
    BY <1>8 DEF Expire, vars, Received
  <2> QED BY <1>8, <2>1 DEF Expire, vars, CountInv
<1> QED
  BY <1>1, <1>2, <1>3, <1>4, <1>5, <1>6, <1>7, <1>8
     DEF Next, Poller, Caller, Cancel

LEMMA Invariant == Spec => []Inv
  BY InitInv, StepInv, PTL DEF Spec

\* waitAllReady and its goroutines keep their shape, whatever the apiserver
\* answers: in particular `remaining` never goes below zero.
THEOREM TypeCorrect == Spec => []TypeOK
<1>1. Inv => TypeOK
  BY DEF Inv
<1> QED BY <1>1, Invariant, PTL

\* waitAllReady counts reports and not names, and still returns nil only when
\* each check has been found to hold: none reports twice.
THEOREM NilIsEarned == Spec => []NilMeansEachSeen
<1>1. Inv => NilMeansEachSeen
  <2> SUFFICES ASSUME Inv, caller = "nil" PROVE seen = Checks
    BY DEF NilMeansEachSeen
  <2>1. Cardinality(Checks \ Received) = 0 /\ IsFiniteSet(Checks \ Received)
    BY CheckCount DEF Inv, CountInv
  <2>2. Checks \ Received = {}
    BY <2>1, FS_EmptySet
  <2> QED BY <2>2 DEF Received, Inv, TypeOK
<1> QED BY <1>1, Invariant, PTL

\* A goroutine's send always finds room in make(chan string, len(checks)), so
\* none outlives waitAllReady at its send.
THEOREM SendsNeverBlock == Spec => []SendNeverBlocks
<1>1. Inv => SendNeverBlocks
  <2> SUFFICES ASSUME Inv, NEW c \in Checks, poller[c] = "report" PROVE Room
    BY DEF SendNeverBlocks
  <2>1. passed \subseteq Checks \ {c}
    BY DEF Inv, TypeOK, CountInv
  <2>2. Cardinality(Checks \ {c}) = Cardinality(Checks) - 1
    BY WaitAssumption, OneLess
  <2>3. IsFiniteSet(Checks \ {c})
    BY CheckCount
  <2>4. Cardinality(passed) <= Cardinality(Checks \ {c})
    BY <2>1, <2>3, FS_Subset
  <2>5. Cardinality(passed) \in Nat
    BY <2>1, CheckCount
  <2> QED BY <2>2, <2>4, <2>5, CheckCount DEF Room
<1> QED BY <1>1, Invariant, PTL
=============================================================================
