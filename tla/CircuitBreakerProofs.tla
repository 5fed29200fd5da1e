------------------------ MODULE CircuitBreakerProofs ------------------------
(***************************************************************************)
(* What holds of CircuitBreaker for every set of callers, threshold and    *)
(* cooldown.  Safe is inductive relative to TypeOK: an admission needs     *)
(* that an Open breaker has no current probe, which OneProbePerPeriod      *)
(* says, and the bound on the counter needs ClosedBelowThreshold at the    *)
(* moment a call is admitted.                                              *)
(***************************************************************************)
EXTENDS CircuitBreaker, FiniteSetTheorems, TLAPS

Safe ==
  /\ ClosedBelowThreshold
  /\ FailuresBounded
  /\ HalfOpenCooledDown
  /\ OneProbePerPeriod

(* Type correctness, by one step per action. *)
THEOREM TypeCorrect == Spec => []TypeOK
<1>1. Init => TypeOK
  <2> SUFFICES ASSUME Init PROVE TypeOK
    OBVIOUS
  <2>1. sinceFail \in 0..Cooldown
    BY BreakerAssumption DEF Init
  <2>2. QED
    BY <2>1 DEF Init, TypeOK, States, Running, Returned
<1>2. TypeOK /\ [Next]_vars => TypeOK'
  <2> SUFFICES ASSUME TypeOK, [Next]_vars PROVE TypeOK'
    OBVIOUS
  <2> USE BreakerAssumption DEF TypeOK, States, Running, Returned
  <2>1. ASSUME NEW c \in Callers, Do(c) PROVE TypeOK'
    BY <2>1 DEF Do, DoOpen, DoBusy, DoProbe, DoClosed, Return
  <2>2. ASSUME NEW c \in Callers, FnReturns(c) PROVE TypeOK'
    <3>1. PICK result \in {"nil", "fnErr"} : ProbeReturns(c, result) \/ ClosedReturns(c, result)
      BY <2>2 DEF FnReturns
    <3>2. call' \in [Callers -> Running \cup Returned]
      BY <3>1 DEF ProbeReturns, ClosedReturns, Return
    <3>3. sinceFail' \in 0..Cooldown
      BY <3>1 DEF ProbeReturns, ClosedReturns, Trip
    <3>4. probeInFlight' \in BOOLEAN
      BY <3>1 DEF ProbeReturns, ClosedReturns
    <3>5. state' \in States /\ failures' \in Nat /\ period' \in SUBSET Callers
      BY <3>1 DEF ProbeReturns, ClosedReturns, Trip
    <3>6. QED
      BY <3>2, <3>3, <3>4, <3>5
  <2>3. ASSUME NEW c \in Callers, Panics(c) PROVE TypeOK'
    BY <2>3 DEF Panics, Return
  <2>4. CASE QueryState
    BY <2>4 DEF QueryState
  <2>5. CASE Reset
    BY <2>5 DEF Reset
  <2>6. CASE Tick
    BY <2>6 DEF Tick
  <2>7. CASE UNCHANGED vars
    BY <2>7 DEF vars
  <2>8. QED
    BY <2>1, <2>2, <2>3, <2>4, <2>5, <2>6, <2>7 DEF Next
<1>3. QED
  BY <1>1, <1>2, PTL DEF Spec

(* The set of closed calls is finite, so its cardinality counts it. *)
LEMMA ClosedCallsFinite ==
  /\ IsFiniteSet(ClosedCalls)
  /\ Cardinality(ClosedCalls) \in Nat
  /\ Cardinality(ClosedCalls) <= Cardinality(Callers)
  /\ Cardinality(Callers) \in Nat
BY BreakerAssumption, FS_Subset, FS_CardinalityType DEF ClosedCalls

(* A step that admits no closed call does not enlarge their number. *)
LEMMA FewerClosedCalls ==
  ASSUME ClosedCalls' \subseteq ClosedCalls
  PROVE  Cardinality(ClosedCalls') \in Nat /\ Cardinality(ClosedCalls') <= Cardinality(ClosedCalls)
BY ClosedCallsFinite, FS_Subset, FS_CardinalityType

(* Each conjunct of Safe is kept by each action. *)
LEMMA SafeStep == TypeOK /\ Safe /\ [Next]_vars => Safe'
<1> SUFFICES ASSUME TypeOK, Safe, [Next]_vars PROVE Safe'
  OBVIOUS
<1> USE BreakerAssumption, ClosedCallsFinite DEF Limit
<1>1. ASSUME NEW c \in Callers, DoOpen(c) PROVE Safe'
  <2>1. ClosedCalls' = ClosedCalls
    BY <1>1 DEF DoOpen, Return, ClosedCalls, TypeOK, InFlight, Running
  <2>2. QED
    BY <1>1, <2>1 DEF DoOpen, Return, Safe, TypeOK, ClosedBelowThreshold, FailuresBounded,
                      HalfOpenCooledDown, OneProbePerPeriod, InFlight, Running
<1>2. ASSUME NEW c \in Callers, DoBusy(c) PROVE Safe'
  <2>1. ClosedCalls' = ClosedCalls
    BY <1>2 DEF DoBusy, Return, ClosedCalls, TypeOK, InFlight, Running
  <2>2. QED
    BY <1>2, <2>1 DEF DoBusy, Return, Safe, TypeOK, ClosedBelowThreshold, FailuresBounded,
                      HalfOpenCooledDown, OneProbePerPeriod, InFlight, Running
<1>3. ASSUME NEW c \in Callers, DoProbe(c) PROVE Safe'
  <2>1. ClosedCalls' = ClosedCalls
    BY <1>3 DEF DoProbe, ClosedCalls, TypeOK, InFlight, Running
  <2>2. period = {}
    BY <1>3 DEF DoProbe, CooledDown, Safe, OneProbePerPeriod
  <2>3. sinceFail = Cooldown
    BY <1>3 DEF DoProbe, CooledDown, TypeOK, Safe, HalfOpenCooledDown
  <2>4. QED
    BY <1>3, <2>1, <2>2, <2>3 DEF DoProbe, Safe, TypeOK, ClosedBelowThreshold, FailuresBounded,
                      HalfOpenCooledDown, OneProbePerPeriod
<1>4. ASSUME NEW c \in Callers, DoClosed(c) PROVE Safe'
  <2>1. FailuresBounded'
    <3>1. ClosedCalls' \subseteq Callers
      BY DEF ClosedCalls
    <3>2. Cardinality(ClosedCalls') \in Nat /\ Cardinality(ClosedCalls') <= Cardinality(Callers)
      BY <3>1, FS_Subset, FS_CardinalityType
    <3>3. failures' < Limit
      BY <1>4 DEF DoClosed, Safe, ClosedBelowThreshold
    <3>4. QED
      BY <1>4, <3>2, <3>3 DEF DoClosed, FailuresBounded, TypeOK
  <2>2. QED
    BY <1>4, <2>1 DEF DoClosed, Safe, TypeOK, ClosedBelowThreshold,
                      HalfOpenCooledDown, OneProbePerPeriod, InFlight, Running
<1>5. ASSUME NEW c \in Callers, NEW result \in {"nil", "fnErr"}, ProbeReturns(c, result) PROVE Safe'
  <2>1. ClosedCalls' = ClosedCalls
    BY <1>5 DEF ProbeReturns, Return, ClosedCalls, TypeOK
  <2>2. FailuresBounded'
    BY <1>5, <2>1 DEF ProbeReturns, Trip, Safe, FailuresBounded, TypeOK
  <2>3. QED
    BY <1>5, <2>2 DEF ProbeReturns, Trip, Safe, TypeOK, ClosedBelowThreshold,
                      HalfOpenCooledDown, OneProbePerPeriod
<1>6. ASSUME NEW c \in Callers, NEW result \in {"nil", "fnErr"}, ClosedReturns(c, result) PROVE Safe'
  <2>1. ClosedCalls' = ClosedCalls \ {c} /\ c \in ClosedCalls
    BY <1>6 DEF ClosedReturns, Return, ClosedCalls, TypeOK
  <2>2. Cardinality(ClosedCalls') = Cardinality(ClosedCalls) - 1
    BY <2>1, FS_RemoveElement
  <2>3. FailuresBounded'
    BY <1>6, <2>2 DEF ClosedReturns, Safe, FailuresBounded, TypeOK
  <2>4. c \notin period
    BY <1>6 DEF ClosedReturns, Safe, OneProbePerPeriod
  <2>5. QED
    BY <1>6, <2>3, <2>4 DEF ClosedReturns, Return, Trip, Safe, TypeOK, ClosedBelowThreshold,
                            HalfOpenCooledDown, OneProbePerPeriod
<1>7. ASSUME NEW c \in Callers, Panics(c) PROVE Safe'
  <2>1. ClosedCalls' \subseteq ClosedCalls
    BY <1>7 DEF Panics, Return, ClosedCalls, TypeOK
  <2>2. FailuresBounded'
    BY <1>7, <2>1, FewerClosedCalls DEF Panics, Safe, FailuresBounded, TypeOK
  <2>3. QED
    BY <1>7, <2>2 DEF Panics, Return, Safe, TypeOK, ClosedBelowThreshold,
                      HalfOpenCooledDown, OneProbePerPeriod
<1>8. CASE QueryState \/ Reset \/ Tick \/ UNCHANGED vars
  <2>1. ClosedCalls' = ClosedCalls
    BY <1>8 DEF QueryState, Reset, Tick, vars, ClosedCalls
  <2>2. FailuresBounded'
    BY <1>8, <2>1 DEF QueryState, Reset, Tick, vars, Safe, FailuresBounded, TypeOK
  <2>3. QED
    BY <1>8, <2>2 DEF QueryState, CooledDown, Reset, Tick, vars, Safe, TypeOK,
                      ClosedBelowThreshold, HalfOpenCooledDown, OneProbePerPeriod
<1>9. QED
  BY <1>1, <1>2, <1>3, <1>4, <1>5, <1>6, <1>7, <1>8 DEF Next, Do, FnReturns

(* Safe holds of a breaker New has just made. *)
LEMMA SafeInit == Init => Safe
<1> SUFFICES ASSUME Init PROVE Safe
  OBVIOUS
<1>1. ClosedCalls = {}
  BY DEF Init, ClosedCalls
<1>2. Cardinality(ClosedCalls) = 0
  BY <1>1, FS_EmptySet
<1>3. QED
  BY <1>2, ClosedCallsFinite, BreakerAssumption
  DEF Init, Safe, Limit, ClosedBelowThreshold, FailuresBounded, HalfOpenCooledDown, OneProbePerPeriod

(* The safety invariants together. *)
THEOREM Safety == Spec => []Safe
<1>1. TypeOK /\ Safe /\ [Next]_vars => Safe'
  BY SafeStep
<1>2. QED
  BY SafeInit, <1>1, TypeCorrect, PTL DEF Spec

(* However late results arrive, the count a Closed breaker carries is below *)
(* the threshold (circuit.go:93-98).                                        *)
THEOREM ClosedIsBelowThreshold == Spec => []ClosedBelowThreshold
BY Safety, PTL DEF Safe

(* b.failures, which trip never clears, stays below threshold plus callers. *)
THEOREM CounterIsBounded == Spec => []FailuresBounded
BY Safety, PTL DEF Safe

(* One HalfOpen period never runs two of its probes at once (circuit.go:70). *)
THEOREM ProbesExclude == Spec => []OneProbePerPeriod
BY Safety, PTL DEF Safe

(* A HalfOpen breaker has waited out its cooldown (circuit.go:60).          *)
THEOREM HalfOpenHasWaited == Spec => []HalfOpenCooledDown
BY Safety, PTL DEF Safe

(* No step but Reset and the success of a late probe takes an Open breaker   *)
(* out of Open before its cooldown is over.                                  *)
THEOREM CooldownIsKept == Spec => NoEarlyReadmission
<1>1. TypeOK /\ [Next]_vars
       => [state = "Open" /\ sinceFail < Cooldown /\ state' # "Open"
             => state' = "Closed" /\ (ProbeSucceeds \/ call' = call)]_vars
  <2> SUFFICES ASSUME TypeOK, Next, state = "Open", sinceFail < Cooldown, state' # "Open"
               PROVE  state' = "Closed" /\ (ProbeSucceeds \/ call' = call)
    BY DEF vars
  <2>1. ~CooledDown
    BY BreakerAssumption DEF TypeOK, CooledDown
  <2>2. ASSUME NEW c \in Callers, FnReturns(c) PROVE state' = "Closed" /\ ProbeSucceeds
    BY <2>2 DEF FnReturns, ProbeReturns, ClosedReturns, Return, Trip, ProbeSucceeds, TypeOK
  <2>3. ASSUME NEW c \in Callers PROVE ~Do(c) /\ ~Panics(c)
    BY <2>1 DEF Do, DoOpen, DoBusy, DoProbe, DoClosed, Panics
  <2>4. QED
    BY <2>1, <2>2, <2>3 DEF Next, QueryState, Reset, Tick
<1>2. QED
  BY <1>1, TypeCorrect, PTL DEF Spec, NoEarlyReadmission

(* The probe slot stays taken by a running probe, whatever late results and  *)
(* new periods do, unless that probe panics (circuit.go:77, no defer).       *)
THEOREM SlotKept == Spec => SlotLostByPanicOnly
<1>1. TypeOK /\ Safe /\ [Next]_vars
       => [SlotHasProbe /\ ~SlotHasProbe' => \E c \in period : call'[c] = "panic"]_vars
  <2> SUFFICES ASSUME TypeOK, Safe, Next, SlotHasProbe, ~SlotHasProbe'
               PROVE  \E c \in period : call'[c] = "panic"
    BY DEF vars
  <2>1. ASSUME NEW c \in Callers PROVE ~Do(c)
    BY DEF Do, DoOpen, DoBusy, DoProbe, DoClosed, SlotHasProbe
  <2>2. ASSUME NEW c \in Callers PROVE ~FnReturns(c)
    BY DEF FnReturns, ProbeReturns, ClosedReturns, Trip, SlotHasProbe
  <2>3. ASSUME NEW c \in Callers, Panics(c) PROVE c \in period /\ call'[c] = "panic"
    BY <2>3 DEF Panics, Return, SlotHasProbe, TypeOK
  <2>4. QED
    BY <2>1, <2>2, <2>3 DEF Next, QueryState, Reset, Tick, SlotHasProbe
<1>2. QED
  BY <1>1, TypeCorrect, Safety, PTL DEF Spec, SlotLostByPanicOnly

(* A Closed breaker opens when its count reaches the threshold, and then     *)
(* always, or when a probe of an earlier period fails late (circuit.go:79-82, *)
(* 93-96).                                                                   *)
THEOREM OpeningHasCause == Spec => OpensForCause
<1>1. TypeOK /\ [Next]_vars
       => (state = "Closed" /\ state' = "Open" => failures' >= Threshold \/ ProbeFails)
  <2> SUFFICES ASSUME TypeOK, Next, state = "Closed", state' = "Open"
               PROVE  failures' >= Threshold \/ ProbeFails
    BY DEF vars
  <2>1. ASSUME NEW c \in Callers PROVE ~Do(c) /\ ~Panics(c)
    BY DEF Do, DoOpen, DoBusy, DoProbe, DoClosed, Panics
  <2>2. ASSUME NEW c \in Callers, NEW r \in {"nil", "fnErr"}, ProbeReturns(c, r) PROVE ProbeFails
    BY <2>2 DEF ProbeReturns, Return, ProbeFails, TypeOK
  <2>3. ASSUME NEW c \in Callers, NEW r \in {"nil", "fnErr"}, ClosedReturns(c, r)
        PROVE  failures' >= Threshold
    BY <2>3 DEF ClosedReturns
  <2>4. QED
    BY <2>1, <2>2, <2>3 DEF Next, FnReturns, QueryState, Reset, Tick
<1>2. Safe' => (state' = "Closed" => failures' < Limit)
  BY DEF Safe, ClosedBelowThreshold
<1>3. TypeOK /\ Safe' /\ [Next]_vars
       => [/\ state = "Closed" /\ state' = "Open" => failures' >= Threshold \/ ProbeFails
           /\ state' = "Closed" => failures' < Limit]_vars
  BY <1>1, <1>2
<1>4. QED
  BY <1>3, TypeCorrect, Safety, PTL DEF Spec, OpensForCause

(* A step of the breaker is a step of the abstract gate, or leaves it alone. *)
LEMMA GateStep == TypeOK /\ Safe /\ [Next]_vars => [Gate!Next]_(Gate!vars)
<1> SUFFICES ASSUME TypeOK, Safe, [Next]_vars PROVE [Gate!Next]_(Gate!vars)
  OBVIOUS
<1> USE DEF InFlight, Running, Returned, States
<1>1. ASSUME NEW c \in Callers, DoOpen(c) \/ DoBusy(c) PROVE UNCHANGED Gate!vars
  BY <1>1 DEF DoOpen, DoBusy, Return, TypeOK, Gate!vars
<1>2. ASSUME NEW c \in Callers, DoProbe(c) PROVE Gate!Probe(c)
  <2>1. period = {}
    BY <1>2 DEF DoProbe, CooledDown, Safe, OneProbePerPeriod
  <2>2. InFlight' = InFlight \cup {c}
    BY <1>2 DEF DoProbe, TypeOK
  <2>3. QED
    BY <1>2, <2>1, <2>2 DEF DoProbe, CooledDown, TypeOK, Gate!Probe
<1>3. ASSUME NEW c \in Callers, DoClosed(c) PROVE Gate!Serve(c)
  BY <1>3 DEF DoClosed, TypeOK, Gate!Serve
<1>4. ASSUME NEW c \in Callers, FnReturns(c) PROVE Gate!Finish(c)
  <2>1. InFlight' = InFlight \ {c} /\ c \in InFlight
    BY <1>4 DEF FnReturns, ProbeReturns, ClosedReturns, Return, TypeOK
  <2>2. call[c] = "closed" => c \notin period
    BY DEF Safe, OneProbePerPeriod
  <2>3. QED
    BY <1>4, <2>1, <2>2 DEF FnReturns, ProbeReturns, ClosedReturns, Trip, TypeOK, Gate!Finish
<1>5. ASSUME NEW c \in Callers, Panics(c) PROVE Gate!Finish(c)
  BY <1>5 DEF Panics, Return, TypeOK, Gate!Finish
<1>6. CASE QueryState
  BY <1>6 DEF QueryState, CooledDown, Gate!Next, Gate!Expire
<1>7. CASE Reset
  BY <1>7 DEF Reset, Gate!Next, Gate!ForceClosed
<1>8. CASE Tick \/ UNCHANGED vars
  BY <1>8 DEF Tick, vars, Gate!vars
<1>9. QED
  BY <1>1, <1>2, <1>3, <1>4, <1>5, <1>6, <1>7, <1>8 DEF Next, Do, Gate!Next

(* circuit.go implements the abstract gate: Do admits a call only as         *)
(* BreakerGate allows, whatever the interleaving of calls, State and Reset.  *)
THEOREM ImplementsGate == Spec => GateSpec
<1>1. Init => Gate!Init
  BY DEF Init, Gate!Init, InFlight, Running
<1>2. TypeOK /\ Safe /\ [Next]_vars => [Gate!Next]_(Gate!vars)
  BY GateStep
<1>3. QED
  BY <1>1, <1>2, TypeCorrect, Safety, PTL DEF Spec, GateSpec, Gate!Spec
=============================================================================
