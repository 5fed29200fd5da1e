--------------------------- MODULE CircuitBreaker ---------------------------
(***************************************************************************)
(* pkg/resiliencx/circuit/circuit.go: a three-state circuit breaker shared *)
(* by concurrent goroutines.                                               *)
(*                                                                         *)
(* Do holds b.mu twice: once to decide whether the call is admitted, once  *)
(* to record how it ended.  The caller's function runs between the two     *)
(* with the mutex free, so any number of other calls, of State and of      *)
(* Reset may come in between.  Each critical section is one action here.   *)
(*                                                                         *)
(* Time is time.Since(b.lastFailTime), the only thing the code reads from  *)
(* the clock.  It is compared with b.cooldown and with nothing else, so it *)
(* is counted up to Cooldown and no further.                               *)
(***************************************************************************)
EXTENDS Integers, FiniteSets

CONSTANTS
  Callers,    \* goroutines that share the breaker
  Threshold,  \* b.threshold; New accepts any int, and values below 1 act as 1
  Cooldown,   \* b.cooldown, in ticks; a negative duration acts as 0
  MayPanic    \* whether the caller's function may panic

ASSUME BreakerAssumption ==
  /\ IsFiniteSet(Callers)
  /\ Threshold \in Int
  /\ Cooldown \in Nat
  /\ MayPanic \in BOOLEAN

VARIABLES
  state,          \* b.state
  failures,       \* b.failures
  probeInFlight,  \* b.probeInFlight
  sinceFail,      \* time.Since(b.lastFailTime), counted up to Cooldown
  call,           \* what each goroutine's Do is executing, or last returned
  period          \* history: the probes admitted since the breaker last became
                  \* HalfOpen whose function is still running

vars == <<state, failures, probeInFlight, sinceFail, call, period>>

States   == {"Closed", "Open", "HalfOpen"}
Running  == {"closed", "probe"}   \* fn runs, admitted by a Closed / HalfOpen breaker
Returned == {"none", "nil", "fnErr", "ErrOpen", "ErrHalfOpen", "panic"}
InFlight == {c \in Callers : call[c] \in Running}

(* New: Closed, and lastFailTime is the zero time, long before any cooldown. *)
Init ==
  /\ state = "Closed"
  /\ failures = 0
  /\ probeInFlight = FALSE
  /\ sinceFail = Cooldown
  /\ call = [c \in Callers |-> "none"]
  /\ period = {}
-----------------------------------------------------------------------------
(* The test Do and State make first.  When it holds they move the breaker to *)
(* HalfOpen and clear probeInFlight before anything else.                    *)
CooledDown == state = "Open" /\ sinceFail >= Cooldown

(* trip: opens the breaker and restarts the cooldown, whatever its state was. *)
Trip ==
  /\ state' = "Open"
  /\ sinceFail' = 0
  /\ period' = {}

Return(c, result) == call' = [call EXCEPT ![c] = result]

(* First critical section of Do, one action per case of its switch. *)
DoOpen(c) ==
  /\ c \notin InFlight
  /\ state = "Open" /\ ~CooledDown
  /\ Return(c, "ErrOpen")
  /\ UNCHANGED <<state, failures, probeInFlight, sinceFail, period>>

DoBusy(c) ==
  /\ c \notin InFlight
  /\ state = "HalfOpen" /\ probeInFlight
  /\ Return(c, "ErrHalfOpen")
  /\ UNCHANGED <<state, failures, probeInFlight, sinceFail, period>>

DoProbeUnflagged(c) ==    \* slip: probeInFlight is not set
  /\ c \notin InFlight
  /\ CooledDown \/ (state = "HalfOpen" /\ ~probeInFlight)
  /\ state' = "HalfOpen"
  /\ call' = [call EXCEPT ![c] = "probe"]
  /\ period' = period \cup {c}
  /\ UNCHANGED <<failures, sinceFail, probeInFlight>>

DoProbeUnchecked(c) ==    \* slip: probeInFlight is not looked at
  /\ c \notin InFlight
  /\ CooledDown \/ state = "HalfOpen"
  /\ state' = "HalfOpen"
  /\ probeInFlight' = TRUE
  /\ call' = [call EXCEPT ![c] = "probe"]
  /\ period' = period \cup {c}
  /\ UNCHANGED <<failures, sinceFail>>

DoProbe(c) ==
  /\ c \notin InFlight
  /\ CooledDown \/ (state = "HalfOpen" /\ ~probeInFlight)
  /\ state' = "HalfOpen"
  /\ probeInFlight' = TRUE
  /\ call' = [call EXCEPT ![c] = "probe"]
  /\ period' = period \cup {c}
  /\ UNCHANGED <<failures, sinceFail>>

DoClosed(c) ==
  /\ c \notin InFlight
  /\ state = "Closed"
  /\ call' = [call EXCEPT ![c] = "closed"]
  /\ UNCHANGED <<state, failures, probeInFlight, sinceFail, period>>

(* Second critical section of Do.  Neither branch looks at b.state again. *)
ProbeReturnsUnclosed(c, result) ==    \* slip: a success leaves the breaker HalfOpen
  /\ call[c] = "probe"
  /\ Return(c, result)
  /\ probeInFlight' = FALSE
  /\ \/ result = "fnErr" /\ Trip /\ UNCHANGED failures
     \/ result = "nil" /\ failures' = 0 /\ period' = {} /\ UNCHANGED <<state, sinceFail>>

ProbeReturns(c, result) ==
  /\ call[c] = "probe"
  /\ Return(c, result)
  /\ probeInFlight' = FALSE
  /\ \/ /\ result = "fnErr"
        /\ Trip
        /\ UNCHANGED failures
     \/ /\ result = "nil"
        /\ state' = "Closed"
        /\ failures' = 0
        /\ period' = {}
        /\ UNCHANGED sinceFail

ClosedReturnsLate(c, result) ==    \* slip: > for >=
  /\ call[c] = "closed"
  /\ Return(c, result)
  /\ UNCHANGED probeInFlight
  /\ \/ /\ result = "fnErr"
        /\ failures' = failures + 1
        /\ IF failures' > Threshold
           THEN Trip
           ELSE UNCHANGED <<state, sinceFail, period>>
     \/ result = "nil" /\ failures' = 0 /\ UNCHANGED <<state, sinceFail, period>>

ClosedReturnsEarly(c, result) ==    \* slip: the first failure opens the breaker
  /\ call[c] = "closed"
  /\ Return(c, result)
  /\ UNCHANGED probeInFlight
  /\ \/ result = "fnErr" /\ failures' = failures + 1 /\ Trip
     \/ result = "nil" /\ failures' = 0 /\ UNCHANGED <<state, sinceFail, period>>

ClosedReturnsDecay(c, result) ==    \* slip: a success takes one failure off
  /\ call[c] = "closed"
  /\ Return(c, result)
  /\ UNCHANGED <<probeInFlight, state, sinceFail, period>>
  /\ failures' = IF result = "nil" THEN failures - 1 ELSE failures + 1

ClosedReturns(c, result) ==
  /\ call[c] = "closed"
  /\ Return(c, result)
  /\ UNCHANGED probeInFlight
  /\ \/ /\ result = "fnErr"
        /\ failures' = failures + 1
        /\ IF failures' >= Threshold
           THEN Trip
           ELSE UNCHANGED <<state, sinceFail, period>>
     \/ /\ result = "nil"
        /\ failures' = 0
        /\ UNCHANGED <<state, sinceFail, period>>

(* A panic in fn unwinds Do, which has no deferred call: nothing is recorded. *)
Panics(c) ==
  /\ MayPanic
  /\ c \in InFlight
  /\ Return(c, "panic")
  /\ period' = period \ {c}
  /\ UNCHANGED <<state, failures, probeInFlight, sinceFail>>

(* State() reads the state; it writes only when the cooldown is over. *)
QueryStateEager ==    \* slip: State() lets the breaker half-open at once
  /\ state = "Open"
  /\ state' = "HalfOpen"
  /\ probeInFlight' = FALSE
  /\ period' = {}
  /\ UNCHANGED <<failures, sinceFail, call>>

QueryStateKeepingSlot ==    \* slip: the slot of an earlier period is not freed
  /\ CooledDown
  /\ state' = "HalfOpen"
  /\ period' = {}
  /\ UNCHANGED <<probeInFlight, failures, sinceFail, call>>

QueryState ==
  /\ CooledDown
  /\ state' = "HalfOpen"
  /\ probeInFlight' = FALSE
  /\ period' = {}
  /\ UNCHANGED <<failures, sinceFail, call>>

Reset ==
  /\ state' = "Closed"
  /\ failures' = 0
  /\ probeInFlight' = FALSE
  /\ period' = {}
  /\ UNCHANGED <<sinceFail, call>>

Tick ==
  /\ sinceFail < Cooldown
  /\ sinceFail' = sinceFail + 1
  /\ UNCHANGED <<state, failures, probeInFlight, call, period>>

FnReturns(c) ==
  \E result \in {"nil", "fnErr"} : ProbeReturns(c, result) \/ ClosedReturns(c, result)

Do(c) == DoOpen(c) \/ DoBusy(c) \/ DoProbe(c) \/ DoClosed(c)

Next ==
  \/ \E c \in Callers : Do(c) \/ FnReturns(c) \/ Panics(c)
  \/ QueryState
  \/ Reset
  \/ Tick

Spec == Init /\ [][Next]_vars

(* The clock runs, every function ends, and every goroutine calls again. *)
Fairness ==
  /\ WF_vars(Tick)
  /\ \A c \in Callers : WF_vars(FnReturns(c)) /\ WF_vars(Do(c))

FairSpec == Spec /\ Fairness
-----------------------------------------------------------------------------
TypeOK ==
  /\ state \in States
  /\ failures \in Nat
  /\ probeInFlight \in BOOLEAN
  /\ sinceFail \in 0..Cooldown
  /\ call \in [Callers -> Running \cup Returned]
  /\ period \in SUBSET Callers

(* A breaker that lets calls through has counted fewer failures than the     *)
(* threshold: none of the ways back to Closed (probe, Reset, a late result)  *)
(* leaves a count that should have opened it.                                *)
Limit == IF Threshold < 1 THEN 1 ELSE Threshold
ClosedBelowThreshold == state = "Closed" => failures < Limit

(* Late failures of calls admitted before a trip go on counting, since trip  *)
(* leaves the counter alone; the calls in flight are all it can overshoot by. *)
ClosedCalls == {c \in Callers : call[c] = "closed"}
FailuresBounded ==
  failures + Cardinality(ClosedCalls) < Limit + Cardinality(Callers)

(* A HalfOpen breaker has waited for the whole cooldown, even when late      *)
(* results re-tripped it in between.                                         *)
HalfOpenCooledDown == state = "HalfOpen" => sinceFail = Cooldown

(* Of the probes one HalfOpen period admits, at most one runs at a time, and *)
(* its presence keeps the slot taken; late results cannot free it.           *)
OneProbePerPeriod ==
  /\ \A c, d \in period : c = d
  /\ \A c \in period : call[c] = "probe"
  /\ period # {} => state = "HalfOpen" /\ probeInFlight

(* The slot is taken by a probe that runs.  Only a panic breaks that: neither *)
(* late results nor a new period leave a slot behind that nobody will free.  *)
SlotHasProbe == state = "HalfOpen" /\ probeInFlight => period # {}
SlotLostByPanicOnly ==
  [][SlotHasProbe /\ ~SlotHasProbe' => \E c \in period : call'[c] = "panic"]_vars

ProbeFails == \E c \in Callers : call[c] = "probe" /\ call'[c] = "fnErr"
ProbeSucceeds == \E c \in Callers : call[c] = "probe" /\ call'[c] = "nil"
FnFails == \E c \in InFlight : call'[c] = "fnErr"

(* Before its cooldown is over an Open breaker is left only through Reset or *)
(* through a probe of an earlier period that succeeds late.                  *)
NoEarlyReadmission ==
  [][state = "Open" /\ sinceFail < Cooldown /\ state' # "Open"
       => state' = "Closed" /\ (ProbeSucceeds \/ call' = call)]_vars

(* A Closed breaker opens because its count reached the threshold, or        *)
(* because a probe it admitted earlier, and no longer waits for, fails late; *)
(* and a count that has reached the threshold never leaves it Closed.        *)
OpensForCause ==
  [][/\ state = "Closed" /\ state' = "Open" => failures' >= Threshold \/ ProbeFails
     /\ state' = "Closed" => failures' < Limit]_vars

(* If no function panics, then once they stop failing the breaker closes for *)
(* good, whatever state and late results it starts from.                     *)
NoPanic == \A c \in Callers : call[c] # "panic"
Recovers == []NoPanic /\ <>[][~FnFails]_vars => <>[](state = "Closed")

(* circuit.go keeps the promise of BreakerGate: the gate's mode is b.state.  *)
Gate == INSTANCE BreakerGate WITH mode <- state, running <- InFlight, trial <- period
GateSpec == Gate!Spec
-----------------------------------------------------------------------------
(* circuit.go:17 of HalfOpen: "allowing a single probe".                     *)
SingleProbe == \A c, d \in Callers : call[c] = "probe" /\ call[d] = "probe" => c = d
=============================================================================
