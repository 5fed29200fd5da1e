---------------------------- MODULE BreakerGate ----------------------------
(***************************************************************************)
(* What a circuit breaker promises the callers of Do, without the counter, *)
(* the clock and the flag circuit.go keeps to honour it:                   *)
(*   - a Closed gate lets every call through;                              *)
(*   - an Open gate lets no call through;                                  *)
(*   - a HalfOpen gate lets a call through only when no other call let     *)
(*     through since the gate became HalfOpen is still running;            *)
(*   - only the end of a call, or an operator, opens or closes the gate.   *)
(* CircuitBreaker is shown to implement this module.                       *)
(***************************************************************************)

CONSTANT Callers    \* goroutines that call Do

VARIABLES
  mode,     \* "Closed", "Open" or "HalfOpen"
  running,  \* callers whose function is executing
  trial     \* those of them that the current HalfOpen period let through

vars == <<mode, running, trial>>

TypeOK ==
  /\ mode \in {"Closed", "Open", "HalfOpen"}
  /\ running \in SUBSET Callers
  /\ trial \in SUBSET Callers

Init ==
  /\ mode = "Closed"
  /\ running = {}
  /\ trial = {}

Serve(c) ==
  /\ mode = "Closed"
  /\ c \notin running
  /\ running' = running \cup {c}
  /\ UNCHANGED <<mode, trial>>

(* The first call after the cooldown moves an Open gate to HalfOpen itself. *)
Probe(c) ==
  /\ mode \in {"Open", "HalfOpen"}
  /\ c \notin running
  /\ trial = {}
  /\ mode' = "HalfOpen"
  /\ running' = running \cup {c}
  /\ trial' = {c}

Expire ==
  /\ mode = "Open"
  /\ mode' = "HalfOpen"
  /\ trial' = {}
  /\ UNCHANGED running

(* The end of a call leaves the gate as it is, opens it or closes it. *)
Finish(c) ==
  /\ c \in running
  /\ running' = running \ {c}
  /\ \/ mode' = mode /\ trial' = trial \ {c}
     \/ mode' \in {"Open", "Closed"} /\ trial' = {}

ForceClosed ==
  /\ mode' = "Closed"
  /\ trial' = {}
  /\ UNCHANGED running

Next ==
  \/ Expire
  \/ ForceClosed
  \/ \E c \in Callers : Serve(c) \/ Probe(c) \/ Finish(c)

Spec == Init /\ [][Next]_vars
=============================================================================
