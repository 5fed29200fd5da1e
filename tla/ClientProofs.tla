---------------------------- MODULE ClientProofs ----------------------------
(***************************************************************************)
(* What holds of Client for every set of goroutines, all timeouts and      *)
(* every bound.  HealthWasTrue looks at the moment a check reports; the    *)
(* invariant it needs follows a check from its copy of the client's fields *)
(* on: what a copy made earlier is worth once others have closed the       *)
(* client and the context's deadline has come nearer.                      *)
(***************************************************************************)
EXTENDS Client, FiniteSetTheorems, TLAPS

HealthPlaces == {"copying", "checking", "measuring", "reporting"}
Places == {"idle", "closing", "counting"} \cup HealthPlaces

(* A client is closed only after New made it, and New makes one.             *)
Lifecycle ==
  /\ client = "open" => createdTotal = 1
  /\ client # "open" => createdTotal = 0 /\ ~closed

(* The copy differs from the client in one way: the client may be closed     *)
(* since.                                                                    *)
CopyIsRecent(q) ==
  pc[q] \in {"checking", "measuring", "reporting"} =>
    /\ snapshot[q].initialized = (client = "open")
    /\ snapshot[q].closed => client = "nil" \/ closed
    /\ client = "open" => snapshot[q].timeout = timeout

(* What a check goes by: the copy, the time left, and until it has looked at *)
(* it the state of the context.                                              *)
Basis(q) == IF pc[q] = "measuring" THEN [ctx[q] EXCEPT !.state = "live"] ELSE ctx[q]

(* What the copy and the context say together was true when the copy was     *)
(* made or is worse than that by the time that has passed.                   *)
CopyWasTrue(q) ==
  pc[q] \in {"checking", "measuring"} =>
    /\ StatusOf(Basis(q), snapshot[q]) = "healthy" => "healthy" \in seen[q]
    /\ StatusOf(Basis(q), snapshot[q]) = "degraded" => {"healthy", "degraded"} \cap seen[q] # {}

CheckInv(q) ==
  /\ pc[q] \in HealthPlaces => StatusOf(ctx[q], Now) \in seen[q]
  /\ CopyIsRecent(q)
  /\ CopyWasTrue(q)
  /\ pc[q] = "measuring" =>
       /\ snapshot[q].initialized /\ ~snapshot[q].closed /\ snapshot[q].timeout > 0
       /\ ctx[q].left # Never /\ ctx[q].state # "nil"

HealthInv == (\A q \in Procs : CheckInv(q)) /\ HealthWasTrue
-----------------------------------------------------------------------------
(* Type correctness, by one step per action. *)
THEOREM TypeCorrect == Spec => []TypeOK
<1>1. Init => TypeOK
  <2> SUFFICES ASSUME Init PROVE TypeOK
    OBVIOUS
  <2>1. ctx \in [Procs -> Contexts] /\ snapshot \in [Procs -> Snapshots]
    BY DEF Init, Contexts, Snapshots, NoSnapshot
  <2>2. calls \in 0..MaxCalls
    BY ClientAssumption DEF Init
  <2>3. gauge \in [Statuses -> {-1, 0, 1}] /\ status \in [Procs -> Statuses] /\ seen \in [Procs -> SUBSET Statuses]
    BY DEF Init, Statuses
  <2>4. QED
    BY <2>1, <2>2, <2>3 DEF Init, TypeOK
<1>2. TypeOK /\ [Next]_vars => TypeOK'
  <2> SUFFICES ASSUME TypeOK, [Next]_vars PROVE TypeOK'
    OBVIOUS
  <2> USE ClientAssumption
  <2>1. ASSUME NEW x \in Contexts, NEW snap \in Snapshots PROVE StatusOf(x, snap) \in Statuses
    BY DEF StatusOf, Statuses
  <2>2. Now \in Snapshots
    BY DEF TypeOK, Now, Snapshots, NoSnapshot
  <2>3. ASSUME Observe, ctx' \in [Procs -> Contexts], Now' \in Snapshots PROVE seen' \in [Procs -> SUBSET Statuses]
    BY <2>1, <2>3 DEF Observe, TypeOK
  <2>4. CASE New /\ Observe
    <3>1. Now' \in Snapshots
      BY <2>4 DEF New, TypeOK, Now, Snapshots, NoSnapshot
    <3>2. QED
      BY <2>3, <2>4, <3>1 DEF New, TypeOK
  <2>5. ASSUME NEW p \in Procs, NEW x \in Contexts, NEW place \in Places, Begin(p, x, place)
        PROVE  pc' \in [Procs -> Places] /\ ctx' \in [Procs -> Contexts] /\ calls' \in 0..MaxCalls
    BY <2>5 DEF Begin, TypeOK, Places, HealthPlaces
  <2>6. ASSUME NEW p \in Procs, CloseBegins(p), Observe PROVE TypeOK'
    <3>1. PICK x \in Contexts : Begin(p, x, IF client # "nil" /\ x.state = "live" THEN "closing" ELSE "idle")
      BY <2>6 DEF CloseBegins
    <3>2. Now' \in Snapshots
      BY <2>2, <2>6 DEF CloseBegins, Now
    <3>3. QED
      BY <2>3, <2>5, <2>6, <3>1, <3>2 DEF CloseBegins, TypeOK, Places, HealthPlaces
  <2>7. ASSUME NEW p \in Procs, CloseLocked(p), Observe PROVE TypeOK'
    <3>1. closed' \in BOOLEAN
      BY <2>7 DEF CloseLocked, TypeOK
    <3>2. Now' \in Snapshots
      BY <2>7, <3>1 DEF CloseLocked, TypeOK, Now, Snapshots, NoSnapshot
    <3>3. QED
      BY <2>3, <2>7, <3>1, <3>2 DEF CloseLocked, TypeOK
  <2>8. ASSUME NEW p \in Procs, CloseCounts(p), Observe PROVE TypeOK'
    BY <2>2, <2>3, <2>8 DEF CloseCounts, TypeOK, Now
  <2>9. ASSUME NEW p \in Procs, HealthBegins(p), Observe PROVE TypeOK'
    <3>1. PICK x \in Contexts : Begin(p, x, "copying")
      BY <2>9 DEF HealthBegins
    <3>2. Now' \in Snapshots
      BY <2>2, <2>9 DEF HealthBegins, Now
    <3>3. QED
      BY <2>3, <2>5, <2>9, <3>1, <3>2 DEF HealthBegins, TypeOK, Places, HealthPlaces
  <2>10. ASSUME NEW p \in Procs, Copy(p), Observe PROVE TypeOK'
    BY <2>2, <2>3, <2>10 DEF Copy, TypeOK, Now
  <2>11. ASSUME NEW p \in Procs, Check(p), Observe PROVE TypeOK'
    BY <2>2, <2>3, <2>11 DEF Check, TypeOK, Now, Statuses
  <2>12. ASSUME NEW p \in Procs, Measure(p), Observe PROVE TypeOK'
    BY <2>2, <2>3, <2>12 DEF Measure, TypeOK, Now, Statuses
  <2>13. ASSUME NEW p \in Procs, Report(p), Observe PROVE TypeOK'
    BY <2>2, <2>3, <2>13 DEF Report, TypeOK, Now, healthGaugeValue
  <2>14. CASE Tick /\ Observe
    <3>1. ctx' \in [Procs -> Contexts]
      BY <2>14 DEF Tick, TypeOK, Contexts, Never
    <3>2. QED
      BY <2>2, <2>3, <2>14, <3>1 DEF Tick, TypeOK, Now
  <2>15. ASSUME NEW p \in Procs, CtxEnds(p), Observe PROVE TypeOK'
    <3>1. ctx' \in [Procs -> Contexts]
      BY <2>15 DEF CtxEnds, TypeOK, Contexts, Never
    <3>2. QED
      BY <2>2, <2>3, <2>15, <3>1 DEF CtxEnds, TypeOK, Now
  <2>16. CASE UNCHANGED vars
    BY <2>16 DEF vars, TypeOK
  <2>17. QED
    BY <2>4, <2>6, <2>7, <2>8, <2>9, <2>10, <2>11, <2>12, <2>13, <2>14, <2>15, <2>16 DEF Next, Step
<1>3. QED
  BY <1>1, <1>2, PTL DEF Spec
-----------------------------------------------------------------------------
Counting == {q \in Procs : pc[q] = "counting"}

LEMMA CountingFinite == IsFiniteSet(Counting) /\ Cardinality(Counting) \in Nat
BY ClientAssumption, FS_Subset, FS_CardinalityType DEF Counting

LifecycleInv == Lifecycle /\ ClosedOnce

(* The counters move with the closed flag: New sets the one, the only Close  *)
(* that finds the flag unset leaves a goroutine that will add to the other.  *)
LEMMA LifecycleStep == TypeOK /\ LifecycleInv /\ [Next]_vars => LifecycleInv'
<1> SUFFICES ASSUME TypeOK, LifecycleInv, [Next]_vars PROVE LifecycleInv'
  OBVIOUS
<1> USE CountingFinite DEF LifecycleInv, Lifecycle
<1>1. ClosedOnce <=> closedTotal + Cardinality(Counting) = IF closed THEN createdTotal ELSE 0
  BY DEF ClosedOnce, Counting
<1>2. ClosedOnce' <=> closedTotal' + Cardinality(Counting') = IF closed' THEN createdTotal' ELSE 0
  BY DEF ClosedOnce, Counting
<1>3. ASSUME UNCHANGED <<client, closed, createdTotal, closedTotal>>, Counting' = Counting PROVE LifecycleInv'
  BY <1>1, <1>2, <1>3
<1>4. CASE New
  <2>1. Counting' = Counting
    BY <1>4 DEF New, Counting
  <2>2. QED
    BY <1>1, <1>2, <1>4, <2>1 DEF New, TypeOK
<1>5. ASSUME NEW p \in Procs, CloseLocked(p) PROVE LifecycleInv'
  <2>1. CASE client = "open" /\ ~closed
    <3>1. Counting' = Counting \cup {p} /\ p \notin Counting
      BY <1>5, <2>1 DEF CloseLocked, Counting, TypeOK
    <3>2. Cardinality(Counting') = Cardinality(Counting) + 1
      BY <3>1, FS_AddElement
    <3>3. QED
      BY <1>1, <1>2, <1>5, <2>1, <3>2 DEF CloseLocked, TypeOK
  <2>2. CASE ~(client = "open" /\ ~closed)
    <3>1. Counting' = Counting
      BY <1>5, <2>2 DEF CloseLocked, Counting, TypeOK
    <3>2. QED
      BY <1>3, <1>5, <2>2, <3>1 DEF CloseLocked
  <2>3. QED
    BY <2>1, <2>2
<1>6. ASSUME NEW p \in Procs, CloseCounts(p) PROVE LifecycleInv'
  <2>1. Counting' = Counting \ {p} /\ p \in Counting
    BY <1>6 DEF CloseCounts, Counting, TypeOK
  <2>2. Cardinality(Counting') = Cardinality(Counting) - 1
    BY <2>1, FS_RemoveElement
  <2>3. QED
    BY <1>1, <1>2, <1>6, <2>2 DEF CloseCounts, TypeOK
<1>7. ASSUME NEW p \in Procs, CloseBegins(p) \/ HealthBegins(p) PROVE LifecycleInv'
  <2>1. Counting' = Counting
    BY <1>7 DEF CloseBegins, HealthBegins, Begin, Counting, TypeOK
  <2>2. QED
    BY <1>3, <1>7, <2>1 DEF CloseBegins, HealthBegins
<1>8. ASSUME NEW p \in Procs, Copy(p) \/ Check(p) \/ Measure(p) \/ Report(p) PROVE LifecycleInv'
  <2>1. Counting' = Counting
    BY <1>8 DEF Copy, Check, Measure, Report, Counting, TypeOK
  <2>2. QED
    BY <1>3, <1>8, <2>1 DEF Copy, Check, Measure, Report
<1>9. ASSUME Tick \/ (\E p \in Procs : CtxEnds(p)) \/ UNCHANGED vars PROVE LifecycleInv'
  <2>1. Counting' = Counting
    BY <1>9 DEF Tick, CtxEnds, vars, Counting
  <2>2. QED
    BY <1>3, <1>9, <2>1 DEF Tick, CtxEnds, vars
<1>10. QED
  BY <1>4, <1>5, <1>6, <1>7, <1>8, <1>9 DEF Next, Step

(* A client is counted as closed once however many goroutines close it, and  *)
(* is closed only after New counted it as created.                           *)
THEOREM ClosedIsCountedOnce == Spec => []ClosedOnce
<1>1. Init => LifecycleInv
  <2> SUFFICES ASSUME Init PROVE LifecycleInv
    OBVIOUS
  <2>1. {q \in Procs : pc[q] = "counting"} = {}
    BY DEF Init
  <2>2. QED
    BY <2>1, FS_EmptySet DEF Init, LifecycleInv, Lifecycle, ClosedOnce
<1>2. TypeOK /\ LifecycleInv /\ [Next]_vars => LifecycleInv'
  BY LifecycleStep
<1>3. LifecycleInv => ClosedOnce
  BY DEF LifecycleInv
<1>4. QED
  BY <1>1, <1>2, <1>3, TypeCorrect, PTL DEF Spec
-----------------------------------------------------------------------------
(* What a context may become while a call uses it: it ends, or its deadline  *)
(* comes nearer.                                                             *)
Later(x, y) ==
  \/ y = x
  \/ y = [x EXCEPT !.state = "done"] /\ x.state # "nil"
  \/ x.left \in 1..MaxLeft /\ y.state = x.state /\ y.left = x.left - 1

LEMMA LaterContext ==
  ASSUME NEW x \in Contexts, NEW y \in Contexts, Later(x, y)
  PROVE  /\ y.state # "nil" <=> x.state # "nil"
         /\ x.left # Never => y.left # Never
         /\ \/ y = x
            \/ y.state = "done" /\ y.left = x.left
            \/ x.left \in 1..MaxLeft /\ y.state = x.state /\ y.left = x.left - 1
BY ClientAssumption DEF Later, Contexts, Never

(* With time, what a copy is worth gets worse only.                          *)
LEMMA StatusGetsWorse ==
  ASSUME NEW x \in Contexts, NEW y \in Contexts, NEW snap \in Snapshots,
         \/ y = x \/ y.state = "done"
         \/ x.left \in 1..MaxLeft /\ y.state = x.state /\ y.left = x.left - 1
  PROVE  /\ StatusOf(y, snap) = "healthy" => StatusOf(x, snap) = "healthy"
         /\ StatusOf(y, snap) = "degraded" => StatusOf(x, snap) \in {"healthy", "degraded"}
<1>1. CASE y = x \/ y.state = "done"
  BY <1>1 DEF StatusOf
<1>2. CASE x.left \in 1..MaxLeft /\ y.state = x.state /\ y.left = x.left - 1
  BY <1>2, ClientAssumption DEF StatusOf, Never, Snapshots
<1>3. QED
  BY <1>1, <1>2

(* A check that a step leaves alone keeps its invariant, though the client   *)
(* may have been closed and the context may be older.                        *)
LEMMA CheckGoesOn ==
  ASSUME TypeOK, TypeOK', HealthInv, Observe, NEW q \in Procs,
         pc'[q] = pc[q], snapshot'[q] = snapshot[q], status'[q] = status[q],
         Later(ctx[q], ctx'[q]),
         client' = client, timeout' = timeout, closed => closed'
  PROVE  CheckInv(q)' /\ (pc'[q] = "reporting" =>
           \/ status'[q] \in seen'[q]
           \/ status'[q] = "degraded" /\ {"healthy", "unhealthy"} \subseteq seen'[q])
<1> USE DEF HealthInv, HealthPlaces
<1>1. pc'[q] \in HealthPlaces => seen[q] \subseteq seen'[q] /\ StatusOf(ctx'[q], Now') \in seen'[q]
  BY DEF Observe
<1>2. CopyIsRecent(q)'
  BY DEF CheckInv, CopyIsRecent
<1>3. CopyWasTrue(q)'
  <2>1. ctx[q] \in Contexts /\ ctx'[q] \in Contexts /\ snapshot[q] \in Snapshots
    BY DEF TypeOK
  <2>2. CASE pc[q] = "measuring"
    <3> DEFINE x == Basis(q)
               y == [ctx'[q] EXCEPT !.state = "live"]
    <3>1. Basis(q)' = y
      BY <2>2 DEF Basis
    <3>2. ctx[q].state # "nil" /\ ctx'[q].state # "nil"
      BY <2>1, <2>2, LaterContext DEF CheckInv
    <3>3. x \in Contexts /\ y \in Contexts
      BY <2>1, <2>2, <3>2 DEF Basis, Contexts
    <3>4. x.state = "live" /\ x.left = ctx[q].left /\ y.state = "live" /\ y.left = ctx'[q].left
      BY <2>1, <2>2 DEF Basis, Contexts
    <3>5. y = x \/ (x.left \in 1..MaxLeft /\ y.state = x.state /\ y.left = x.left - 1)
      <4>1. y.left = x.left => y = x
        BY <3>3, <3>4 DEF Contexts
      <4>2. QED
        BY <2>1, <3>4, <4>1, LaterContext
    <3> HIDE DEF x, y
    <3>6. /\ StatusOf(y, snapshot[q]) = "healthy" => StatusOf(x, snapshot[q]) = "healthy"
          /\ StatusOf(y, snapshot[q]) = "degraded" => StatusOf(x, snapshot[q]) \in {"healthy", "degraded"}
      BY <2>1, <3>3, <3>5, StatusGetsWorse
    <3>7. QED
      BY <1>1, <2>2, <3>1, <3>6 DEF CheckInv, CopyWasTrue, x
  <2>3. CASE pc[q] = "checking"
    <3>1. Basis(q) = ctx[q] /\ Basis(q)' = ctx'[q]
      BY <2>3 DEF Basis
    <3>2. \/ ctx'[q] = ctx[q] \/ ctx'[q].state = "done"
          \/ ctx[q].left \in 1..MaxLeft /\ ctx'[q].state = ctx[q].state /\ ctx'[q].left = ctx[q].left - 1
      BY <2>1, LaterContext
    <3>3. QED
      BY <1>1, <2>1, <2>3, <3>1, <3>2, StatusGetsWorse DEF CheckInv, CopyWasTrue
  <2>4. QED
    BY <2>2, <2>3 DEF CopyWasTrue
<1>4. pc'[q] = "measuring" => ctx'[q].left # Never /\ ctx'[q].state # "nil"
  <2>1. ctx[q] \in Contexts /\ ctx'[q] \in Contexts
    BY DEF TypeOK
  <2>2. pc[q] = "measuring" => ctx[q].left # Never /\ ctx[q].state # "nil"
    BY DEF CheckInv
  <2>3. QED
    BY <2>1, <2>2, LaterContext
<1>5. CheckInv(q)'
  BY <1>1, <1>2, <1>3, <1>4 DEF CheckInv
<1>6. QED
  BY <1>1, <1>5 DEF HealthWasTrue

(* The step that reports decides as a check without duration would have, at  *)
(* some moment since this one began.                                         *)
LEMMA ReportedWasTrue ==
  ASSUME TypeOK, Lifecycle, HealthInv, Observe, NEW p \in Procs, Check(p) \/ Measure(p),
         pc'[p] = "reporting"
  PROVE  \/ status'[p] \in seen'[p]
         \/ status'[p] = "degraded" /\ {"healthy", "unhealthy"} \subseteq seen'[p]
<1> USE ClientAssumption DEF HealthInv, HealthPlaces
<1>1. seen[p] \subseteq seen'[p]
  BY DEF Observe
<1>2. StatusOf(ctx[p], Now) \in seen[p]
  BY DEF Check, Measure, CheckInv
<1>3. status'[p] = "unhealthy" => StatusOf(ctx[p], Now) = "unhealthy"
  <2>1. CASE Check(p)
    BY <2>1 DEF Check, CheckInv, CopyIsRecent, StatusOf, Now, NoSnapshot, TypeOK, Lifecycle
  <2>2. CASE Measure(p)
    <3>1. status'[p] = "unhealthy" => ctx[p].left <= 0
      BY <2>2 DEF Measure, TypeOK
    <3>2. client = "open" /\ snapshot[p].timeout = timeout /\ timeout > 0 /\ ctx[p].left # Never
      BY <2>2 DEF Measure, CheckInv, CopyIsRecent
    <3>3. QED
      BY <3>1, <3>2 DEF StatusOf, Now, TypeOK, Contexts, Never
  <2>3. QED
    BY <2>1, <2>2
<1>4. status'[p] # "unhealthy" => status'[p] = StatusOf(Basis(p), snapshot[p])
  <2>1. CASE Check(p)
    <3>1. snapshot[p].timeout \in Int
      BY DEF TypeOK, Snapshots
    <3>2. status'[p] # "unhealthy" =>
            /\ status'[p] = "healthy"
            /\ ctx[p].state = "live" /\ snapshot[p].initialized /\ ~snapshot[p].closed
            /\ ~(snapshot[p].timeout > 0 /\ ctx[p].left # Never)
      BY <2>1 DEF Check, TypeOK
    <3>3. Basis(p) = ctx[p]
      BY <2>1 DEF Check, Basis
    <3>4. QED
      BY <3>1, <3>2, <3>3 DEF StatusOf
  <2>2. CASE Measure(p)
    <3>1. Basis(p).state = "live" /\ Basis(p).left = ctx[p].left
      BY <2>2 DEF Measure, Basis, TypeOK, Contexts
    <3>2. QED
      BY <2>2, <3>1 DEF Measure, StatusOf, CheckInv, TypeOK, Contexts, Snapshots, Never
  <2>3. QED
    BY <2>1, <2>2
<1>5. CopyWasTrue(p) /\ pc[p] \in {"checking", "measuring"}
  BY DEF Check, Measure, CheckInv
<1>6. status'[p] \in Statuses
  BY DEF Check, Measure, TypeOK, Statuses
<1>7. status'[p] = "degraded" => StatusOf(ctx[p], Now) \in {"degraded", "unhealthy"}
  <2>1. SUFFICES ASSUME status'[p] = "degraded" PROVE StatusOf(ctx[p], Now) \in {"degraded", "unhealthy"}
    OBVIOUS
  <2>2. Measure(p) /\ ctx[p].left > 0 /\ ctx[p].left < snapshot[p].timeout
    <3>1. ~Check(p)
      BY <2>1 DEF Check, TypeOK
    <3>2. Measure(p) => ~(ctx[p].left <= 0) /\ ctx[p].left < snapshot[p].timeout
      BY <2>1 DEF Measure, TypeOK
    <3>3. ctx[p].left \in Int
      BY DEF TypeOK, Contexts, Never
    <3>4. QED
      BY <3>1, <3>2, <3>3
  <2>3. client = "open" /\ snapshot[p].timeout = timeout /\ timeout > 0 /\ ctx[p].left # Never
    BY <2>2 DEF Measure, CheckInv, CopyIsRecent
  <2>4. QED
    BY <2>2, <2>3 DEF StatusOf, Now, TypeOK, Contexts, Never
<1>8. QED
  BY <1>1, <1>2, <1>3, <1>4, <1>5, <1>6, <1>7 DEF CopyWasTrue, Statuses

(* Each step keeps the invariant of each check: of the one that takes it,    *)
(* and of all the others by CheckGoesOn.                                     *)
LEMMA HealthStep ==
  TypeOK /\ TypeOK' /\ Lifecycle /\ HealthInv /\ [Next]_vars => HealthInv'
<1> SUFFICES ASSUME TypeOK, TypeOK', Lifecycle, HealthInv, [Next]_vars PROVE HealthInv'
  OBVIOUS
<1> USE ClientAssumption DEF HealthPlaces
<1> DEFINE ReportTrue(q) ==
             pc[q] = "reporting" =>
               \/ status[q] \in seen[q]
               \/ status[q] = "degraded" /\ {"healthy", "unhealthy"} \subseteq seen[q]
           Good(q) == CheckInv(q) /\ ReportTrue(q)
<1>1. (\A q \in Procs : Good(q)') => HealthInv'
  BY DEF HealthInv, HealthWasTrue
<1>2. CASE UNCHANGED vars
  BY <1>2 DEF vars, HealthInv, HealthWasTrue, CheckInv, CopyIsRecent, CopyWasTrue, Basis, Now
<1>3. ASSUME Observe, NEW q \in Procs, pc'[q] \notin HealthPlaces PROVE Good(q)'
  BY <1>3 DEF CheckInv, CopyIsRecent, CopyWasTrue
<1>4. CASE New /\ Observe
  <2>1. \A q \in Procs : pc'[q] \notin HealthPlaces
    BY <1>4 DEF New
  <2>2. QED
    BY <1>1, <1>3, <1>4, <2>1
<1>5. CASE Tick /\ Observe
  <2>1. ASSUME NEW q \in Procs PROVE Later(ctx[q], ctx'[q])
    <3>1. ctx[q] \in Contexts
      BY DEF TypeOK
    <3>2. CASE ctx[q].left \in 1..MaxLeft
      BY <1>5, <3>1, <3>2 DEF Tick, Later, TypeOK, Contexts
    <3>3. CASE ctx[q].left \notin 1..MaxLeft
      BY <1>5, <3>3 DEF Tick, Later, TypeOK
    <3>4. QED
      BY <3>2, <3>3
  <2>2. QED
    BY <1>1, <1>5, <2>1, CheckGoesOn DEF Tick
<1>6. ASSUME Observe, NEW p \in Procs, Step(p) PROVE \A q \in Procs \ {p} : Good(q)'
  <2> SUFFICES ASSUME NEW q \in Procs \ {p} PROVE Good(q)'
    OBVIOUS
  <2>1. pc'[q] = pc[q] /\ ctx'[q] = ctx[q]
    BY <1>6 DEF Step, CloseBegins, CloseLocked, CloseCounts, HealthBegins, Begin, Copy, Check, Measure, Report, CtxEnds, TypeOK
  <2>2. snapshot'[q] = snapshot[q] /\ status'[q] = status[q]
    BY <1>6 DEF Step, CloseBegins, CloseLocked, CloseCounts, HealthBegins, Copy, Check, Measure, Report, CtxEnds, TypeOK
  <2>3. client' = client /\ timeout' = timeout /\ (closed => closed')
    BY <1>6 DEF Step, CloseBegins, CloseLocked, CloseCounts, HealthBegins, Copy, Check, Measure, Report, CtxEnds
  <2>4. QED
    BY <1>6, <2>1, <2>2, <2>3, CheckGoesOn DEF Later
<1>7. ASSUME Observe, NEW p \in Procs, CloseBegins(p) \/ CloseLocked(p) \/ CloseCounts(p) \/ Report(p)
      PROVE  Good(p)'
  <2>1. pc'[p] \notin HealthPlaces
    BY <1>7 DEF CloseBegins, Begin, CloseLocked, CloseCounts, Report, TypeOK
  <2>2. QED
    BY <1>3, <1>7, <2>1
<1>8. ASSUME Observe, NEW p \in Procs, HealthBegins(p) PROVE Good(p)'
  <2>1. pc'[p] = "copying"
    BY <1>8 DEF HealthBegins, Begin, TypeOK
  <2>2. QED
    BY <1>8, <2>1 DEF Observe, CheckInv, CopyIsRecent, CopyWasTrue
<1>9. ASSUME Observe, NEW p \in Procs, Copy(p) PROVE Good(p)'
  <2>1. pc[p] = "copying" /\ pc'[p] = "checking" /\ snapshot'[p] = Now /\ ctx' = ctx /\ Now' = Now
    BY <1>9 DEF Copy, TypeOK, Now
  <2>2. StatusOf(ctx'[p], Now') \in seen'[p]
    BY <1>9, <2>1 DEF Observe
  <2>3. CopyIsRecent(p)'
    BY <1>9, <2>1 DEF Copy, CopyIsRecent, Now, NoSnapshot, TypeOK, Snapshots
  <2>4. CopyWasTrue(p)'
    BY <2>1, <2>2 DEF CopyWasTrue, Basis
  <2>5. QED
    BY <2>1, <2>2, <2>3, <2>4 DEF CheckInv
<1>10. ASSUME Observe, NEW p \in Procs, Check(p) PROVE Good(p)'
  <2>1. /\ pc[p] = "checking" /\ ctx' = ctx /\ snapshot' = snapshot /\ Now' = Now
        /\ client' = client /\ timeout' = timeout /\ closed' = closed
    BY <1>10 DEF Check, Now
  <2>2. CASE pc'[p] = "measuring"
    <3>1. /\ snapshot[p].initialized /\ ~snapshot[p].closed /\ snapshot[p].timeout > 0
          /\ ctx[p].left # Never /\ ctx[p].state = "live"
      BY <1>10, <2>2 DEF Check, TypeOK
    <3>2. seen[p] \subseteq seen'[p] /\ StatusOf(ctx'[p], Now') \in seen'[p]
      BY <1>10, <2>2 DEF Observe
    <3>3. Basis(p)' = Basis(p)
      BY <2>1, <2>2, <3>1 DEF Basis, TypeOK, Contexts
    <3>4. CopyIsRecent(p)' /\ CopyWasTrue(p)'
      BY <2>1, <2>2, <3>2, <3>3 DEF HealthInv, CheckInv, CopyIsRecent, CopyWasTrue
    <3>5. QED
      BY <2>1, <2>2, <3>1, <3>2, <3>4 DEF CheckInv
  <2>3. CASE pc'[p] = "reporting"
    <3>1. StatusOf(ctx'[p], Now') \in seen'[p]
      BY <1>10, <2>3 DEF Observe
    <3>2. CopyIsRecent(p)' /\ CopyWasTrue(p)'
      BY <2>1, <2>3 DEF HealthInv, CheckInv, CopyIsRecent, CopyWasTrue
    <3>3. QED
      BY <1>10, <2>3, <3>1, <3>2, ReportedWasTrue DEF CheckInv
  <2>4. QED
    BY <1>10, <2>2, <2>3 DEF Check, TypeOK
<1>11. ASSUME Observe, NEW p \in Procs, Measure(p) PROVE Good(p)'
  <2>1. /\ pc[p] = "measuring" /\ pc'[p] = "reporting" /\ ctx' = ctx /\ snapshot' = snapshot /\ Now' = Now
        /\ client' = client /\ timeout' = timeout /\ closed' = closed
    BY <1>11 DEF Measure, Now, TypeOK
  <2>2. StatusOf(ctx'[p], Now') \in seen'[p]
    BY <1>11, <2>1 DEF Observe
  <2>3. CopyIsRecent(p)' /\ CopyWasTrue(p)'
    BY <2>1 DEF HealthInv, CheckInv, CopyIsRecent, CopyWasTrue
  <2>4. QED
    BY <1>11, <2>1, <2>2, <2>3, ReportedWasTrue DEF CheckInv
<1>12. ASSUME Observe, NEW p \in Procs, CtxEnds(p) PROVE Good(p)'
  <2>1. Later(ctx[p], ctx'[p])
    BY <1>12 DEF CtxEnds, Later, TypeOK
  <2>2. QED
    BY <1>12, <2>1, CheckGoesOn DEF CtxEnds
<1>13. ASSUME Observe, NEW p \in Procs, Step(p) PROVE Good(p)'
  BY <1>7, <1>8, <1>9, <1>10, <1>11, <1>12, <1>13 DEF Step
<1>14. QED
  BY <1>1, <1>2, <1>4, <1>5, <1>6, <1>13 DEF Next

(* What a health check reports was true while it ran; only a client that was *)
(* healthy and then unhealthy meanwhile may also be said to be degraded.     *)
THEOREM HealthReportsWereTrue == Spec => []HealthWasTrue
<1>1. Init => HealthInv
  BY DEF Init, HealthInv, HealthWasTrue, CheckInv, CopyIsRecent, CopyWasTrue, HealthPlaces
<1>2. Init => LifecycleInv
  BY FS_EmptySet DEF Init, LifecycleInv, Lifecycle, ClosedOnce
<1>3. TypeOK /\ TypeOK' /\ LifecycleInv /\ HealthInv /\ [Next]_vars => HealthInv'
  BY HealthStep DEF LifecycleInv
<1>4. HealthInv => HealthWasTrue
  BY DEF HealthInv
<1>5. QED
  BY <1>1, <1>2, <1>3, <1>4, TypeCorrect, LifecycleStep, PTL DEF Spec
=============================================================================
