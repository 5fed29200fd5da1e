# Formal models of resiliencx

TLA+ models of the resilience strategies of `pkg/resiliencx` and of the
repository's release tooling, the TLC runs that check them, and TLAPS proofs
about them. Every definition is translated
from the Go source; `PROJECT.json` names the lines each one stands for.
Paths below are relative to the repository.

## 1. Inventory

The repository is a Go library (about 4000 lines without tests) with its
release tooling. Components, the state each keeps, what makes it correct, and
where it is modelled:

| component | state | operations | correct when | modules |
|---|---|---|---|---|
| circuit breaker `circuit/circuit.go` | state, failure count, probe flag, time of the last trip, under one mutex | `Do` (two critical sections with the caller's function in between), `State`, `Reset` | one probe per HalfOpen period; no admission before the cooldown; the count never reaches the threshold while Closed; it recovers | `CircuitBreaker`, `BreakerGate`, `CircuitBreakerProofs` |
| bulkhead `bulkhead/bulkhead.go` | a buffered channel and the runtime's two wait queues | `Acquire`, `TryAcquire`, `Release`, `Do`, `Available` | no slot lost or made, no lost wake-up, FIFO, blocked calls end | `Bulkhead`, `ConcurrencyLimit`, `BulkheadProofs` |
| timeout `timeout/timeout.go` | per call: caller, worker goroutine, channel, derived context | `Do` | the result is genuine, the caller returns, no goroutine stays behind | `Timeout`, checked in `NestedStrategies`, `BulkheadProofs` |
| nested strategies (README "可组合") | the above together | `b.Do` around `timeout.Do` and the reverse | slots and goroutines come back; the limit covers what executes | `NestedStrategies`, `BulkheadOverTimeout`, `TimeoutOverBulkhead`, `BulkheadProofs`, `ResilientCall`, `ResilientCallProofs` |
| rate limiter `ratelimit/ratelimit.go` | tokens, time of the last refill, under one mutex | `Allow`, `AllowN`, `Reserve` | no window exceeds burst plus rate; lazy refill is invisible | `TokenBucket`, `IdealBucket`, `TokenBucketProofs` |
| retry `retry/retry.go` | loop variables of one call | `Do` | the result is explained by the attempts; waits are geometric and capped | `Retry`, `ResilientCall`, `ResilientCallProofs` |
| goal evidence ledger `internal/goalruntime` | a JSONL file shared by processes, an evidence pack | `Evaluate`, `WriteEvidence` | a pack only after its prerequisites; upserts lose nothing | `GoalLedger`, `EvidenceRegister`, `GoalLedgerProofs` |
| client `client.go`, `health.go` | closed flag under a mutex; metrics outside it | `New`, `Close`, `HealthCheck` | closing is idempotent and counted once; a reported health was true during the check | `Client`, `ClientProofs` |
| idempotency guard `idempotency.go` | a map of seen keys, without a lock | `Check`, `Mark` | an operation that has ended is not begun again | `ResilientCall`, `ResilientCallProofs` |
| fallback `fallback/fallback.go` | none | `Do` | first success, else last error; never called after a success | `ResilientCall`, `ResilientCallProofs` |
| debt check `internal/debtcheck` | none; files read | `Run`, `ExitCode` | what it passes has no serious debt | `DebtCheck`, `ReleaseCheck`, `ReleaseCheckProofs` |
| release manifest and quality score `internal/tools/releasemanifest`, `internal/releasequality` | none in memory; manifest, checksum and reports on disk | `buildManifest`, `writeManifest`, `verifyManifest`, `Compute`, `Verify`, in the order of `make release-final-check` | what is released is HEAD; what is signed is what was verified unless it was written over twice | `ReleaseCheck`, `ReleaseCheckProofs` |
| validation `internal/validation` | none; policy files read line by line | `ValidateRuntimeFileOwnership`, `ValidateExecutionContext` | fields go to the entry they are written under; a file that passes says what its gate promises | `Validation`, `ValidationProofs` |
| classifier, strategy config, events, noop strategy | bags of options, pure mappings | | | not modelled: no state or a constant answer |
| sanitizer, test kit, examples, contracts, scripts, templates, `.agent`, docs | | | | not modelled: no run-time logic of the library |

### Interaction

The six strategies do not call each other. Each takes the caller's function,
and programs nest them by passing the `Do` of one as the function of another.
They interact through what they have in common: the goroutine that calls, the
context one derives from the other, and the time at which each regards a call
as over. Programs share one breaker, one guard, one bulkhead between
goroutines. `Client` shares nothing with the strategies. The internal packages
are used by command-line tools; the ledger file is what their processes share.

### What is hard in this code

* **Late results.** `circuit.Do` releases the mutex around the caller's
  function. Results arrive after the state they were admitted in has gone.
* **Abandoned work.** `timeout.Do` returns while its worker goes on. The
  worker still holds what it took, or has already given back what it still
  needs, depending on the nesting.
* **Hand-over.** A Go channel moves a slot from a leaving goroutine to a
  waiting one while others cancel, arrive, or try without waiting.
* **Lumps of time.** The token bucket learns about time only when somebody
  calls, the breaker only when somebody asks.
* **One error for everything.** Rejected by the breaker, refused by the guard
  and failed are the same to `retry.Do`, and the last two to the breaker too.
* **Decisions on a copy.** `HealthCheck` copies under the lock and decides
  after it; `Close` counts after it.
* **Parsing by lines.** The two validation gates read YAML with string
  operations; a line they do not recognise is passed over.
* **Arithmetic.** Backoff goes from int64 to float64 and back, is rounded,
  truncated, capped late, and may overflow.
* **Files without locks.** The evidence ledger is read, changed and rewritten
  by processes that know nothing of each other.
* **Facts gathered one at a time.** A manifest is made of a dozen files and
  commands, and so is the one it is compared with, while people edit, commit,
  interrupt and start again.

`PROJECT.json` lists these hazards line by line with the properties that
would notice them going wrong.

## 2. Modules and how they correspond to the code

### CircuitBreaker

`b.mu` is held twice per `Do`, so a call is two atomic steps: one of `DoOpen`,
`DoBusy`, `DoProbe`, `DoClosed` (lines 58-75 and 89), and later
`ProbeReturns` or `ClosedReturns` (78-87, 92-101) or `Panics`, which records
nothing, for `Do` has no deferred call. `QueryState` is `State()` where it
writes, `Reset` is `Reset()`. Time is `sinceFail`, `time.Since(lastFailTime)`:
the code compares it with `cooldown` only, so counting stops there. `call`
tells what each goroutine is doing and what it last got. `period` is a history
variable: the probes admitted since the breaker last became HalfOpen that
still run. Nothing reads it but the properties and the refinement.

`BreakerGate` is the promise: calls pass while Closed, none while Open, one at
a time in a HalfOpen period; only the end of a call or an operator opens or
closes the gate. `GateSpec` says CircuitBreaker implements it.

### Bulkhead

`b.sem` is a Go channel. The model gives it the runtime's semantics: a send
goes to a blocked receiver, else into the buffer, else it blocks at the end of
a FIFO queue; a receive mirrors that. `Acquire` and `Release` block by entering
`sendq` or `recvq`; the operation that wakes them moves them on, as the runtime
does. `Cancelled` takes a goroutine out of the queue when its context ends.
`StrayRelease` is a `Release` that no `Acquire` precedes, which nothing in the
code prevents. `ConcurrencyLimit` is the promise, implemented with one more
slot per stray release.

### Timeout, and the two nestings

Caller and worker are two processes per call. The caller is `entering` until
it reaches the select, `parked` in it, `leaving` with its result chosen, and
`returned` after the deferred `cancel()`. If both cases are ready when the
select is reached either may be taken; once parked the first event decides.

`BulkheadOverTimeout` and `TimeoutOverBulkhead` instantiate `Bulkhead` and
`Timeout` and say when one's steps enable the other's: in the first, the
caller holds the slot around `timeout.Do`; in the second, the worker does.
`NestedStrategies` is a program that has chosen one of the two. It extends
`Bulkhead`, whose state and operations are the bulkhead of both nestings; the
properties of the timeout itself are checked in it, in both nestings.

### TokenBucket

Every method holds `l.mu` throughout, so each is one action that includes
`refill`. Tokens are exact where the code has float64. `Reserve` hands out a
wait and empties the bucket; `GoOn` is its caller after the wait. `spent` and
`age` are history: the tokens taken in a window that may begin at any time.
`IdealBucket` fills at every tick; `IdealSpec` says nobody can tell the lazy
bucket from it.

### Retry and ResilientCall

`Retry` is the loop of one `Do` with its policy, `select` and backoff
arithmetic. Multipliers count halves, so 1.5 can be written. A wait goes
through float64 and back as in the code: `Rounded` to the digits a float64 has
(every integer up to `Exact`, 2^53, and then the multiples of the `Units`),
multiplied, rounded again, and `Truncated`; what is beyond a Duration becomes
what amd64 or arm64 make of it. `Geometric` is the closed form of the waits and
`Expected` the same with the cap. `BackoffIsGeometric` says they are the waits
while the closed form is at most `Exact` (`Fits`), and however far it has grown
if a cap keeps what is multiplied that small (`CapHolds`). Any other wait is
the machine's: rounded, or overflown at either end.

`ResilientCall` is `fallback.Do` around `retry.Do` around `breaker.Do` around
an operation that must not be repeated. It instantiates `Retry` for the one
caller `Me` and `CircuitBreaker` for `Me` and `Others`, who call the breaker
directly and go on calling. A step belongs to both where the code returns
from one into the other: `Reject` is the breaker's `ErrOpen` and retry's failed
attempt, `Return` is the end of the breaker's call and of the attempt, for
retry a success, a failure, or nothing if the call is another caller's.
`Check` and `Executed` are the operation's calls of `guard.Check` and of
`guard.Mark`, which it makes when it has been executed, however that ended.
The guard's map has no lock, so the model is of a program that holds one
around each of the two. `Fallback` is the rest of `fallback.Do`: how many
fallbacks there are is decided only as they are used up. `ran` is history: how
the operation ended for those who executed it.

### Client

`c.mu` protects `closed` and nothing else, so `Close` is three steps (the nil
and context checks, the critical section, the counter) and `HealthCheck` five
(arrival, the copy under the lock, the checks in order, `time.Until`, the
gauge and the return). `New` comes before any goroutine has the pointer; a
client may also stay nil or be a zero value. A context carries the ticks to
its deadline; that it is past its deadline and that `Err()` says so are two
things. `CtxEnds` is a cancellation, or the timer, which comes in its own
time; it leaves the deadline where it is, so a check that has looked at
`Err()` goes on to measure the deadline of a context that is cancelled by now.
`seen` is history: every status that was true at some moment since the
goroutine's check began. The counters of errors and latencies are left out:
nothing is decided by them.

### Validation

A line is its indentation, key, value and whether it begins with a dash.
`ReadLine` is one turn of the parsers' loop, `parser[i]` what it has come to
after `i` lines, and `parse` the entries at the end of the file; the two
parsers differ in what opens an entry and in the fields. The
gates are verdicts, whether the list of gaps is empty. `Edit` changes a file
that passes, a line at a time. The reference reading (`Block`,
`EntriesWritten`, `Written`) is by positions and knows no parser state:
`Position` counts the entries up to a line. `Plain` names the files the line
parser is made for: within the block that is read, no indentation but 2 and
4, and entries that stand alone on their line.

### GoalLedger

A process is one execution of goalcli with evidence writing on: `Evaluate`
(126-212), then `WriteEvidence` (268-293), whose steps are those between which
another process can act: the second look at the prerequisites (`Recheck`),
truncating and writing the pack (`OpenPack`, `WritePack`), reading the ledger
(`ReadLedger`, with the new contents computed from what was read), truncating
it (`OpenLedger`) and writing it (`WriteLedger`). `os.WriteFile` truncates
first, and two processes write through offsets of their own; `Overwritten` is
what the file then holds. `Upserted` goes through the lines as the code's loop
does: it replaces the entry of the same goal and command, or appends. `Stop` is
a kill or an I/O error, anywhere. `cmd/goalcli` is not in the repository; the
order of the two calls is that of its contract
(`docs/standard/goalcli-cli-contract.md`) and of the tests. `recorded`,
`overlap` and `cut` are history variables: what has been in the ledger, whether
two processes were ever between reading and writing together, and whether one
stopped between truncating and writing.

`EvidenceRegister` is the promise: a set of entries with one for each goal and
command, changed in one step, a final entry recorded beside its prerequisites.
`RegisterSpec` says GoalLedger implements it, where `Shown` is the file as the
processes mean it: while one has it open, what it is about to write there. So
opening the file records, writing it changes nothing, and stopping in between
loses the register as a whole (`Lose`, `cut`), after which a final entry may
stand alone. When processes overlap nothing is promised any more (`Collide`).

### DebtCheck and ReleaseCheck

`DebtCheck` is `debtcheck.Run` as operators: what a section's scanner finds
(`Scanned`, `ScannedDownstream`), the severities, section verdicts, the score
in hundredths, the status and the exit code. A repository is the files of the
walk in path order, each with the debt it holds and whether it can be read;
the policy files that are missing; and the state of the files read by name.
`IsRepository` says what the walk makes of files, among it that only Go files
can fail to parse or import a legacy package.

`ReleaseCheck` is `make release-final-check` from the debt gate on: `Start`,
`ScanSection` and `DebtGate`, `StandardImpactCheck`, `ScoreCheck`, a second
scan and `DebtEvidenceWritten`, then `buildManifest` fact by fact
(`BuildFact`), `Truncate` and `Write`, `Hash`, the first verification
(`ReadManifest`, `BuildFact` again, `Verified`), `ChecksumCheck`, the final
score, and the strict verification and checksum. A tree is a record of what
these steps can tell apart. Beside it people edit and commit the tree
(`Edit`, `Commit`), interrupt the run (`Kill`; `Start` then begins again on the
files left behind) and run `make evidence` (`OtherEvidence`), with or without
`CHECK_STATUS=passed` as the checklist in `docs/release.md` has it. The facts
of that other run are gathered at once; its two file operations interleave
with the release's. `cmd/goalcli` is not in the repository; its subcommands are
taken from the Makefile and the packages they call. `scanned` (the trees the
last scan saw), `still` (nothing changed since the last verification began) and
`rewrites` (how often the other run has written the manifest since the hash)
are history; `events` counts edits, further runs and runs of `make evidence`
against the bound `MaxEvents`.

### State and code

| model | code |
|---|---|
| `state`, `failures`, `probeInFlight`, `sinceFail` | `b.state`, `b.failures`, `b.probeInFlight`, `time.Since(b.lastFailTime)` |
| `sem`, `sendq`, `recvq` | `len(b.sem)` and the channel's wait queues |
| `caller`, `worker`, `ch`, `ctx` | the goroutine in `timeout.Do`, the one it starts, `ch`, `ctx` |
| `tokens`, `elapsed` | `l.tokens`, `now - l.lastTime` |
| `p`, `attempt`, `wait`, `lastErr` | the variables of the same names in `retry.Do` |
| `debt`, `impact`, `manifest`, `checksum` | `release/debt/latest.json`, `release/standard-impact/latest.md`, `release/manifest/latest.json` and its `.sha256` |
| `draft`, `got`, `scan` | the manifest `buildManifest` fills, `expected` of `verifyManifest`, the report `debtcheck.Run` fills |
| `op`, `seen`, `fb`, `answer` in `ResilientCall` | where the guarded operation is, `g.seen[key]`, fallbacks called, what `fallback.Do` returns |
| `client`, `timeout`, `closed`, `snapshot`, `gauge` | the pointer, `c.cfg.Timeout`, `c.closed`, the locals of `HealthCheck`, `client_health_status` |
| `file`, `parser`, `parse` | the policy file's lines, the parser's locals after each line, the entries it returns |
| `ledger`, `pack`, `next` | the files `.agent/evidence/ledger.jsonl` and `release/evidence/goalcli/<goal>.json`, the local `next` |

## 3. Runs

All bounds are in the .cfg files.

| run | what it shows | why the bounds are enough |
|---|---|---|
| `breaker` | counter, slot and cooldown stay consistent under late results and panics; the gate is implemented; without panics the breaker recovers | three callers: a late closed call, a late probe and a current call at once; cooldown 2 separates "just tripped", "waiting", "over"; threshold 2 makes one failure not enough |
| `breaker_single_probe` (violation) | two probes of different periods run together | |
| `bulkhead` | accounting, wake-ups, order, refinement of the limit, progress | two slots, three waiters: a hand-over with one queued in front of and one behind the one that cancels; one unpaired `Release` |
| `nesting` | in both nestings: genuine results, the caller returns, no goroutine stays if `fn` heeds its context. b.Do inside: a limit on what executes, slots come back with it; b.Do outside: every slot comes back even if `fn` never returns | one slot, two calls: one in the slot, one that waits for it, gets it handed over, or is given up |
| `nesting_limit` (violation) | with b.Do outside, more functions execute than the bulkhead allows | |
| `bucket_rate` | rate in every window, refinement of the ideal bucket | requests below, at, above the level; gaps that overfill the bucket |
| `bucket_reserve` (violation) | reserved tokens are given out twice | |
| `resilient` | what comes out of fallback, retry and breaker is explained by what happened to the operation; it is not begun again once it has ended; waits in closed form; the call ends | each kind of policy; four attempts reach the cap, a product that is rounded (floats of four digits, exact up to 16), an overflow at either end, and a breaker that trips (threshold 2) and half-opens (cooldown 1) between two of them; one other caller is enough to trip it, take the probe slot, or execute first |
| `ledger` | a pack only with its prerequisites; refinement of the atomic register; nothing lost, torn or doubled unless processes overlap or one stops after truncating | three processes: two record what a third, final one needs; two goals, so that one's evidence could count for the other |
| `release` | what is released is HEAD, clean and unchanged during the verification; the checksum signs what was verified, unless the manifest was written over twice since the hash; a debt report made of one tree tells the truth about it | any two of an edit, a further run and another `make evidence`: an edit under the verification, a stale report of an earlier run, two writers of one file; five trees: debt hidden behind an unreadable file, the most debt allowed, one finding more, a legacy import, a neglected repository |
| `client` | closing counted once; a reported health was true during the check | three goroutines and three calls: two that close while one checks; contexts that are cancelled before, at and after their deadline; two ticks to a deadline and a timeout of two: above, below and past it; no timeout and a rejected one |
| `validation` | fields go where they are written; a file that passes keeps its gate's promise | two edits: enough to repeat an entry and change the copy, to empty a value after writing it, or to put a field outside its entry; every form of line the parsers tell apart is among those inserted |

Fairness is used for liveness only. The breaker: the clock runs, functions
end, goroutines call again. The bulkhead: functions inside end and `Release`
follows. The nestings: deadlines pass and goroutines are scheduled, as the
premise `Scheduling` of `CallerReturns` and `AllComesBack`; nothing is assumed
of `fn`, except in `AllComesBack`, that it ends once its context has. The
resilient call: its goroutine runs, its timers fire and the operation ends;
nothing is assumed of the breaker, the clock that would half-open it or the
other callers. All are what the Go scheduler and clock provide, or a premise on
the caller's function that is stated.

### Where code and documentation differ

The violation runs each check a sentence of the repository that the code does
not keep; the findings in `PROJECT.json` quote them. Seen while modelling and
covered by a property that states what the code does instead:

* A probe that outlives its HalfOpen period still trips or closes the breaker
  (`OpensForCause`, `NoEarlyReadmission`).
* `timeout.Do` may return nil after the deadline when both select cases are
  ready (`ResultGenuine`).
* A probe that panics leaves its slot taken: every later call of that HalfOpen
  period gets `ErrHalfOpen`, "probe already in flight" (`circuit.go:22`), though
  none is, until `Reset` (`SlotLostByPanicOnly`).
* The first retry wait is not capped by `MaxWait` (`BackoffIsGeometric`), and a
  policy without attempts makes `retry.Do`, and `fallback.Do` around it, return
  nil with nothing called (`AnswerExplained`).
* A backoff above 2^53 ns (104 days) is rounded to a float64, and one that
  overflows can become negative on amd64, so retries go on without a wait.
  `BackoffIsGeometric` holds below that, at both ends, and for ever under a cap
  whose product stays below it.
* `retry.go:28` promises the first error after all attempts fail; what comes
  back is the last one (`AnswerExplained`). In a resilient call that may be
  `ErrOpen` or `ErrAlreadyExecuted` in place of the error the operation ended
  with, and a fallback then runs although the operation was executed.
* `ErrAlreadyExecuted` counts as a failure against the breaker; retries of an
  operation that was executed may open it. Callers that were past `Check`
  together execute the operation each (`AtMostOnce` states what remains).
* A client that was healthy and is closed, or whose context is cancelled, during
  a check may be reported degraded, which it never was (`HealthWasTrue`): the
  deadline is measured without another look at either. The gauge of
  "healthy" is set to 1 by a healthy check and never reset by an unhealthy one,
  which sets the gauge of its own label; a client without a timeout is healthy
  although its deadline has passed, until its context says so.
* The validation parsers pass over a line at indentation 2 with a value after
  the colon (an anchor) or at an odd indentation; the fields below it go to the
  entry before. Only the first block is read, and a header that is indented
  opens it too (`ReadAsWritten` and `PassedIsSafe` speak of `Plain` files).
* A file that cannot be read ends `debtcheck`'s walk and the error is dropped:
  debt in later files goes unseen, and the run releases such a tree
  (`DebtFreeRelease` speaks of the files before it). An empty file among those
  read by name passes the searches for required text.
* The minimum a debt score is held to comes from the debt report itself
  (`docker.go:108`).
* A debt report may be of an older tree than the manifest that embeds it;
  nothing compares the two. `DebtFreeRelease` speaks of the one tree the last
  scan saw, if it was one; when the scan ran over an edit it says nothing.
* The manifest is read twice after its hash: for the last verification, and
  for the last checksum. If `make evidence` writes another, valid manifest in
  between hash and verification, and a further one writes the hashed one back
  before the checksum, a manifest was verified that is not the one signed
  (`SignedIsVerified` holds with fewer than two such writes).

## 4. Proofs

TLAPS proves every safety property the passing runs check, for every value of
the constants, and the four refinements. The theorems are in a module per
component, `<component>Proofs`, which extends the component's; those about the
two nestings are with the bulkhead's. Each assumes that component's
`...Assumption` and nothing more, but for `EmptyString`; TLC evaluates all of
them in the runs.

| module | proved | inductive invariant, and why it takes that much |
|---|---|---|
| `CircuitBreakerProofs` | all the breaker's safety properties, `GateSpec` | `Safe` |
| `BulkheadProofs` | of the bulkhead: `SlotsAccounted`, `NoLostWakeup`, `FirstComeFirstServed`, `SlotsSpec` | `BulkheadInv`: that a woken goroutine has a slot needs that the queue holds those who wait and only them; that a stray `Release` can receive only once needs `StraysBounded` |
| | of the nestings: that they use the bulkhead as it allows, `ResultGenuine`, `TimeoutOutsideLimits` | `BulkheadInv`, and `NestedInv`: `TimeoutInv` for `timeout.Do` in both nestings, `HoldInv` for who is inside while `fn` runs |
| `TokenBucketProofs` | `WithinRate`, `IdealSpec` | `TypeOK` with `WithinRate`, put in terms of `Refilled`, what the bucket would hold if it were filled now |
| `ResilientCallProofs` | `AnswerExplained`, `AtMostOnce`, `BackoffIsGeometric` | `AttemptsCounted`, `WithinAttempt`, `SuccessIsMine` and `FallbackInv`; `Marked`; `WaitInv` |
| `GoalLedgerProofs` | `PackJustified`, `FinalHasPack`, `EvidenceKept`, `RegisterSpec` | `PackInv`, `FinalInv`, `EvidenceInv`, over `ShownWasRecorded` and what an upsert keeps of the lines |
| `ReleaseCheckProofs` | `ReleaseIsOfHead`, `SignedIsVerified`, `DebtFreeRelease` | `HeadInv`, `SignedInv`; `ScanInv`, `ReportInv` and `FinalDebtInv` |
| `ClientProofs` | `ClosedOnce`, `HealthWasTrue` | `LifecycleInv`, `HealthInv` |
| `ValidationProofs` | `ReadAsWritten`, `PassedIsSafe` | of the file, that it is lines; of the parser after `i` lines, `Stands(i)` and `Reading(i)` |

Each but the last also proves its component's `TypeOK`. Everywhere the proof
that a step keeps an invariant has a case per action, and the temporal theorems
follow by PTL.

**Breaker.** Relative to `TypeCorrect`, `Safe` is inductive, the conjunction
of `ClosedBelowThreshold`, `FailuresBounded`, `HalfOpenCooledDown` and
`OneProbePerPeriod`. The parts need each other: that admitting a probe leaves
one in its period needs that an Open breaker has none left, which is part of
`OneProbePerPeriod`, and `FailuresBounded` needs `ClosedBelowThreshold` at the
moment a call is admitted, and that the number of closed calls falls by one
whenever a failure is added. All but `OneProbePerPeriod` are steps of this
argument and theorems (`ClosedIsBelowThreshold`, `CounterIsBounded`,
`HalfOpenHasWaited`) that no run repeats; what callers see of the first is
part of `OpensForCause`.

**Bulkhead.** A send and a receive each have three forms: hand over to the
one at the head of the other queue, use the buffer, block at the end of one's
own queue. Lemmas about sequences without repetitions (`Joined`, `Served`,
`Removed`, `GivenUp`) say what each does to a queue; a lemma per form and
operation then gives `BulkheadInv'` and the step of `ConcurrencyLimit`
together (`BulkheadStep`). That a hand-over is invisible to the limit is the
point: the buffer stays full and the holders change. For
`FirstComeFirstServed` the same forms are shown to keep the order of two who
wait.

**Token bucket.** `Refilled` is the state of the ideal bucket. Asking, waiting
and a tick change it as they change the ideal one, and a refill does not
change it; the window's bound moves with it.

**Nestings.** A step of either nesting is a step of the bulkhead or leaves it
alone (`StepOfBulkhead`), so `NestedUsesBulkhead`: every behaviour of a nesting
is one of `Bulkhead`, and slots, wake-ups, order and limit are kept in it
(`NestedKeepsBulkhead`). It is a step of `timeout.Do` too, or leaves that
alone (`StepOfTimeout`), so what a result is follows for both. With the timeout
outside, a function runs inside the bulkhead, also after its caller has gone
(`HoldInv`), and who is inside is counted by `SlotsAccounted`, with no stray
`Release` in the way (`Paired`).

**Resilient call.** Every step is one of retry's, or none, and one of the
breaker's, or none (`Parts`), which gives types and attempts; `WithinAttempt`
ties where the operation is to both. `BackoffIsGeometric` needs that a number
up to `Exact` is not rounded, nor its double (`SmallIsExact`), so a small
product is computed as it is written (`SmallProduct`); that while the closed
form is small, every earlier one was (`Smaller`), so no wait on the way was the
machine's; that a wait under the cap has a small product (`UnderTheCap`); and
that capping, multiplying and capping again is capping once (`OneTurn`).

**Ledger.** `Upserted` is a recursive function over the lines; `KeptLines`
says what comes of them, by induction. Packs are justified because whatever
the ledger shows complete, and whatever a process is about to write, has been
recorded, apart from that process's own entry. `EvidenceKept` rests on there
being one writer while `overlap` is false: what was read is still what the
file holds. The register's step is the opening of the file: `EvidenceInv` says
what is to be written there, `UpsertedLines` how it differs from what was
there, and `PackInv` that the prerequisites of a final entry were recorded; so
they are in the file, unless a stop has emptied it.

**Release.** `SignedInv` counts the other run's writes: before the first, the
file is the hashed manifest or half of another; after it, what the last
verification reads is the hashed manifest or needs a second write before the
checksum can match. `HeadInv` follows the facts gathered since the last
verification began. For `DebtFreeRelease`, lemmas about `DebtCheck` show that
debt is found by some section (`Sections`, `DebtIsFound`), counted in the
report (`Counted`) and that a report that passes with the default minimum
counts no P0 and at most two P1 (`CleanReport`, `PassedReport`); the invariants
carry the report from the scan to the manifest.

**Client.** The counter of closed clients and the goroutines on their way to
it together are the counter of created ones once the client is closed, and
none before. A check goes by its copy, the time left and, until it has looked
at it, the context's state (`Basis`). What these say was true when the copy was
made or is worse than that, for with time it only gets worse
(`StatusGetsWorse`); when the client itself is unhealthy by then, that was seen
too.

**Validation.** `Stands(i)` says where the parser is after `i` lines: the next
line is in `Block` exactly if the parser is inside and the line is indented
(`InsideIsBlock`). `Reading(i)` says that its entries are those written so
far, each at its `Position`, and that a field has the last value written so
far (`Latest`). That a field line belongs to the entry the parser holds is
`FieldOfLastEntry`: of the entries up to a line, the last has its `Position`
and no other has. `PassedIsSafe` follows for any list of entries from the
gates' rules and from `Position` telling entries apart (`NameWrittenOnce`).

Induction over the naturals, where a function over lines or attempts needs
it, is over a set of numbers in place of a formula: a set with 0 and every
successor is `Nat`, from the least element that well-foundedness gives
(`LeastNumber`, `Induction`). A theorem about an instantiated module cannot be
cited, so `ResilientCallProofs` proves of the breaker and retry what it needs
of them again; `NestedStrategies` extends `Bulkhead` instead.

What proving found, and TLC's instances had not: the manifest that is verified
between two writes by others (`rewrites`); that the debt gate's promise needs
that only Go files carry parse and import marks; that the closed form of the
waits must be small below as well as above; and that a success, a
failure and another caller's return had to be told apart as alternatives in
`Return`. The other way round, `Plain` need not ask that a file has one block
only: the first one is read as it is written, whatever follows it.

### Assumptions

| assumption | says | because |
|---|---|---|
| `BreakerAssumption` | callers finite, threshold an integer, cooldown a natural number | `circuit.New` takes any `int`, and a Duration |
| `BulkheadAssumption` | goroutines finite; size and stray releases natural numbers | `make(chan, n)` panics below 0 |
| `BucketAssumption` | size, rate and requests natural numbers, a millisecond at least one tick | tokens are counted in units small enough for the rate to be whole; negative ones are not modelled |
| `ClientAssumption` | goroutines finite, timeouts integers, bounds natural numbers | |
| `ResilientAssumption` | the above for the breaker; policies are `Policy`, `Me` is no other caller; `Exact` is at most the longest Duration, and the `Units` are positive, 1 and 2 among them | 2^53 is below 2^63; a float64 has all integers up to 2^53 and the even ones up to 2^54 |
| `LedgerAssumption` | the final command has no place among the prerequisites; a torn line is no entry; the ledgers found at first hold each goal and command once, and no final command | earlier runs of `WriteEvidence` made them, before any pack |
| `ValidationAssumption` | files are sequences of lines with an indentation, a key and a value | `strings.Split`, and what both parsers take from a line |
| `EmptyString` | `""` is a string and is neither `"true"` nor `"false"` | TLA+ says so; the provers take `""` for a constant of which they know nothing |
| `ReleaseAssumption` | a tree's quality is a score of 0 to 10, its debt is an `IsRepository` | `Compute`; what `Run` makes of a walk |

### Only model-checked

Liveness (`Recovers`, `AcquireEnds`, `CallerReturns`, `AllComesBack`,
`SlotsComeBack`, `CallEnds`): ENABLED and fairness are out of the prover's
reach. Every other property of a passing run is a theorem.

## 5. Not modelled

In the release run: the manifest's Docker, workflow, tool and governance
blocks, which are compared like the blocks modelled or, for Docker, checked
for their form only (no script sets the real image digests that `docker.go:17`
announces, and the placeholder passes); `-expect-version`, files git does not
track, the debt report's own checksum, and Markdown output. Float rounding in
the bucket (that of `retry.Do` is modelled), and multipliers that are not
halves. Panics in a timeout worker, which end the process, and in a resilient call
(`CircuitBreaker` has them). Two goroutines in the guard's map at once, a data
race for which the guard offers nothing. The Go memory model below the mutex
and the channel, which the code uses correctly there. Quotes and comments in
policy files, wording, logging and metadata. The classifier and the strategy
config are mappings and options without state; `NoopStrategy`, the sanitizer
and the test kit answer constants; the scripts call tools.

## 6. Plan

Done: the strategies with state, their nestings, the resilient call with
guard and fallback, the client, the validation gates, the evidence ledger, the
release check with the debt gate; and the proofs of all their safety
properties, of the refinements, and that the nestings use the bulkhead as it
allows. What is left:

1. What a section's scanner of `debtcheck` makes of a file, below the facts
   `Scanned` takes as given.
2. The manifest's Docker, workflow and tool blocks in `ReleaseCheck`.
3. A property of the waits `Reserve` hands out: `TokenBucket` rounds them to
   whole milliseconds and overflows at rate 0 as the code does, and nothing is
   said of it yet.

The abstract specifications are `BreakerGate`, `ConcurrencyLimit`,
`IdealBucket` and `EvidenceRegister`.
