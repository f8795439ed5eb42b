# Verification of jev-sdk-go

TLA+ models of the Go client for the TypeSafe AI System One API, the TLC
configurations that check them, and TLAPS proofs about them. Paths are relative
to the repository (`src/`). `PROJECT.json` maps every definition to the lines it
translates.

## 1. Inventory

The program is a client library: one package, `jev`, over one internal package,
`transport`. A call runs in its caller's goroutine; the library starts none.

| Part | State | Operations | Interacts with |
|---|---|---|---|
| Retry policy, `retry.go` | none (a value) | `validate`, `retryable`, `backoff`, `delay`, `parseRetryAfter` | called by the transport through two hooks |
| Transport, `internal/transport/transport.go` | per call: attempt, response, error, delay, start | `Send`, `attempt`, `Sleep` | `http.Client`, the caller's context, the clock, the policy's hooks |
| Client, `client.go` | configuration and two header maps, shared by all calls | `New`, `do`, `policy`, `apiError`, headers, connection pool | transport, options |
| Options, `options.go` | a `clientConfig` while `New` runs, a `callConfig` per call | the `With...` functions | client |
| Questions, `question.go` | the caller's map of questions | `validateQuestions`, each form's `validate` and encoding | System One |
| System One, `systemone.go`, `response.go`, `answer.go` | none between calls; the request's map is shared with its caller | `SystemOne`, `SystemOneAs`, `decodeSystemOne`, `answerWire.decode` | questions, client |
| Typed keys, `typed.go` | the request's map; keys in the caller's hands | `Ask`, `Key.Answer` | questions, decoded responses |
| Model listing, `models.go` | none | `ListModels`, `decodeListModels` | client |
| Errors, `errors.go` | none | `extractMessage`, `truncate`, `APIError.Is` | client |
| Logging, `internal/transport/log.go` | none | redaction of headers | transport |
| Fake API, `internal/fakeapi` | request log, queue of failures, under a mutex | `handle`, one goroutine per request | tests and examples |
| Examples | `batch`: results, slots of a semaphore, one goroutine per message; the others none | `run` | client |

What is hard here, and what makes each part correct:

* **A call** interleaves with the network (answers, fails, or is silent at any
  point), with its caller (whose context may end at any instant) and with the
  clock (read four times between an answer and the sleep that follows it). It is
  correct when it sends no more than it may, never sooner than the server asked
  nor later than its budget allows, gives up only for a reason, returns although
  nobody answers, and never reports part of a body as a result.
* **Durations** are 64-bit integers that are doubled, added, multiplied as
  floats and converted back, at values a server chooses.
* **Maps** are visited in no fixed order, in seven loops that report one failure
  and convert the rest: neither may depend on the order.
* **Decoding** relies on `encoding/json`, which reports one error, zero-fills, matches
  keys whatever their case, and stores a zero for a null among a map's numbers. A response is correct to deliver when no
  zero in it stands for something the server did not send.
* **Keys and the question map** outlive a call, and the response is checked
  against the map as it is after the exchange.
* **Several calls at once** share a client, the slots of a batch and one server,
  which may handle the request of an attempt that was given up, at any later
  time. A batch is correct when every message gets the result of its own call,
  a message is executed again only if an answer was lost, and it always ends.

## 2. Plan

The modules were written in this order: the call (`RetryPolicy`, `Send`, `Call`), the map
loop (`LowestFailure`), System One from questions to keys (`Questions`, `Answers`,
`SystemOne`), the client its calls share (`Client`), several calls against one server
(`FakeAPI`, `Batch`), and the pure functions (`Errors`, `Models`, `Moderation`, with the
backoff in `MCFunctions`). Proofs about a module are in the module named for it:

| proofs | of |
|---|---|
| `RetryProof` | `RetryPolicy` |
| `SendProof`, `LoopProof` | `Send` |
| `ClientProof` | `Client` |
| `LowestFailure` itself | the loop over a map |
| `SystemOneProof` | `SystemOne`, `Answers`, `Questions` |
| `BatchProof` | `Batch`, `FakeAPI` |
| `FunctionsProof` | `MCFunctions`: the backoff, `Errors`, `Models`, `Moderation` |

Every invariant of a passing run, and the two refinements, are stated by a theorem; of
the properties of the passing runs only the liveness ones are not. Left to do: that
`Decoded` of `SystemOne`, which judges a map at once, reports what the loop of
`LowestFailure` reports. The theorems on either side are there; the step between them
is an argument in words.

## 3. Modules

### The call

`RetryPolicy` has no state: it is `retry.go` as operators. `Requested` is
`parseRetryAfter`, `RetryableStatus` and `RetryableTransport` are the two halves
of `retryable`, `Backoff` is the set of delays `backoff` can return over all
jitter draws, `Delays` is `delay`. Durations are integers and `MaxInt` is the
largest: `Wrap` is the machine's addition, `Saturated` is `time.Time.Sub`,
`FloatToInt` is `time.Duration(x)` with its implementation-defined edge
(`Converted`: the smallest value on amd64, the largest on arm64). A header is a
number already in nanoseconds, a date, other text, or absent; a negative number
stands for every negative value and text for everything neither a number nor a
date.

Jitter is `float64(delay) * BackoffJitter * rand`, truncated. `Round` is what a
`float64` makes of a whole number, with `FloatBits` bits of significand (53 in the code)
and halves to even; `Product` rounds the delay and each product, `Taken` truncates, and
`Jittered` is what is left over all draws. A draw and `BackoffJitter` are multiples of
`1/FloatScale`: for `rand.Float64` that is what it returns, for `BackoffJitter`, any
float from 0 to 1, an abstraction.

`Send` is one call, from `Client.do` through `transport.Client.Send`. `pc` is
where its goroutine is:

| `pc` | code | actions that leave it |
|---|---|---|
| `idle` | before `do` | `Begin` |
| `dialing` | `attempt` up to the request being written | `Transmit`, `AttemptFails` |
| `waiting` | `http.Client.Do` | `HeadArrives`, `AttemptFails` |
| `reading` | `io.ReadAll` | `BodyArrives`, `AttemptFails` |
| `returned` | back in `Send`'s loop: lines 121 to 124 | `GiveUp`, `Stop`, `DecideRetry` |
| `delaying` | `policy.Delay` | `ChooseDelay` |
| `checking` | the budget check, line 129 | `StopForBudget`, `PassBudget` |
| `parking` | from there to the timer of `Sleep`, line 93 | `StartSleep` |
| `sleeping` | the rest of `Sleep` | `Wake`, `Interrupted` |
| `returning` | `do` after `Send` | `Conclude` |

The steps between an answer and a sleep are separate because the code reads the
clock in each of them, and because a goroutine can be held between the budget check
and the timer, which then runs out later than what was checked. `Preemptible` says
whether time may pass there; timers are exact otherwise. `resp = NoReply` is the code's `err != nil`. `AttemptFails` covers
every failure of an attempt at once (network, attempt deadline, context): `Send`
treats them alike. `Cancel` is the caller's context ending, by cancellation or by
its own deadline. The history variables `wire`, `answered`, `seenAt` and
`lateStarts` are read by properties only; `answered` has the responses that were read
in full, by the retry ordinal of their request.

`Call` is what a call promises whatever its timing: it opens with an allowance,
sends requests with growing ordinals within it, and closes once, with a result
other than a transport failure only if something was answered, which a response is
when `attempt` has it whole. `Send` implements
it under the mapping at the end of `Send.tla`.

`MCSend` holds the instances. `MCFunctions` steps a policy through attempts and
compares the loop in `backoff` with `2^n`.

### Maps

`LowestFailure` is the loop written in `validateQuestions`, `firstUntyped`,
`decodeAnswers`, `checkAnswered`, `levelKeys`, `ChoiceOf.decodeAnswer` and
`rekeyLevels`: it visits the keys in any order and keeps the lowest that failed.
`skips` tells the two shapes apart: those that pass over a key above the lowest
failure, and those that judge every key. `target` lets keys collide after
conversion, as `"1"` and `"01"` do.

### System One

`Questions` has the question forms and their checks, with values abstracted to
what the checks tell apart. `Answers` has one answer on the wire (`IsWire`): each field is
absent, good, of the wrong type, of the wrong type under a key of another case, or,
for `probabilities`, a map with a null in it (`nulled`: decoded without an error, and
so never blamed), and `first` is the wrong field `encoding/json` reports. `FieldError`,
`Recheck`, `Missing` and `Broken` are `fieldError`, `recheck`, and `decode`.
`Disagreement` is the typed `decodeAnswer`, `Level` is `clampLevel` on scores counted
in halves.

`SystemOne` is a program with one request: it registers questions with `Ask` or
writes the map (`Assign`), calls (`Submit`, then `ExchangeFails` or `Receive`), and
holds keys. Since the map is shared, both may happen during a call. `Extra` may put
other questions into the body (`Extras`): then `sent` is not the map the response
is checked against. `Decoded` is
`decodeSystemOne` with its precedence; the loops in it are set operations here,
which `LowestFailure` justifies.

### The client

`Client` is `New` and the header maps its calls share. `Apply` is one option,
`New` the checks and the two maps built from `headerFor`. `Call`, `Attempt`, `Retry`
and `Return` are one call each of several callers, as far as headers go (`Send` is
the rest): a call that brings none refers to a shared map, `attempt` clones before
it writes the retry count. A setting is reduced to blank, refused, or one of a
few good values.

### Several calls

`FakeAPI` is the server of `internal/fakeapi` behind a network. A handler reads its
request and takes the mutex and logs it (`Lock`), takes an injected failure and
gives the mutex up (`Take`), and answers (`Respond`); handlers interleave. A request
that was sent stays in `sent` until a handler takes it, which may be never, or long
after its sender gave up.

`Batch` is `run` of `examples/batch` on top of it: `Acquire` and `Release` are the two
channel operations, `Finish` stores a result, `Report` is what follows `wg.Wait`. In
between, a goroutine makes one call, in the steps of `Send` without the clock
(`Transmit`, `Receive`, `AttemptFails`, `Retry`, `Interrupted`, `Stop`): which retry the
budget or the server's wish forbids, and when a timeout strikes, is left open. A
result's `id` stands for the response it was made from. `OneCall(m)` is `Call` with a
mapping per message, so a message's call is one of `Call`'s, as `Send` is.

### Functions

`Errors` finds the explanation in an error body: a body is a record of what its
places hold, a text is its identity and whether it is empty; a blank body is trimmed to
nothing (`Trimmed`). `Truncate` works on
bytes told apart by whether they begin a rune. `Models` is the listing; the first
field of the wrong type is taken in the order of the struct. `Moderation` is the
verdict of `examples/moderation`. They have no state: `MCFunctions` makes every
bounded input an initial state.

## 4. Runs

Deadlock is not checked in any run: a call, a loop and a program of the model
really end.

| run | properties | bounds |
|---|---|---|
| `headers` | `RetryAfterHonored`, `ParkedUpToCap`, `EarlyStopHasReason`, `OneLateStart` | four policies, one of them invalid and one with a predicate but no statuses; every fallthrough of the two headers; `Preemptible`, clock to 8 |
| `call` | `TypeOK`, `WholeBody`, `WithinBudget`, `NoSleepPastBudget`, `OrdinalsOnWire`, `ImplementsCall`, `Returns`, `SuccessKept` | four policies with and without budget, cap and predicate, timeouts 0 and 3, exact timers, clock to 16, beyond budget plus timeout; no cap, a cap of 1 and one of `MaxInt`, bodies of one and two bytes |
| `functions` | `FullIsDoubled`, `JitterLeavesDelay`, `Explained`, `FailuresListed`, `CutAtRune`, `ListingJudged`, `GravestActionWins` | every policy up to `MaxInt` 31 with floats of three bits, seven attempts: the doubling overflows after five, and delays above 8 are rounded; eight contents for each of three places of an error body, lists of three entries; five runes around a limit of six bytes; two models; probabilities around every threshold |
| `lowest` | `LowestReported`, `NothingLost` | four keys, four targets, every set of bad keys, every order |
| `decode` | `TypeOK`, `AnsweredInFull`, `HonestAnswerDelivered`, `FreshKeysRead`, `FaultNamed`, `LevelOffered` | one name, seven questions, two calls with edits between and during them, other questions in `Extra`, every answer with at most two flaws: masking needs two |
| `client` | `SettingsLayered`, `OwnHeaders` | two options out of ten that contend, four environments, two callers of two attempts, call headers that name a protected one |
| `batch` | `TypeOK`, `FirstFail`, `OwnResult`, `HeardOnce`, `ExecutionsBounded`, `FailedAsInjected`, `Finishes`, `EachIsACall` | two messages, one or two slots, one retry, failures that are retried, that are not, and both; the policy names 200 a status to retry, which `client.go:440` ignores |
| `overflow` | `NoSleepPastBudget`, violated | no cap on the wish, a date near `MaxInt` |
| `edge` | `LongWishReturned`, violated | a wish of `MaxInt + 1`, conversion as on amd64 |
| `dropped` | `TransportMeansNoResponse`, violated | as `call`, no cap |
| `folded` | `AnsweredInFull`, violated | two names, an answer with a wrong field in another case |
| `nulled` | `AnsweredInFull`, violated | two names, an answer with a null among its probabilities |

`MaxClock`, `MaxCalls`, `MaxAttempt`, `MaxRunes`, `MaxOptions` and `MaxAttempts` are the
only bounds on behaviour. Two retries suffice to tell a first attempt, a middle one
and a last one apart; in `batch` one retry suffices for an abandoned request to be
handled before, between or after those of the other message. One name suffices in
`decode` since names are judged one by one, except for which of them is reported:
that is `lowest`; the violated runs have two.

What the violated runs show:

* `overflow`: `transport.go:129` adds elapsed time and delay in 64 bits. With
  `MaxRetryAfter` zero and an HTTP date centuries away, the sum is negative and
  the delay is slept in spite of the budget.
* `edge`: `retry.go:216` compares floats, so exactly `2^63` nanoseconds passes. On
  amd64 it converts to the smallest duration, which is under every cap and is not
  waited for.
* `dropped`: the last attempt is answered and read, its status is one to retry, and the
  caller gives up during the backoff (`transport.go:138`): `Send` returns no response
  and `do` a `*TransportError`. Its doc says it is a request that never produced an
  HTTP response.
* `folded`: `answer.go:286` looks a field up by its exact key. `{"type": "noul",
  "score": "x", "NOUL": "y"}` is delivered as the answer `0`, a confident no.
* `nulled`: `{"type": "choice", "choice": "a", "confidence": 1, "probabilities":
  {"a": null}}` is delivered with the probability `0`: `encoding/json` reports no error
  for the null, and `decode` looks only at whether the map is there.

Seen while modelling, without a run of its own: `Budget` is checked only before a
delay, so a call may outlast it by one attempt (`WithinBudget` states what holds;
`retry.go:59` says more). `MaxRetries + 1` wraps at the largest int
(`client.go:433`). A key whose question was replaced can read an answer of another
kind, where `typed.go:65` says only disagreements surface (`FreshKeysRead` leaves it
out). A top-level field of the wrong type is reported before a malformed answer, where
`response.go:95` has it the other way (`FaultNamed` does not say which fault is named).
With no cap, a wait that would saturate is bounded by the budget only as far as
`overflow` allows. A score answer that reports neither a legend nor a probability is
delivered, and `Level` then returns any level (`LevelOffered` leaves it out):
`answer.go:96` says it is always one the question offered, and `examples/triage` indexes
an array with it. Keys such as `"1"` and `"01"` convert to one level, and which value is
kept depends on the order of the map (`answer.go:327`); the code says of neither that it
is the right one. An error body `{"error": "", "message": "m"}` is quoted whole instead
of `m`, a blank one is quoted as nothing, and a `message` that is an object is not looked
into, where `errors.go:224` says each place may carry a nested message (`Explained`
leaves it out). A body that is cut inside a long run of continuation bytes keeps nothing
but the ellipsis; valid UTF-8 loses less than a rune.

## 5. Fairness

`call` and `batch` assume some. In `call`, the goroutine's own steps between attempts
(`Own`) are weakly fair together, since Go schedules a runnable goroutine; `Wake` and
`Interrupted` are among them, since a timer fires and a closed channel is received
from. Time is weakly fair too. The network has no fairness: a silent one is what
`Returns` is about. `AttemptEnds`, an attempt
failing once its deadline passed or its context ended, is what `net/http`
promises. `Returns` asks for a timeout or a cancelled caller; with neither, a call
may wait for ever, and does in the code. Sleeps end because waits are finite and
the clock bound lies beyond them.

In `batch` the steps of a goroutine are weakly fair, and so is the deadline of the
batch, a timer. An attempt ends once that deadline passed (`AttemptEnds`), as
`net/http` promises of a request with a context. A goroutine waiting for a slot is
weakly fair although others compete for it: no slot is taken twice by one
goroutine, so one becomes free for good. Nothing is asked of the server.

## 6. Proofs

For every value of the constants:

* `SendProof`: `TypeCorrect` by the invariant `Typed`, one lemma per action.
  `OrdinalsAlways` needs `Numbering`: every ordinal sent is below `attempt`, or
  below `attempt - 1` while the next request is being dialled, and a new attempt
  begins only under `Limit`. `OrdinalsOnWire` alone is not inductive: it does not
  say what the next ordinal will be. `Implementation` is the step simulation of
  `Call`: each action maps to an action of `Call` or a stutter, using that
  answers never outnumber requests.
* `RetryProof`: lemmas about `RetryPolicy`. Of floats it proves what the backoff needs:
  a number of at most `FloatBits` bits is exact, and rounding never takes the product of
  a delay and a draw below one up to the delay, so something is left after truncation.
* `LoopProof`: `SleepsWithinBudget` and `CallWithinBudget`, of calls that are not
  preempted, under
  `BoundedWaits`: the backoff's cap and the cap on the server's wish, which must be
  set, leave room for the clock below the width of a duration, and `2^63` saturates
  when converted. Both halves are needed, as the runs `overflow` and `edge` show.
  The invariants are `Pace` (a wish within the cap when the retry was decided on is
  within it when the delay is chosen, so the budget check does not wrap) and
  `Meter` (what a call can have used by the time it is where it is, given exact
  timers).
* `LowestFailure`: `ReportIsLowest` and `ConversionKeepsAll`, for every map,
  integer keys and any visiting order. The invariant says of the keys visited so
  far what the property says of all of them.
* `LoopProof` also has the other invariants of `Send`. `RetryAfterHonored` rests on `Promise`:
  the instant the server named is reached by the delay from the clock when it is chosen,
  then by what the timer is set to, then by the clock itself when the next attempt
  begins; the clock only grows, so time that passes between two reads of it shortens a
  wait and never the promise. `ParkedUpToCap` rests on `CappedWish`, `OneLateStart` on
  `LateStart` (an attempt begun after the caller gave up sends nothing), `WholeBody` on
  `BodyRead`, `EarlyStopHasReason` on `StopExplained`, and those that speak of responses
  on `Genuine`: what the loop holds came from the network. Three hypotheses, each where
  64 bits matter: `ShortWishes` (a number or date is at most `MaxInt`, 292 years; the
  code takes a longer number for an unusable one, and `edge` shows its first case),
  `BodiesFit`, and `LimitsFit`, since `MaxRetries + 1` wraps at `client.go:433`.
* `ClientProof`: `LayersSettings` by `Layered`, which says of the options applied so far what
  the property says of all; `CarriesOwnHeaders` by `Separate`: the two shared maps stay
  what `New` made them, so a call that refers to one has what it would have built for
  itself (`OwnMap`), for any number of callers and attempts.
* `SystemOneProof`: the six properties of `decode`. The invariant `Decided` says that the
  report of a call that returned is what `Decoded` makes of the body and the questions
  as they still are, or that there is no body and the report says why. What `decode`
  makes of one answer is settled first, by lemmas over fields; the name reported is the
  least one, which exists because names are numbered (`LowestIs`). `TwoLeaks` says what a
  delivered answer is, whatever the server sends: in kind, and every field its kind uses
  good, but for a null among probabilities and for a folded key that an unused field
  masked. `AnswersInFull` has the hypothesis `PlainWires`, which rules these two out; the
  runs `folded` and `nulled` show that each half of it is needed. The others do without. `OffersAnyLevel` says of
  every score what `LevelOffered` says of a few.
* `BatchProof`: seven properties of `Batch` over `FakeAPI`, for any number of messages,
  slots and retries, any plan of failures and any statuses to retry. The server's invariant `Inv` says
  that a request is sent once and logged once (`Issued`), that whoever holds the
  mutex has the last place in the log (`Exclusive`), that the queue holds what the
  log has not used up (`Queue`), and so that an answer has the status its place is
  due (`Served`); `FirstFail` speaks of answers only and says nothing of a handler
  about to write one. On it rest three facts per goroutine: what it holds
  (`Holds`, for `OwnResult` and `HeardOnce`), what it sent (`Numbered`, for
  `EachIsACall`), and where its answers come from (`Sourced`). `ExecutionsBounded`
  follows by an injection from the executions of a message to its attempts: an
  execution that was answered was a success, and a success is the last attempt.
  `FailedAsInjected` needs every step from a logged request to a failed message
  (`Followed`), the count `Report` makes (`Counted`), and a bijection: when every attempt
  was answered and no injected failure is retried, the log has one request of each
  message, and the failures are its first places.
* `FunctionsProof`: the properties of `functions`, and behind them theorems without the
  run's bounds: `BackoffDoubles` for any attempt, `ListsAnyFailures` and `JudgesAnyListing` for a
  list of any length, `CutsBetweenRunes` for any UTF-8 text and limit. The backoff's
  loop, `FlattenSeq` and the fold over policies are recursive functions, of which a
  prover knows only `CHOOSE`: that such a function exists is proved first
  (`LoopExists`, `JoinedExists`, `FoldIsGravest`). The library states induction with an
  operator as parameter; here it is the existence of a least counterexample
  (`LeastExists`, from `NatLessThanWellFounded`). `FullAlwaysDoubled` has as hypothesis
  `PowersDouble` (`2^0 = 1`, `2^(n+1) = 2 * 2^n`), as the provers do not know `^`;
  `BackoffDoubles` says the same attempt by attempt without it. `JitterNeverStarves` follows
  from the float lemmas of `RetryProof` for any precision; that jitter takes no more than
  its fraction is claimed of delays a float holds exactly, since above that the rounding
  of the delay itself can exceed it. The inputs of
  `Explained`, `FailuresListed`, `ListingJudged` and `GravestActionWins` are those of the run.

Constants are assumed to be as declared (`RetryAssumption`, `SendAssumption`,
`KeysAssumption`, `SystemOneAssumption`, `ClientAssumption`, `FakeAPIAssumption`,
`BatchAssumption`, `BoundsAssumption`); TLC evaluates these in the runs. `ClientAssumption` includes that only a setting the
environment can give can be blank: the others are not text.

Only model-checked: liveness (`Returns`, `SuccessKept`, `Finishes`), which is out of the
prover's reach, and the runs that end in a violation.

## 7. Not modelled

* The connection pool belongs to `net/http`: the code sets one number. Redirects,
  which the client's own `http.Client` refuses.
* The categories of `APIError.Is`, the rendering of errors and the classification
  of the resilience example: tables without state.
* The answers the fake server makes up, its refusal of a missing key, of an unknown
  path or of a request without questions: no modelled client provokes them.
* The examples other than `batch` and `moderation`: sequential programs that print
  what a call returned.
* Encoding to JSON, URLs, wording of errors, logging and redaction: no state of a
  call depends on them.
* `SystemOneAs`: documented to check nothing.
* `SystemOneRequest.Extra` beyond `questions`: other fields of the body change
  nothing the client does.
* A caller that writes the slice `RetryStatuses` it passed to `WithRetry`: a data race
  whose outcome the code does not define.
* Criteria maps of a question are values in the model; in the code they are
  shared with the caller as the question map is.
* The timing of several calls at once: `Batch` has no clock, and a call shares nothing
  mutable with another but the header maps, which `Client` covers.
