# Lumberjack in TLA+

Lumberjack writes audit logs. An application calls a client library (Go or
Java) explicitly or has its gRPC calls audited by an interceptor; the client
validates, filters and completes each log request and hands it to one or two
backends: Cloud Logging directly, or the *ingestion server* (the "audit log
agent"), a gRPC service that is itself built around a client with a Cloud
Logging backend. `lumberctl` lists, follows and validates what was logged.

The promise all of this is about is the one of `LogMode`
(`protos/v1alpha1/audit_log_request.proto`): in fail-close mode a request is
persisted before its call returns, or the call returns an error; in best-effort
mode the call never returns an error. The modules below state that promise, show
that the Go client, its backends and the agent keep it together and that the Java
client does, and then take it as given where the interceptors call the client. The other end of the chain is how an
application gets a client or an interceptor: from a config file whose defaults,
validation and construction are modelled up to the answer of an audited call.

## Inventory

| Component | State | Operations | Interacts with | What is hard | What makes it correct |
|---|---|---|---|---|---|
| Go client `audit/client.go` | lists of processors, log mode | `Log`, `Stop` | processors, backends; called by any number of goroutines | errors swallowed or returned by mode; `Stop` during `Log` | the promise of `LogMode`; an error ends the request |
| Processors `audit/{validation,runtime,labels}.go`, `filtering`, `justification` | configuration | `Process` | the request of their caller | nil payloads and maps, order, which error ends what | only vetted entries reach a backend |
| Configuration `apis/v1alpha1/config.go`, `auditopt` | options collected so far | defaults, validation, construction | files, environment, backends | every step can fail after others have connected; one log mode, read in four places | a client is what its file says, or is not made |
| Cloud Logging processor `pkg/cloudlogging/processor.go` | one logger per log type, buffers of the library | `Process`, `Stop` | Cloud Logging library | background failures, full buffers, `Stop` under load, kill | `Stop` reports every loss, and ends |
| Remote processor `pkg/remote` | a gRPC connection | `Process`, `Stop` | agent | deadlines, lost answers, closed connection | no nil for what is not stored |
| Ingestion server `pkg/server`, `cmd/server` | a client | `ProcessLog`, shutdown | remote processors, Cloud Logging | kill between storing and answering, order of shutdown | what was acknowledged survives shutdown |
| Stream interceptor `audit/interceptor.go` | last request, baseline log request | `RecvMsg`, `SendMsg` | handler's goroutines, client | swap and pop of the last request, a baseline cloned before blocking | each request and response once; log before send |
| Unary interceptor `audit/interceptor.go` | one log request | the call | handler, client | failures before and after the handler, three log modes | the handler decides the answer |
| Rules `audit/rules.go` | – | `mostRelevantRule` | interceptors | lengths, ties, slashes, the early end of the loop | the most relevant rule is applied |
| Security context `pkg/security` | – | `RequestPrincipal` | interceptors | first header that matches decides, tokens that say nothing | a principal that the call's token claims, or none |
| Runtime detection `audit/runtime.go` | the resource found when the client is made | `newRuntimeInfo` | environment, metadata server | every read can fail; platforms that look like others | the resource of the platform, or none |
| Puller `pkg/cloudlogging/puller.go` | retry budget | `Pull`, `StreamPull` | Cloud Logging, `lumberctl tail` | retry halfway, end of a stream | no gaps, no duplicates, it stops |
| `lumberctl tail` `pkg/cli/tail.go` | – | `Run`, `list`, `stream` | puller, in a second goroutine | the goroutine's error, the interrupt | prints what was received, reports errors, ends |
| `lumberctl validate` `pkg/cli/validate.go`, `pkg/validation` | – | `Validate` | – | – | same rules as the client's validator |
| Java server interceptor `clients/java-logger` | memo of selectors, a deque of unlogged requests per call | `interceptCall`, listener callbacks, `sendMessage`, `close` | gRPC's and the application's threads, `LoggingClient` | callbacks and sends poll the same deque; a `HashMap` shared by calls; exceptions on either thread | each request once; log before send; closing closes |
| Java client `clients/java-logger` | processors, the mode of writing | `log`, `close` | as in Go, and a local log | an exception of any of three backends; background writes; `close` during `log` | the promise of `LogMode`; an exception ends the request |

Tracing, test applications, the integration runner, Terraform and images have no
state of the audit system.

## Modules

| Module | Stands for |
|---|---|
| `AuditLogService` | the abstract specification: what `LogMode` promises the caller of `Log` |
| `AuditProcessors` | the validators and mutators, as functions from a request to an error class and a request |
| `ClientConfig` | `Config.SetDefault`, `Config.Validate`, and the client a file describes |
| `RuntimeDetection` | `newRuntimeInfo`: platforms, and reads of metadata that fail |
| `ClientSetup` | `clientFromConfig` and `interceptorFromConfigFile`, step by step |
| `CloudLogging` | the Cloud Logging processor of one process, with the library's loggers |
| `AuditClient` | client, remote processor, agent and two instances of `CloudLogging` |
| `StreamInterceptor` | `StreamInterceptor` and `serverStreamWrapper` |
| `AuditRules` | `rules.go`, and the defaults and validation of a rule |
| `SecurityContext` | `findJWT` and `RequestPrincipal` |
| `UnaryInterceptor` | `UnaryInterceptor` and its helpers |
| `InterceptedService` | a service: `ClientSetup`, then calls of `UnaryInterceptor` |
| `JavaInterceptor` | the Java `AuditLoggingServerInterceptor`, its selectors and its security context |
| `JavaClient` | the Java `LoggingClient`, its processors and its configuration |
| `LogPuller`, `TailStream` | `Puller.Pull`; `Puller.StreamPull` with `TailCommand.stream` |
| `TailCommand` | `TailCommand.Run`, which composes the two |
| `CloudLoggingProofs`, `AuditClientProofs`, `JavaClientProofs`, `StreamInterceptorProofs`, `InterceptedServiceProofs`, `JavaInterceptorProofs`, `TailProofs` | theorems |
| `AuditProcessorsProofs` | lemmas on the processors, for both clients |
| `MC*` | instances for TLC |

```
AuditLogService <--- refined by --- AuditClient --- INSTANCE twice ---> CloudLogging
                <--- refined by --- JavaClient

AuditClient   EXTENDS  ClientConfig --> AuditProcessors, AuditRules
JavaClient    EXTENDS  AuditProcessors
ClientSetup   EXTENDS  ClientConfig, RuntimeDetection
UnaryInterceptor    EXTENDS  AuditRules, SecurityContext
InterceptedService  EXTENDS  UnaryInterceptor,  INSTANCE  ClientSetup
JavaInterceptor     EXTENDS  SecurityContext
TailCommand   INSTANCE  LogPuller, TailStream
AuditClientProofs   EXTENDS  AuditClient, AuditProcessorsProofs,  INSTANCE twice  CloudLoggingProofs

StreamInterceptor, UnaryInterceptor, JavaInterceptor: take the client's log at its word
```

### CloudLogging

`buffer`, `errs` and `stored` are the library's: entries handed to a logger and
not yet written, whether a background write failed since `Flush` last reported,
and what Cloud Logging has persisted. `accepted` is a history variable. `stop` is
the goroutine in `Processor.Stop`, which calls `Flush` on one logger after the
other (map iteration: in any order) and joins the errors. `Process` takes the
mode of the request, or the processor's default when there is none, and either
buffers the entry (which may drop it and record an error: a full buffer) or
writes it (which may fail, and be stored nevertheless). `Crash` models that the
process is killed: buffers are gone, stored entries are not.

### AuditClient

One call of `Log` per element of `Reqs`; `pc[r]` walks through `validators`,
`mutators`, `remote`, `calling`, `cloudlogging` to `returned` or `panicked`.
`Validators` and `Mutators` touch only the request of their caller, so each list
is one step. A remote call can be answered, fail on the client's side at any time
(deadline, cancellation, lost connection) while the agent goes on with it, or be
cut off by the agent's end. `ProcessLog` is the agent's handler: `Log` of a client
with the default validator, a Cloud Logging backend and no log mode. The agent
can be terminated (it takes no more calls, waits for its handlers, then `Stop`
flushes) or killed and started again, `MaxCrashes` times. `Client.Stop` may run at
any time. A workload is a client with the requests its callers may pass; `Spec`
starts with any of `Workloads`.

Requests keep what the processors tell apart: mode, log type, whether the
payload is there and complete, principal, justification token, labels, and the
three states of a metadata `Struct` (nil, with a nil map, with a map: the second
makes the justification processor panic). A regular expression is the set of
emails that it matches.

The refinement: a request is `durable` in `AuditLogService` when every backend of
the client has stored the very entry the call ended with; the status of a call is
what its caller knows.

### StreamInterceptor and UnaryInterceptor

In `StreamInterceptor` the two goroutines a gRPC handler may use, one in
`RecvMsg` and one in `SendMsg`, interleave at every point where the code takes or
gives up the lock, blocks, or calls the client. Requests and responses are
numbers. `baseline` is which request the handler last described in the log
request it shares with the wrapper, and `baseMode` the log mode it has set there
(`SetMode`, at any time when one of its goroutines is in neither call; none at
first). Both calls clone the baseline, and `Client.Log` goes by the mode of the
clone before it goes by its own, so that an entry has the mode of the client or one
that the handler `chose`. `sequential` tells a handler that makes one call at a
time from one that uses two goroutines.

`UnaryInterceptor` is one call, from its method name and metadata: `AuditRules`
picks the rule, `SecurityContext` the principal, and each of the steps before the
handler can refuse the call or let it go on without audit. The handler may
overwrite the mode of its log request, fill in its resource name or not, and change
the request message it was given; a message that is a protobuf `Struct` is not
copied into the log request and is changed there, too. It may also leave a metadata
`Struct` without a map, on which `Client.Log` panics (`LogPanics`) if it asks for a
justification and no runtime info was added before. `logReq` is the log request,
`entry` the copy of it that was given to `Client.Log`.

Both take `Client.Log` as `AuditLogService` promises it: stored, failed (only in
fail-close mode), or lost without an error (only in another mode).

In `AuditRules` a name is a number of leading slashes and a word; a selector is
that and whether a wildcard ends it. This is as much of a string as matching and
the comparison of lengths tell apart. `IsMostRelevant` states what the comment on
the loop promises: the method itself before a wildcard, a longer prefix before a
shorter one, in any order of the rules. The loop compares lengths of selectors and
keeps that promise where `LengthsTell`: the selectors that apply have the slashes of
the method or are "*", and no wildcard is as long as the method. Elsewhere all it
promises is a rule that applies, and the order decides. In `SecurityContext` a header value is a scheme and
a token, and a token is the email it claims or one of the ways in which it claims
none.

### ClientSetup, RuntimeDetection and InterceptedService

`ClientSetup` is what `NewClient` and `NewInterceptor` do with a file: `step` walks
through loading, the check for a security context, the filter, the two backends,
justification and the application of the collected options; every step that does
I/O can fail, and then there is no client. `newRuntimeInfo` runs when the options
are applied: `RuntimeDetection` gives each platform its environment variables and
lets any set of metadata reads fail. `AuditClient` starts with clients that
`clientFromConfig` describes; `ClientAsConfigured` shows that these are the clients
that the steps really make.

`InterceptedService` composes the two: the interceptor is made from a file or put
together in code (any options, also too few), and then takes a call.

### JavaInterceptor

Calls share `memo`; within a call the thread of gRPC's callbacks (`listener`) and
the thread of the application that sends and closes (`sender`) share
`unloggedRequests`. Each access to either is a step of its own, so that `isEmpty`
and `pollFirst` in `onMessage` can have a poll of the other thread in between.
`hand` is the request a thread has polled and not yet logged. The memo is a
`HashMap` without a lock: while another thread is in `putIfAbsent`, a lookup may
miss, `get` may give null (which fails the call), and two insertions may lose
entries. `auditLog` throws when a message cannot be converted or the justification
header is missing, and when the client throws, which it does in fail-close mode
only. An exception that leaves a callback makes gRPC close the call; one that
leaves `sendMessage` or `close` on the application's thread does not.

### JavaClient

The second implementation of `AuditLogService`, on the requests and the runtime
and label processors of `AuditProcessors`. `at[r]` is where the call of `log` is,
and then how it ended: `complete`, `dropped` by the filter, `thrown` or
`swallowed` as the catch clause decides by the mode of the request, or `aborted`
(null, which is dereferenced outside of the `try`). Three backends, in the order of
`withDefaultLogBackends`, can each throw. The remote one is the agent at the word
of `AuditLogService`, which `AuditClient` shows it to keep; its answer, with the
labels it has added, goes on to the next backend. Cloud Logging is written at once
or in the background (`buffer`), which `CloudLoggingModule` decides once for all
requests; `close` waits for the writes that are under way when it is called.

The refinement holds for every request but one kind, a fail-close request that is
given to a best-effort client with Cloud Logging: `java_client` leaves it out and
`java_log_mode` is about it.

### TailCommand

`LogPuller` is `Pull`: each attempt lists anew from the newest entry and appends
to what the attempts before it collected. `TailStream` is `StreamPull` in its
goroutine, the unbuffered channel, and the loop of `TailCommand.stream`. They
share the context and the puller's budget of retries. `TailCommand` adds `Run`
with its check of `-max-num`, the log client's creation and closing, and the
output of `list`.

## Runs

| Run | What it shows | Bounds |
|---|---|---|
| `cloud_logging` | `StopReportsLoss`: if `Stop` returned nil, nothing logged as best effort before it was called is lost. `StopTerminates` | three entries on two loggers |
| `audit_client` | `ImplementsService` (the refinement), `FailCloseDurable`, `OnlyVettedEntries`, `AgentShutdownComplete`; `LogReturns`, `StopEnds` | two concurrent calls, one of a fail-close or a best-effort request that gets to the backends and the other with any of five requests that cover every mode, three clients, one kill; single calls with eight requests, most of which a processor refuses, next to one that passes nil, on four clients from files and one put together in code |
| `stream` | `LoggedOnce`, `NoRequestForgotten`, `SentAfterStored`; `OwnContext` for sequential handlers | two requests, two responses, all directives, two pairs of modes of interceptor and client that differ, handlers that set either mode |
| `service` | `HandlerDecides`, `FailsOpen`, `AnsweredAfterStored`, `RuleIsMostRelevant`, `EntryOfItsCall` of a call; `ClientAsConfigured`, `RuntimeAttribution`, `RemoteStaysSecure` of the setup; `PanicsOnlyWithoutMap`, `FileModeHonoured` of both together | one call; 14 interceptors put together in code with every pair of modes and with parts missing; 20 files of which seven are valid; seven platforms with every set of failing reads; six method names; rules that are layered, in two orders, and that tie |
| `java_interceptor` | `RequestsConserved`, `AllButTheLast`, `SentAfterStored`, `RightSelector`; `MessageHandled`, `CloseHappens` | one call with two requests and one response, a second that shares the memo; both modes, seven inputs |
| `java_client` | `ImplementsService` (the refinement), `OnlyVettedEntries` | two concurrent calls, eight requests, four clients with one and with three backends |
| `tail_command` | `NewestWithoutGaps`, `PrintedInOrder`, `ErrorReported`, `RunEnds` | four entries, responses of up to two, two retries, five values of `-max-num` around the limits |
| `tail_duplicates`, `tail_cancel`, `java_starts`, `java_log_mode`, `default_log_mode` | disagreements, see below | |

Why the bounds are enough. Two calls of `Log` are the fewest of which one can be
under way in the agent while another is buffered, acknowledged, stopped or killed;
calls share nothing but connection, loggers and agent, and a third meets no
configuration of these that two do not. Two loggers are the fewest where an
error can be collected by the `Flush` of another logger. Two requests and two
responses are the fewest where a request that was swapped out is being logged while
the other goroutine has popped the next one, and where a response has no request
left to go with; the goroutine in `RecvMsg` takes no third request before it is done
with the first, and the theorems are for streams of any length. Two retries are the fewest where an attempt is neither
first nor last; `-max-num` is below, equal to and above the number of entries and
the limit. A unary call shares nothing with another one, so one call is enough; the
rule sets contain a shorter and a longer selector in either order, equal lengths,
and a wildcard that is longer than the method. In `java_interceptor` two requests
and one response are the fewest where the listener drains the deque while the
sender polls it; the second call is there for the memo alone: it looks up another
method and ends in `interceptCall`, and the memo may hold the first method already
(`Earlier`), so that lookups hit, miss and race. Single calls suffice for what a
processor refuses, because a refused request never meets another call. Symmetry is
used for the calls in `java_client` only, whose properties are safety properties; in
`audit_client` a pair of requests is given to the two calls in one order.

In every run deadlock checking is off because the modelled things may end: a
stream, a command and a stopped client do nothing more.

### Fairness

- `CloudLogging`: the goroutine in `Stop` is scheduled, and the library's
  background writer eventually tries every entry it holds (its bundler flushes on
  a timer). Callers, crashes and `Stop` itself are not fair.
- `AuditClient`: goroutines that can run do run, the agent's handlers included: one
  weak fairness for each goroutine of a call, handler, `Stop` and background writer.
  A call fails eventually only when nobody will answer it: it was cut off, or the
  server it waits for takes no more calls. Deadlines are not assumed, because the
  context of a call need not have one, so `LogReturns` does not rest on timeouts.
  Nobody has to call `Log` or `Stop`, or to terminate the agent.
- `JavaInterceptor`: a thread that is inside `onMessage`, `sendMessage` or `close`
  goes on. Nobody has to send a message, to answer one, to close the call or to
  return from the handler.
- `TailCommand`: both goroutines are scheduled. Nothing is assumed of the service
  or of the user.

## Proofs

TLC checks the instances above; the theorems hold for every value of the
constants. Every safety property that a passing run checks, both refinements
included, is also a theorem. Each proof names the inductive invariant that the
property needs; TLC finds these true in every state of the instances of the runs,
too.

`CloudLoggingProofs` (any set of log types and of entries; `EntryAssumption`: the
type of an entry is a log type)

- `TypeCorrect`: `Spec => []TypeOK`.
- `StopReportsLossCorrect`: `Spec => []StopReportsLoss`. The property speaks of the
  moment `Stop` has returned and is not inductive. `StopInv` says where the loss
  of an entry is on record at every moment before: an entry that was due is
  stored, or its loss is in the joined error, or in the library's errors while a
  `Flush` is still to return, or it is in the buffer of a logger that `Stop` has
  not flushed or is waiting for.
- The step lemmas are stated for any step of one processor, so that
  `AuditClientProofs` can use them for each of its two instances.

`AuditClientProofs` (any calls, requests and workloads, any number of kills;
`BackendAssumption`: a client has a backend, which `Config.Validate` demands of a
file and without which nothing can be stored)

- `TypeCorrect`, `FailCloseDurableCorrect`, `OnlyVettedEntriesCorrect`. `VettedFirst`
  says that a request that has left the mutators passed the validators and was
  completed; `StoredBehind` that a fail-close request is stored by each backend
  that its call has passed, by the agent from the moment its handler answers `ok`,
  though the answer may still be on its way when the agent is killed. `EntriesInv`
  says it of everything in a buffer or store. `AuditProcessorsProofs` holds the facts
  on processors this rests on: what a validator refuses, a later mutator does not
  bring about, and mutating twice (by the client, then by the agent) keeps what was
  vetted.
- `AgentShutdownCompleteCorrect`. `ShutdownInv`: the agent's `Stop` begins when no
  handler runs and nothing is accepted afterwards, so what `StopInv` calls due is
  all that was accepted.
- `ServiceImplemented`: `Spec => ImplementsService`. Initial states map to initial
  states, and each action to a step of `AuditLogService` or to none, from the
  invariants above and `NilPanics` (a nil request never gets past `Log`).

`JavaClientProofs` (any calls, requests and workloads)

- `OnlyVettedEntriesCorrect`, from `VettingInv`, the same idea as in Go.
- `ServiceImplemented`: the refinement of `AuditLogService`, under
  `AsStrictAsRequests`: a client has a backend, and no fail-close request goes to a
  best-effort client with Cloud Logging. Both are needed: without the first, a
  `backend` block that enables nothing, and without the second, `java_log_mode`,
  break the promise. The workloads of `java_client` satisfy it. `ServiceInv` adds to
  `VettingInv` that a fail-close request is stored by each backend behind it.

`StreamInterceptorProofs` (streams of any length, any rules and log modes;
`StreamAssumption` types the constants)

- `TypeCorrect`, `LoggedOnceCorrect`, `NoRequestForgottenCorrect`,
  `SentAfterStoredCorrect`. `LoggedOnce` needs `HeldOnce` (a request that a
  goroutine or `lastReq` holds is in no entry yet and is held in one place only)
  and `InBounds` (nothing is logged that was not received, and the response being
  sent has no entry before its own is made). `SentAfterStored` needs
  `StoredFirst`, which includes the response that is about to be written, and
  says of the baseline, and of a clone that a goroutine holds, that its mode is none or
  one that the handler has set.
- `OwnContextCorrect`, for sequential handlers. `ContextInv` follows the copy of the
  baseline from the moment it is taken: whichever request a goroutine holds, the
  copy it has is the handler's description of that request.

`InterceptedServiceProofs` (any files and interceptors put together in code, any
rules, methods, headers and platforms; `ServiceAssumption` types the constants, and
says that a valid file names only headers and schemes of the model)

- The call: `HandlerDecidesCorrect`, `FailsOpenCorrect`, `AnsweredAfterStoredCorrect`,
  `EntryOfItsCallCorrect`, from `CallInv`, whose part `OwnLogReq` says that the log
  request is the one of the call from the step that makes it to the step that logs
  it.
- The setup: `ClientAsConfiguredCorrect`, `RuntimeAttributionCorrect`,
  `RemoteStaysSecureCorrect`, from `SetupInv`: at each step the options collected so
  far (`Collected`) are those that the file asks for up to there.
- Both: `ServiceTypeCorrect`, `PanicsOnlyWithoutMapCorrect`, `FileModeHonouredCorrect`.
  `Listening` says that a call is only taken by an interceptor that was made
  completely.
- `RuleIsMostRelevantCorrect`: for every list of rules, in any order, and every
  method. `Found` is what the loop does, by lengths; `FoundIsMostRelevant` is the step
  from lengths to relevance.

`JavaInterceptorProofs` (any number of calls, selectors, requests and responses;
`JavaAssumption` types the constants)

- `RequestsConservedCorrect`, `AllButTheLastCorrect`, `TypeCorrect`. `Conserved` says
  of every request that it is in one place, or in none before it was added, and is
  preserved only together with `Deque` (the listener adds to an empty deque: it
  holds one request at most, and both ends are the same) and `HandOf` (a thread that
  is not about to log has empty hands, so a poll forgets nothing). `AllButTheLast`
  needs `Newest` besides: what waits is newer than what the sender holds, and nothing
  waits while the listener logs.
- `SentAfterStoredCorrect`, from `FiledFirst`, which includes the response between
  its log and `super.sendMessage`.
- `RightSelectorCorrect`. `MemoInv`: whatever is in the memo, and whatever a call got
  from it, is what the loop computes for that method; lost insertions and missed
  lookups only make calls compute it again. `ReturnMostRelevant` says what the loop
  computes, for every list of selectors and every method.

`TailProofs` (any number of entries, size of a response, `-max-num` and budget;
`TailAssumption`)

- `NewestWithoutGapsCorrect`. `PullInv`: an attempt has read everything up to where
  it is, and what was collected has no gap, also right after a retry.
- `PrintedInOrderCorrect`. `Printed`: entry `i` is printed at place `i`, and the rest of
  the last response continues there; `PullerInv`: the channel is closed with no
  entry left and with the error noted.
- `TypeCorrect`, `ErrorReportedCorrect`.

The two loops over rules are recursive functions. What they compute is proved by
the least counterexample: by `LeastElement` (from `WFMin` and
`NatLessThanWellFounded` of the library) a set of rounds that fail has a first one,
`RoundsExist` shows in the same way that the recursive function is defined at all,
and `RoundFinds` is one round.

Only model-checked: liveness (`StopTerminates`, `LogReturns`, `StopEnds`,
`RunEnds`, `MessageHandled`, `CloseHappens`), for which the prover has no rules of
fairness and of `ENABLED`, and the five runs below that end in a counterexample.

## Where the code and its documentation disagree

Each of the first five is a run whose counterexample shows it.

1. `tail_duplicates`: a listing that is retried halfway returns its first entries
   twice and leaves older ones out (`puller.go:92-103`).
2. `tail_cancel`: after the service has ended the stream, `StreamPull` receives
   `io.EOF` for ever and an interrupt does not end it (`puller.go:136`).
3. `java_starts`: without a principal, `AuditLoggingServerInterceptor` starts the
   handler and goes on to start it again (lines 104, 120 and 179), though line 103
   says "continuing without audit logging".
4. `java_log_mode`: a best-effort Java client writes every request to Cloud Logging
   in the background (`CloudLoggingModule.java:52`), also one whose own mode is
   fail-close, and `log` returns before it is persisted. The Go processor looks at
   the mode of each request.
5. `default_log_mode`: `docs/config.md:68` says that by default the client returns no
   error when logging fails, to avoid breaking the application. `Config.SetDefault`
   (`config.go:122`) makes the default `FAIL_CLOSE`, and a service whose file names no
   mode answers with the error.

Met while modelling, without a run of their own:

- Failing open on a stream, `handleReturnStream` (`interceptor.go:435`) calls
  `handler(ctx, ss)`; a `grpc.StreamHandler` takes the service implementation
  first, as at line 206, and the generated handlers' type assertion on it panics.
- The stream interceptor's baseline has no log mode (`interceptor.go:215`) unless the
  handler sets one, so
  `WithInterceptorLogMode(FAIL_CLOSE)` (`interceptor.go:78`: "honor the given log
  mode") does not keep unlogged responses back when the client's mode differs. The
  unary interceptor sets it. A config file gives both the same mode.
  `SentAfterStored` therefore goes by the mode that the entry has, and no property
  speaks of the interceptor's mode on a stream.
- A handler's error without a gRPC status is logged as `INTERNAL`
  (`setErrorStatus`, `interceptor.go:456`); its caller gets `UNKNOWN`.
- The comment at `rules.go:25-27` puts the method itself before a wildcard.
  `rules.go` and the Java `Selector` compare lengths with the wildcard counted: for
  the method "/s/h" the selectors "/s/h*" and "/s/*" win over "/s/h" when they come
  first, and in Go so does one with more slashes in front. `LengthsTell` names where
  the comment holds.
- `config.go:39` says that without a backend logs are written to stdout;
  `Config.Validate` refuses such a file.
- When a later step of `clientFromConfig` fails, the backends that were connected
  before stay open, and nobody has a handle on them.
- A failed read of the cluster name makes a Kubernetes node pass for a plain
  instance (`runtime.go`); `RuntimeAttribution` names it as the one exception.
- The end of a stream reaches the handler wrapped (`interceptor.go:330`): it has to
  compare with `errors.Is`.
- Java: a call without the justification header throws in `auditLog` (line 285, a
  protobuf setter with null) in either mode, so that a best-effort interceptor
  fails the call, and a `close` on the application's thread leaves it open.
- Java: the comment at lines 181-182 says that more than one request can end up in
  the queue. The code never gets there: `onMessage` empties the queue before it adds,
  and gRPC's callbacks come one after the other; `Deque` in `JavaInterceptorProofs` has
  it as a part of the inductive invariant. What the comment goes on to promise, "we
  log all but the last request, then log the last request with the response", is
  `AllButTheLast`. "thread-safe way to update memo" (line 344) is said of a
  `HashMap`.
- Java: a `backend` block in which nothing is enabled gives a client without
  backends, whose fail-close calls return though nothing is persisted; the Go
  client refuses such a file.
- Java: the validator accepts a blank principal, which the agent refuses; `log(null)`
  throws a `NullPointerException` outside of the `try`, in either mode.
- A stream whose handler returns without answering its last request leaves it out
  of the log (`interceptor.go:254-263`; `docs/grpc.md:229`).
- The comment at `interceptor.go:107` says that the unary interceptor is
  implemented in fail-close mode; it goes by its log mode.
- A client put together in code has no log mode and swallows errors;
  `docs/clients.md:101` calls it equivalent to a config file, whose default is
  fail-close.
- `Log` panics on a nil request (`client.go:143`) before the validator that has an
  error for it (`validation.go:46`) sees it.
- A metadata `Struct` without a map makes the justification processor panic
  (`justification/processor.go:91`).

## What is left out

- Data that no property looks at: payloads, converted messages, texts, filters of
  queries, log names. Conversions are steps that succeed or fail.
- Data races on the baseline log request between a handler's goroutines: the
  model gives such a read one of the values written, not a torn one.
- What else a handler may overwrite in a unary log request: its principal, payload and
  labels. `EntryOfItsCall` is about a handler that leaves these alone.
- `Processor.Process` of `pkg/cloudlogging` takes another logger for a log type that
  has none (`processor.go:119-124`); `NewProcessor` makes one for each type of the
  protocol.
- The error of `GetJustifications` (`justification/processor.go:93-96`) is one with an
  invalid token: both end the request with the same error class.
- What a Java handler sends on the bare call that lines 104 and 120 start it with:
  these starts are counted, and nothing of them is audited.
- An `AUDIT_CLIENT_LOG_MODE` that names no mode, which makes the Java `getLogMode` throw
  before there is a client.
- How ID tokens and metadata are obtained (I/O): both are outcomes.
- `jsonMapToProtoStruct`, which copies a JSON tree; a message is what `encoding/json`
  makes of it.
- The status that entries bear in `JavaInterceptor`: `close` sets it on a builder
  that the other thread may be copying.
- How a Java configuration is read and injected (YAML binding, Guice), and how the
  runtime is detected there.
- `lumberctl validate` as a command, tracing, tests, generated protobuf code,
  infrastructure.

## Plan

Done, in this order: `CloudLogging`; `AuditClient` with `AuditLogService`;
`StreamInterceptor`; `UnaryInterceptor`; `TailCommand`; the proofs above;
`AuditRules` and `SecurityContext`; `ClientSetup` with `RuntimeDetection`, and
`InterceptedService`; `JavaInterceptor`; `JavaClient`.

Then the proofs of `AuditClient` with its refinement, `JavaClient` with its
refinement, `InterceptedService`, `JavaInterceptor` and `TailCommand`, in that order.

Next:

1. Theorems without a run of their own that a reader would ask for: the safety part
   of what the liveness properties need (a stopped client is quiet, a closed call
   stays closed), stated as action properties where a run has room for them.
2. The rule of `StreamInterceptor` from `AuditRules` instead of a given directive,
   with `MostRelevantRule` as the fact that connects them.
