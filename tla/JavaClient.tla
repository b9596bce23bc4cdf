----------------------------- MODULE JavaClient -----------------------------
(***************************************************************************)
(* LoggingClient of the Java library: any number of threads call log on    *)
(* one client, one request each, which runs through the validators, the    *)
(* mutators and the backends; an exception ends it.  close may be called   *)
(* at any time.                                                            *)
(*                                                                         *)
(* The remote backend is the agent, taken at the word of AuditLogService,  *)
(* which AuditClient shows it to keep: it persists a fail-close request    *)
(* before it answers, and any other request later or not at all.  It       *)
(* filters nothing of its own.                                             *)
(***************************************************************************)
EXTENDS AuditProcessors, Naturals

CONSTANTS
  Reqs,        \* calls of log
  AgentLabels, \* the labels that the agent adds
  Workloads    \* clients, each with what applications may pass to log

Backends == {"remote", "local", "cloudlogging"}

(* backend is <<>>, if the file has no such block, or holds the backends   *)
(* that are enabled.                                                       *)
JavaConfiguration ==
  [includes      : Seq(SUBSET Emails),
   excludes      : Seq(SUBSET Emails),
   onGCP         : BOOLEAN,
   labels        : [LabelKeys -> LabelValues \cup {NoLabel}],
   justification : BOOLEAN,
   mode          : Modes,
   backend       : {<<>>} \cup {<<b>> : b \in SUBSET Backends}]

ASSUME JavaClientAssumption ==
  /\ AgentLabels \in [LabelKeys -> LabelValues \cup {NoLabel}]
  /\ \A w \in Workloads : /\ w.client \in JavaConfiguration
                          /\ w.requests \subseteq [Reqs -> Request]

VARIABLES
  cfg,       \* the configuration
  at,        \* where each call is, or how it ended
  req,       \* the request of each call
  held,      \* requests that the agent has, to persist them later
  buffer,    \* requests that Cloud Logging writes in the background
  stored,    \* backends with the requests that they have persisted
  closing    \* close: whether it was called, and what it waits for

vars == <<cfg, at, req, held, buffer, stored, closing>>

Init ==
  /\ \E w \in Workloads : cfg = w.client /\ req \in w.requests
  /\ at = [r \in Reqs |-> "idle"]
  /\ held = {}
  /\ buffer = {}
  /\ stored = {}
  /\ closing = [pc |-> "open", wait |-> {}]

(* The defaults of the configuration.                                      *)
getLogMode == IF cfg.mode = "UNSPECIFIED" THEN "FAIL_CLOSE" ELSE cfg.mode
getBackend == IF cfg.backend = <<>> THEN {"local"} ELSE cfg.backend[1]

-----------------------------------------------------------------------------
(* Validators and mutators.  Runtime info and labels are those of Go.      *)

(* An email need not be valid.                                             *)
ValidationProcessor(q) ==
  IF q.shape = "complete" /\ q.email # NoAuthInfo THEN Pass(q) ELSE Refuse("error", q)

(* Mutant: without includes nothing is filtered.                           *)
FilteringProcessorIncludes(c, q) ==
  IF c.includes = <<>> \/ MatchesAny(c.includes, q.email) THEN Pass(q)
  ELSE Refuse("ErrPreconditionFailed", q)

FilteringProcessor(c, q) ==
  IF (c.includes = <<>> /\ c.excludes = <<>>) \/ ~ Dropped(c, q) THEN Pass(q)
  ELSE Refuse("ErrPreconditionFailed", q)

RuntimeInfoProcessor(c, q) == RuntimeInfo(c, q)

JustificationIfEnabled(c, q) ==
  IF ~ c.justification THEN Pass(q)
  ELSE IF q.token \in {"missing", "invalid"} THEN Refuse("error", q)
  ELSE Pass([q EXCEPT !.metadata = [map |-> "fields", keys |-> @.keys \cup {"justification"}],
                      !.reason = @ \/ q.token = "valid"])

(* The lists as withDefaultProcessors adds to them.                        *)
JavaValidators(c, q) ==
  Then(ValidationProcessor(q), LAMBDA x : FilteringProcessor(c, x))

JavaMutators(c, q) ==
  Then(Then(RuntimeInfoProcessor(c, q), LAMBDA x : LabelProcessor(c, x)),
       LAMBDA x : JustificationIfEnabled(c, x))

-----------------------------------------------------------------------------
(* log                                                                     *)

Goto(r, place) == at' = [at EXCEPT ![r] = place]

(* What the catch clauses do with an exception.                            *)
Caught(r, err) ==
  Goto(r, IF err = "ErrPreconditionFailed" THEN "dropped"
          ELSE IF ShouldFailClose(req[r].mode) THEN "thrown" ELSE "swallowed")

(* The backends in the order in which withDefaultLogBackends adds them.    *)
Order == <<"remote", "local", "cloudlogging", "complete">>

GoOnFrom(r, k) ==
  LET enabled == {i \in k..Len(Order) : Order[i] \in getBackend \cup {"complete"}}
  IN  Goto(r, Order[CHOOSE i \in enabled : \A j \in enabled : i <= j])

(* The request gets the mode of the configuration when it has none of its  *)
(* own.  A null request is dereferenced outside of the try block.          *)
Log(r) ==
  /\ at[r] = "idle"
  /\ IF req[r].shape = "nil request"
     THEN Goto(r, "aborted") /\ req' = req
     ELSE /\ Goto(r, "validators")
          /\ req' = [req EXCEPT ![r].mode = IF @ = "UNSPECIFIED" THEN getLogMode ELSE @]
  /\ UNCHANGED <<cfg, held, buffer, stored, closing>>

RunValidators(r) ==
  LET res == JavaValidators(cfg, req[r])
  IN  /\ at[r] = "validators"
      /\ IF res.err = "nil" THEN Goto(r, "mutators") ELSE Caught(r, res.err)
      /\ UNCHANGED <<cfg, req, held, buffer, stored, closing>>

RunMutators(r) ==
  LET res == JavaMutators(cfg, req[r])
  IN  /\ at[r] = "mutators"
      /\ IF res.err = "nil" THEN GoOnFrom(r, 1) ELSE Caught(r, res.err)
      /\ req' = [req EXCEPT ![r] = res.req]
      /\ UNCHANGED <<cfg, held, buffer, stored, closing>>

(* The agent answers with the request as it has it, which goes on to the   *)
(* next backend; or the blocking call throws: then the agent may have the  *)
(* request all the same, or have refused it, being stricter.               *)
RemoteProcess(r) ==
  LET valid  == ValidateAuditLog(req[r])
      taken  == IF valid THEN held \cup {r} ELSE held
      answer == IF valid THEN LabelProcessor([labels |-> AgentLabels], req[r]).req
                ELSE req[r]
  IN  /\ at[r] = "remote"
      /\ \/ /\ ShouldFailClose(req[r].mode) /\ valid
            /\ stored' = stored \cup {<<"remote", r>>} /\ held' = held
            /\ GoOnFrom(r, 2)
            /\ req' = [req EXCEPT ![r] = answer]
         \/ /\ ~ ShouldFailClose(req[r].mode)
            /\ held' = taken /\ stored' = stored
            /\ GoOnFrom(r, 2)
            /\ req' = [req EXCEPT ![r] = answer]
         \/ /\ held' \in {held, taken} /\ stored' = stored
            /\ Caught(r, "error")
            /\ req' = req
      /\ UNCHANGED <<cfg, buffer, closing>>

(* The entry is printed, or cannot be.                                     *)
LocalProcess(r) ==
  /\ at[r] = "local"
  /\ \/ stored' = stored \cup {<<"local", r>>} /\ GoOnFrom(r, 3)
     \/ stored' = stored /\ Caught(r, "error")
  /\ UNCHANGED <<cfg, req, held, buffer, closing>>

(* Mutant: the library's default.                                          *)
SynchronousNever == FALSE

(* setWriteSynchronicity, once for all requests.                           *)
Synchronous == ShouldFailClose(getLogMode)

(* The entry cannot be converted; or it is written at once, which can fail *)
(* though it is stored; or in the background.  A client that is closed     *)
(* writes nothing.                                                         *)
CloudProcess(r) ==
  /\ at[r] = "cloudlogging"
  /\ \/ /\ Caught(r, "error")
        /\ stored' \in {stored} \cup (IF Synchronous /\ closing.pc # "closed"
                                      THEN {stored \cup {<<"cloudlogging", r>>}} ELSE {})
        /\ buffer' = buffer
     \/ /\ Synchronous /\ closing.pc # "closed"
        /\ GoOnFrom(r, 4)
        /\ stored' = stored \cup {<<"cloudlogging", r>>}
        /\ buffer' = buffer
     \/ /\ ~ Synchronous
        /\ GoOnFrom(r, 4)
        /\ buffer' = IF closing.pc = "closed" THEN buffer ELSE buffer \cup {r}
        /\ stored' = stored
  /\ UNCHANGED <<cfg, req, held, closing>>

-----------------------------------------------------------------------------
(* Background, and close.                                                  *)

AgentPersists(r) ==
  /\ r \in held
  /\ held' = held \ {r}
  /\ stored' \in {stored, stored \cup {<<"remote", r>>}}
  /\ UNCHANGED <<cfg, at, req, buffer, closing>>

(* A write in the background can fail, and nobody gets to know.            *)
Write(r) ==
  /\ r \in buffer
  /\ buffer' = buffer \ {r}
  /\ stored' \in {stored, stored \cup {<<"cloudlogging", r>>}}
  /\ UNCHANGED <<cfg, at, req, held, closing>>

(* Only the Cloud Logging processor has anything to close: logging.close   *)
(* waits for the writes under way.  An error is logged.                    *)
Close ==
  /\ closing.pc = "open"
  /\ closing' = [pc |-> "flushing", wait |-> buffer]
  /\ UNCHANGED <<cfg, at, req, held, buffer, stored>>

CloseReturns ==
  /\ closing.pc = "flushing"
  /\ closing.wait \cap buffer = {}
  /\ closing' = [pc |-> "closed", wait |-> {}]
  /\ buffer' = {}
  /\ UNCHANGED <<cfg, at, req, held, stored>>

Next ==
  \/ \E r \in Reqs :
       \/ Log(r) \/ RunValidators(r) \/ RunMutators(r)
       \/ RemoteProcess(r) \/ LocalProcess(r) \/ CloudProcess(r)
       \/ AgentPersists(r) \/ Write(r)
  \/ Close \/ CloseReturns

Spec == Init /\ [][Next]_vars

-----------------------------------------------------------------------------
(* Properties.                                                             *)

Durable(r) == \A b \in getBackend : <<b, r>> \in stored

Status(r) ==
  CASE at[r] \in {"complete", "swallowed"} -> "acked"
    [] at[r] = "dropped"                   -> "filtered"
    [] at[r] = "thrown"                    -> "failed"
    [] at[r] \in {"idle", "aborted"}       -> at[r]
    [] OTHER                               -> "pending"

(* A null request has no mode.                                             *)
SubmittedMode(r) ==
  IF at[r] = "idle" \/ req[r].shape = "nil request" THEN "UNSPECIFIED" ELSE req[r].mode

Service == INSTANCE AuditLogService WITH
  mode <- [r \in Reqs |-> SubmittedMode(r)],
  status <- [r \in Reqs |-> Status(r)],
  durable <- {r \in Reqs : Durable(r)}

(* The Java client keeps the promise of LogMode like the one in Go, across *)
(* its backends, the exceptions of any of them, background writes and a    *)
(* close under way.  (A fail-close request is asked of a client of that    *)
(* mode, or of one without Cloud Logging: see PersistedBeforeReturn.)      *)
ImplementsService == Service!Spec

(* Whatever reaches a backend, of this process or the agent, has passed    *)
(* validation and filter and bears what the configuration adds, in every   *)
(* log mode: no exception that log swallows lets its request go on.        *)
OnlyVettedEntries ==
  \A r \in held \cup buffer \cup {e[2] : e \in stored} :
    /\ ValidationProcessor(req[r]).err = "nil"
    /\ cfg.includes # <<>> \/ cfg.excludes # <<>> => ~ Dropped(cfg, req[r])
    /\ cfg.justification => "justification" \in req[r].metadata.keys
    /\ cfg.onGCP => "originating_resource" \in req[r].metadata.keys

(* "In FAIL_CLOSE mode, the log request must be persisted in the system    *)
(* before return": for every client, whatever the mode of its own.         *)
PersistedBeforeReturn ==
  \A r \in Reqs :
    at[r] = "complete" /\ ShouldFailClose(req[r].mode) => Durable(r)

=============================================================================
