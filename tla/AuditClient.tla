----------------------------- MODULE AuditClient -----------------------------
(***************************************************************************)
(* The Go audit client, with its backends.  Any number of goroutines call  *)
(* Client.Log on one client, one request each; a request runs through the  *)
(* validators, the mutators and the backends.  The backends are the remote *)
(* processor, whose calls are served by the ingestion server (the audit    *)
(* log agent, itself built around a client with a Cloud Logging backend),  *)
(* and the process's own Cloud Logging processor.  Client.Stop may be      *)
(* called at any time; the agent may be asked to shut down, or be killed.  *)
(*                                                                         *)
(* Validators and mutators only touch the request of their own caller, so  *)
(* each list is one step; every step that touches shared state (a call, a  *)
(* write, a buffer, a connection) is a step of its own.                    *)
(***************************************************************************)
EXTENDS ClientConfig, Naturals

CONSTANTS
  Reqs,        \* calls of Client.Log
  Workloads,   \* clients, each with what applications may pass to Log
  MaxCrashes   \* bound on the number of times the agent is killed

ASSUME ClientAssumption ==
  /\ \A w \in Workloads : /\ w.client \in Configuration
                          /\ w.requests \subseteq [Reqs -> Request]
  /\ MaxCrashes \in Nat

(* Config.Validate refuses a file without a backend.  NewClient called in  *)
(* code does not ask for one: such a client stores nothing.                *)
ASSUME BackendAssumption == \A w \in Workloads : w.client.backends # {}

VARIABLES
  cfg,         \* the configuration the client was created with
  pc,          \* where each call of Log is
  req,         \* the request of each call, as mutated so far
  exit,        \* why a call ended
  conn,        \* the remote processor's connection is open
  stopper,     \* Client.Stop: which backends it has been through
  rpc,         \* state of the ProcessLog call of each request
  agent,       \* the agent: "serving", "draining" after SIGTERM, "flushing"
  crashes,     \* number of times the agent was killed
  clBuffer, clErrs, clStored, clAccepted, clStop,   \* this process's Cloud Logging
  agBuffer, agErrs, agStored, agAccepted, agStop    \* the agent's

clientVars == <<pc, req, exit, rpc>>
clVars == <<clBuffer, clErrs, clStored, clAccepted, clStop>>
agVars == <<agBuffer, agErrs, agStored, agAccepted, agStop>>
vars == <<cfg, clientVars, conn, stopper, agent, crashes, clVars, agVars>>

Entry == [id : Reqs, type : LogTypes, body : Request]

CL == INSTANCE CloudLogging WITH
  buffer <- clBuffer, errs <- clErrs, stored <- clStored,
  accepted <- clAccepted, stop <- clStop

AG == INSTANCE CloudLogging WITH
  buffer <- agBuffer, errs <- agErrs, stored <- agStored,
  accepted <- agAccepted, stop <- agStop

Stages == {"idle", "validators", "mutators", "remote", "calling",
           "cloudlogging", "returned", "panicked"}

(* "complete": every processor ran.  "dropped": a processor answered       *)
(* ErrPreconditionFailed.  "swallowed" and "error": another error, and     *)
(* handleReturn logged it or returned it.                                  *)
Exits == {"none", "complete", "dropped", "swallowed", "error"}

Calls == {"none", "sent", "handling", "ok", "error", "broken"}

TypeOK ==
  /\ cfg \in {w.client : w \in Workloads}
  /\ pc \in [Reqs -> Stages]
  /\ req \in [Reqs -> Request]
  /\ exit \in [Reqs -> Exits]
  /\ conn \in BOOLEAN
  /\ stopper \in {"running", "remote stopped", "cloudlogging", "stopped"}
  /\ rpc \in [Reqs -> Calls]
  /\ agent \in {"serving", "draining", "flushing"}
  /\ crashes \in 0..MaxCrashes
  /\ CL!TypeOK
  /\ AG!TypeOK

(* NewClient, with its options applied.                                    *)
Init ==
  /\ \E w \in Workloads : cfg = w.client /\ req \in w.requests
  /\ pc = [r \in Reqs |-> "idle"]
  /\ exit = [r \in Reqs |-> "none"]
  /\ conn = ("remote" \in cfg.backends)
  /\ stopper = "running"
  /\ rpc = [r \in Reqs |-> "none"]
  /\ agent = "serving"
  /\ crashes = 0
  /\ CL!Init
  /\ AG!Init

-----------------------------------------------------------------------------
(* Client.Log                                                              *)

EntryOf(r) == [id |-> r, type |-> req[r].type, body |-> req[r]]

(* What the loop over a list of processors does with an error: nothing     *)
(* more is processed, and Log returns nil or the error.                    *)
handleReturn(mode) == IF ShouldFailClose(mode) THEN "error" ELSE "swallowed"

ExitFor(err, mode) ==
  IF err = "ErrPreconditionFailed" THEN "dropped" ELSE handleReturn(mode)

Finish(r, why) ==
  /\ pc' = [pc EXCEPT ![r] = IF why = "panic" THEN "panicked" ELSE "returned"]
  /\ exit' = [exit EXCEPT ![r] = IF why = "panic" THEN "none" ELSE why]

(* The stage after the mutators, and after the remote backend.             *)
AfterRemote == IF "cloudlogging" \in cfg.backends THEN "cloudlogging" ELSE "returned"
AfterMutators == IF "remote" \in cfg.backends THEN "remote" ELSE AfterRemote

GoOn(r, next) ==
  IF next = "returned"
  THEN Finish(r, "complete")
  ELSE pc' = [pc EXCEPT ![r] = next] /\ exit' = exit

(* Log begins: the request gets the client's mode when it has none of its  *)
(* own.  Setting the mode of a nil request panics.                         *)
Log(r) ==
  /\ pc[r] = "idle"
  /\ IF req[r].shape = "nil request"
     THEN Finish(r, "panic") /\ req' = req
     ELSE /\ pc' = [pc EXCEPT ![r] = "validators"]
          /\ req' = [req EXCEPT ![r].mode = IF @ = "UNSPECIFIED" THEN cfg.mode ELSE @]
          /\ exit' = exit
  /\ UNCHANGED <<cfg, conn, stopper, rpc, agent, crashes, clVars, agVars>>

(* Mutant: an error that is not returned does not stop the request.        *)
RunProcessorsOn(r, stage, res, next) ==
  /\ pc[r] = stage
  /\ req' = [req EXCEPT ![r] = res.req]
  /\ IF res.err = "nil" \/ handleReturn(res.req.mode) = "swallowed"
     THEN GoOn(r, next)
     ELSE Finish(r, ExitFor(res.err, res.req.mode))
  /\ UNCHANGED <<cfg, conn, stopper, rpc, agent, crashes, clVars, agVars>>

RunProcessors(r, stage, res, next) ==
  /\ pc[r] = stage
  /\ req' = [req EXCEPT ![r] = res.req]
  /\ IF res.err = "nil"
     THEN GoOn(r, next)
     ELSE Finish(r, IF res.err = "panic" THEN "panic"
                    ELSE ExitFor(res.err, res.req.mode))
  /\ UNCHANGED <<cfg, conn, stopper, rpc, agent, crashes, clVars, agVars>>

RunValidators(r) ==
  RunProcessors(r, "validators", Validators(cfg, req[r]), "mutators")

RunMutators(r) ==
  RunProcessors(r, "mutators", Mutators(cfg, req[r]), AfterMutators)

(* remote.Processor.Process: no call is made when the credentials cannot   *)
(* be had; on a closed connection the call fails at once.                  *)
RemoteCall(r) ==
  /\ pc[r] = "remote"
  /\ \/ /\ conn
        /\ pc' = [pc EXCEPT ![r] = "calling"]
        /\ rpc' = [rpc EXCEPT ![r] = "sent"]
        /\ exit' = exit
     \/ /\ Finish(r, handleReturn(req[r].mode))
        /\ rpc' = rpc
  /\ UNCHANGED <<cfg, req, conn, stopper, agent, crashes, clVars, agVars>>

(* Mutant: an answer that is an error does not end the call.               *)
CallReturnsOk(r) ==
  /\ pc[r] = "calling"
  /\ rpc[r] = "ok"
  /\ GoOn(r, AfterRemote)
  /\ UNCHANGED <<cfg, req, conn, stopper, rpc, agent, crashes, clVars, agVars>>

(* The answer arrives.  The labels, payload and type it carries are those  *)
(* of the request the agent was sent: the agent has no mutators.           *)
CallReturns(r) ==
  /\ pc[r] = "calling"
  /\ \/ rpc[r] = "ok" /\ GoOn(r, AfterRemote)
     \/ rpc[r] = "error" /\ Finish(r, handleReturn(req[r].mode))
  /\ UNCHANGED <<cfg, req, conn, stopper, rpc, agent, crashes, clVars, agVars>>

(* Mutant: a call that failed is taken for one that was answered.          *)
CallFailsOk(r) ==
  /\ pc[r] = "calling"
  /\ GoOn(r, AfterRemote)
  /\ UNCHANGED <<cfg, req, conn, stopper, rpc, agent, crashes, clVars, agVars>>

(* The call fails on the client's side: deadline, cancellation, a lost or  *)
(* closed connection.  What the agent does with the request is not known.  *)
CallFails(r) ==
  /\ pc[r] = "calling"
  /\ Finish(r, handleReturn(req[r].mode))
  /\ UNCHANGED <<cfg, req, conn, stopper, rpc, agent, crashes, clVars, agVars>>

(* The Cloud Logging backend, last in the list.                            *)
CloudProcess(r) ==
  /\ pc[r] = "cloudlogging"
  /\ \E err \in {"nil", "error"} :
       /\ CL!Process(cfg.bestEffort, req[r].mode, EntryOf(r), err)
       /\ Finish(r, IF err = "nil" THEN "complete" ELSE handleReturn(req[r].mode))
  /\ UNCHANGED <<cfg, req, conn, stopper, rpc, agent, crashes, agVars>>

-----------------------------------------------------------------------------
(* Client.Stop: the backends are stopped in the order they were added.     *)
(* The remote processor closes its connection; Stop then flushes the Cloud *)
(* Logging processor, see module CloudLogging.                             *)

StopRemote ==
  /\ stopper = "running"
  /\ conn' = FALSE
  /\ stopper' = "remote stopped"
  /\ UNCHANGED <<cfg, clientVars, agent, crashes, clVars, agVars>>

StopCloud ==
  /\ stopper = "remote stopped"
  /\ IF "cloudlogging" \in cfg.backends
     THEN CL!StopCall /\ stopper' = "cloudlogging"
     ELSE UNCHANGED clVars /\ stopper' = "stopped"
  /\ UNCHANGED <<cfg, clientVars, conn, agent, crashes, agVars>>

StopFlush ==
  /\ stopper = "cloudlogging"
  /\ CL!StopNext
  /\ stopper' = IF clStop'.pc = "stopped" THEN "stopped" ELSE stopper
  /\ UNCHANGED <<cfg, clientVars, conn, agent, crashes, agVars>>

(* The background writer of this process.                                  *)
ClientWrite ==
  /\ \E e \in clBuffer : CL!Write(e)
  /\ UNCHANGED <<cfg, clientVars, conn, stopper, agent, crashes, agVars>>

-----------------------------------------------------------------------------
(* The agent.                                                              *)

AgentReceive(r) ==
  /\ rpc[r] = "sent"
  /\ agent = "serving"
  /\ rpc' = [rpc EXCEPT ![r] = "handling"]
  /\ UNCHANGED <<cfg, pc, req, exit, conn, stopper, agent, crashes, clVars, agVars>>

(* AuditLogAgent.ProcessLog: Log of a client that has the default          *)
(* validator, a Cloud Logging backend in its default mode, and no log mode *)
(* of its own, so that an unspecified mode stays unspecified.  The request *)
(* the caller holds does not change once it has been sent.                 *)
ProcessLog(r) ==
  /\ rpc[r] = "handling"
  /\ \E err \in {"nil", "error"} :
       /\ IF RequestValidator(req[r]).err = "nil"
          THEN AG!Process(FALSE, req[r].mode, EntryOf(r), err)
          ELSE err = "error" /\ UNCHANGED agVars
       /\ rpc' = [rpc EXCEPT ![r] =
            IF err # "nil" /\ handleReturn(req[r].mode) = "error"
            THEN "error" ELSE "ok"]
  /\ UNCHANGED <<cfg, pc, req, exit, conn, stopper, agent, crashes, clVars>>

AgentWrite ==
  /\ \E e \in agBuffer : AG!Write(e)
  /\ UNCHANGED <<cfg, clientVars, conn, stopper, agent, crashes, clVars>>

(* SIGTERM: the gRPC server takes no more calls and waits for the handlers *)
(* that run; then realMain's deferred client.Stop flushes.                 *)
AgentTerm ==
  /\ agent = "serving"
  /\ agent' = "draining"
  /\ rpc' = [r \in Reqs |-> IF rpc[r] = "sent" THEN "broken" ELSE rpc[r]]
  /\ UNCHANGED <<cfg, pc, req, exit, conn, stopper, crashes, clVars, agVars>>

(* Mutant: handlers that still run are not waited for.                     *)
AgentDrainedEarly ==
  /\ agent = "draining"
  /\ AG!StopCall
  /\ agent' = "flushing"
  /\ UNCHANGED <<cfg, clientVars, conn, stopper, crashes, clVars>>

AgentDrained ==
  /\ agent = "draining"
  /\ \A r \in Reqs : rpc[r] # "handling"
  /\ AG!StopCall
  /\ agent' = "flushing"
  /\ UNCHANGED <<cfg, clientVars, conn, stopper, crashes, clVars>>

AgentFlush ==
  /\ agent = "flushing"
  /\ AG!StopNext
  /\ UNCHANGED <<cfg, clientVars, conn, stopper, agent, crashes, clVars>>

(* The agent is killed, with the calls it was serving, and started again.  *)
AgentCrash ==
  /\ crashes < MaxCrashes
  /\ agStop.pc # "stopped"
  /\ crashes' = crashes + 1
  /\ agent' = "serving"
  /\ rpc' = [r \in Reqs |-> IF rpc[r] \in {"sent", "handling"} THEN "broken" ELSE rpc[r]]
  /\ AG!Crash
  /\ UNCHANGED <<cfg, pc, req, exit, conn, stopper, clVars>>

-----------------------------------------------------------------------------

CallStep(r) ==
  \/ Log(r) \/ RunValidators(r) \/ RunMutators(r)
  \/ RemoteCall(r) \/ CallReturns(r) \/ CallFails(r) \/ CloudProcess(r)

HandlerStep(r) == AgentReceive(r) \/ ProcessLog(r)

StopStep == StopRemote \/ StopCloud \/ StopFlush

AgentStep == AgentTerm \/ AgentDrained \/ AgentFlush \/ AgentCrash

Next ==
  \/ \E r \in Reqs : CallStep(r) \/ HandlerStep(r)
  \/ StopStep
  \/ ClientWrite
  \/ AgentWrite
  \/ AgentStep

(* The agent will not answer: the call was cut off, or it waits for a      *)
(* server that takes no more calls.                                        *)
Unanswered(r) == rpc[r] = "broken" \/ (rpc[r] = "sent" /\ agent # "serving")

(* What the goroutine of a call does by itself once Log has begun.  Its    *)
(* context need not have a deadline: a call only fails of necessity when   *)
(* the server is not there.                                                *)
GoroutineStep(r) ==
  \/ RunValidators(r) \/ RunMutators(r) \/ RemoteCall(r) \/ CallReturns(r)
  \/ Unanswered(r) /\ CallFails(r)
  \/ CloudProcess(r)

(* Goroutines that can run do run, and so do the handlers of the agent and *)
(* the background writers of the library.  Nobody has to call Log or Stop, *)
(* or to stop the agent.                                                   *)
Fairness ==
  /\ \A r \in Reqs : WF_vars(GoroutineStep(r)) /\ WF_vars(HandlerStep(r))
  /\ WF_vars(StopCloud \/ StopFlush)
  /\ WF_vars(ClientWrite)
  /\ WF_vars(AgentWrite)
  /\ WF_vars(AgentDrained \/ AgentFlush)

Spec == Init /\ [][Next]_vars

FairSpec == Spec /\ Fairness

-----------------------------------------------------------------------------
(* Properties.                                                             *)

StoredAt(b, r) ==
  IF b = "remote" THEN EntryOf(r) \in agStored ELSE EntryOf(r) \in clStored

Durable(r) == \A b \in cfg.backends : StoredAt(b, r)

ReturnedNil(r) == pc[r] = "returned" /\ exit[r] # "error"

(* FAIL_CLOSE: "the log request must be persisted in the system before     *)
(* return".  A call of Log in fail-close mode that returned nil was        *)
(* filtered out by its principal, or the very request it ended with is     *)
(* stored by every backend of the client, whatever calls failed, timed out *)
(* or were lost on the way and however often the agent was killed.         *)
FailCloseDurable ==
  \A r \in Reqs :
    ReturnedNil(r) /\ ShouldFailClose(req[r].mode) =>
      \/ exit[r] = "dropped" /\ Dropped(cfg, req[r])
      \/ Durable(r)

(* An entry that is stored or buffered anywhere, by this process or by the *)
(* agent, is one of a valid request whose principal the filter lets        *)
(* through, and one that carries the justification, the resource and the   *)
(* labels that the configuration asks for; an error of a processor stops   *)
(* the request before the backends in every log mode.                      *)
Vetted(e) ==
  /\ ValidateAuditLog(e.body)
  /\ cfg.includes # <<>> \/ cfg.excludes # <<>> => ~ Dropped(cfg, e.body)
  /\ cfg.justification => "justification" \in e.body.metadata.keys
  /\ cfg.onGCP => "originating_resource" \in e.body.metadata.keys
  /\ \A k \in LabelKeys : cfg.labels[k] # NoLabel => e.body.labels[k] # NoLabel

OnlyVettedEntries ==
  \A e \in clStored \cup clBuffer \cup agStored \cup agBuffer : Vetted(e)

(* The agent is shut down without loss: once it has drained its handlers   *)
(* and flushed, and Stop reported no error, every best-effort entry that   *)
(* it acknowledged since it was started is stored.                         *)
AgentShutdownComplete ==
  agStop.pc = "stopped" /\ ~ agStop.err => agAccepted \subseteq agStored

(* The client, its backends and the agent together keep the promise of     *)
(* LogMode: module AuditLogService, where a request is durable when every  *)
(* backend of the client has stored it.                                    *)
Status(r) ==
  IF pc[r] = "idle" THEN "idle"
  ELSE IF pc[r] = "panicked" THEN "aborted"
  ELSE IF pc[r] # "returned" THEN "pending"
  ELSE IF exit[r] = "error" THEN "failed"
  ELSE IF exit[r] = "dropped" THEN "filtered"
  ELSE "acked"

(* A nil request has no mode.                                              *)
SubmittedMode(r) ==
  IF pc[r] = "idle" \/ req[r].shape = "nil request" THEN "UNSPECIFIED" ELSE req[r].mode

Service == INSTANCE AuditLogService WITH
  mode <- [r \in Reqs |-> SubmittedMode(r)],
  status <- [r \in Reqs |-> Status(r)],
  durable <- {r \in Reqs : Durable(r)}

(* Every behaviour of the client is one of the service: no interleaving of *)
(* failed, late or lost calls, of Stop and of the agent's restarts lets a  *)
(* caller see an answer that LogMode rules out, and nothing is persisted   *)
(* for a request that was filtered out.                                    *)
ImplementsService == Service!Spec

(* Every call of Log ends, also those that Stop or the agent's end         *)
(* overtakes: in the end none that began is still in progress.             *)
LogReturns ==
  <>[](\A r \in Reqs : pc[r] \in {"idle", "returned", "panicked"})

(* Client.Stop ends, although calls of Log keep the loggers busy, and so   *)
(* does the shutdown of the agent unless it is killed meanwhile, and then  *)
(* it serves again: in the end neither is under way.                       *)
StopEnds ==
  <>[](/\ stopper \in {"running", "stopped"}
       /\ agent = "serving" \/ agStop.pc = "stopped")

=============================================================================
