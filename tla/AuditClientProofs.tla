------------------------- MODULE AuditClientProofs -------------------------
(***************************************************************************)
(* The Go client, its backends and the agent keep the promise of LogMode,  *)
(* for any number of calls, any clients and requests, and however often    *)
(* the agent is killed.                                                    *)
(***************************************************************************)
EXTENDS AuditClient, AuditProcessorsProofs

(* The entries that any logger of the two processes holds or has written.  *)
Entries == clStored \cup clBuffer \cup agStored \cup agBuffer

(* What a call with an entry somewhere looks like.                         *)
HandedOver(r) == pc[r] \in {"calling", "cloudlogging", "returned"} /\ exit[r] # "dropped"

(* A call on its way to a backend has been vetted, and so has one that the *)
(* agent was sent.                                                         *)
VettedFirst(r) ==
  /\ pc[r] = "mutators" => ValidateAuditLog(req[r]) /\ Unfiltered(cfg, req[r])
  /\ pc[r] \in {"remote", "calling", "cloudlogging"} \/ rpc[r] # "none" =>
       Vetted(EntryOf(r))
  /\ rpc[r] # "none" => HandedOver(r)

(* A fail-close call that has got past a backend is stored there, and one  *)
(* that was given up is not acknowledged.                                  *)
StoredBehind(r) ==
  /\ pc[r] = "returned" <=> exit[r] # "none"
  /\ exit[r] = "dropped" => Dropped(cfg, req[r])
  /\ exit[r] = "error" \/ rpc[r] = "error" => ShouldFailClose(req[r].mode)
  /\ ShouldFailClose(req[r].mode) =>
       /\ rpc[r] = "ok" => StoredAt("remote", r)
       /\ pc[r] = "cloudlogging" /\ "remote" \in cfg.backends => StoredAt("remote", r)
       /\ exit[r] = "complete" => Durable(r)
       /\ exit[r] # "swallowed"

(* An entry is the one of its request as the request is now: requests      *)
(* change before they are handed over, and not after.                      *)
EntriesInv ==
  \A e \in Entries : e = EntryOf(e.id) /\ Vetted(e) /\ HandedOver(e.id)

IInv ==
  /\ TypeOK
  /\ \A r \in Reqs : VettedFirst(r) /\ StoredBehind(r)
  /\ EntriesInv

-----------------------------------------------------------------------------
(* Types.                                                                  *)

LEMMA EntryType ==
  ASSUME TypeOK, NEW r \in Reqs
  PROVE  EntryOf(r) \in Entry
BY DEF TypeOK, EntryOf, Entry, Request

LEMMA ConfigType == TypeOK => cfg \in Configuration
BY ClientAssumption DEF TypeOK

LEMMA TypeInit == Init => TypeOK
<1> SUFFICES ASSUME Init PROVE TypeOK
  OBVIOUS
<1>1. PICK w \in Workloads : cfg = w.client /\ req \in w.requests
  BY DEF Init
<1>2. cfg \in {v.client : v \in Workloads} /\ req \in [Reqs -> Request]
  BY <1>1, ClientAssumption
<1>3. CL!TypeOK /\ AG!TypeOK
  BY DEF Init, CL!Init, AG!Init, CL!Fresh, AG!Fresh, CL!TypeOK, AG!TypeOK,
         CL!Stopping, AG!Stopping
<1>4. conn \in BOOLEAN /\ crashes \in 0..MaxCrashes
  BY ClientAssumption DEF Init
<1> QED
  BY <1>2, <1>3, <1>4 DEF Init, TypeOK, Stages, Exits, Calls

(* The two Cloud Logging processors, with what CloudLoggingProofs has      *)
(* proved about such a processor.                                          *)
CLP == INSTANCE CloudLoggingProofs WITH
  buffer <- clBuffer, errs <- clErrs, stored <- clStored,
  accepted <- clAccepted, stop <- clStop

AGP == INSTANCE CloudLoggingProofs WITH
  buffer <- agBuffer, errs <- agErrs, stored <- agStored,
  accepted <- agAccepted, stop <- agStop

LEMMA EntryTyped == \A e \in Entry : e.type \in LogTypes
BY DEF Entry

(* A step of the client leaves either processor alone or is a step of it.  *)
LEMMA ClientCloudStep == TypeOK /\ [Next]_vars => CLP!Step
<1> SUFFICES ASSUME TypeOK, [Next]_vars PROVE CLP!Step
  OBVIOUS
<1>1. ASSUME NEW r \in Reqs, CloudProcess(r) PROVE CLP!Step
  <2>1. EntryOf(r) \in Entry /\ cfg.bestEffort \in BOOLEAN /\ req[r].mode \in Modes
    BY EntryType, ConfigType DEF TypeOK, Configuration, Request
  <2>2. PICK err \in {"nil", "error"} : CL!Process(cfg.bestEffort, req[r].mode, EntryOf(r), err)
    BY <1>1 DEF CloudProcess
  <2> QED
    BY <2>1, <2>2 DEF CLP!Step, CL!Process, CLP!Process, CL!LogAsync, CLP!LogAsync,
       CL!LogSync, CLP!LogSync, CL!BestEffort, CLP!BestEffort, CLP!Modes, Modes
<1>2. CASE ClientWrite
  <2>1. PICK e \in clBuffer : CL!Write(e)
    BY <1>2 DEF ClientWrite
  <2>2. e \in Entry
    BY DEF TypeOK, CL!TypeOK
  <2> QED
    BY <2>1, <2>2 DEF CLP!Step, CL!Write, CLP!Write
<1>3. CASE StopCloud
  BY <1>3 DEF StopCloud, CLP!Step, CL!StopCall, CLP!StopCall, CLP!clvars, clVars
<1>4. CASE StopFlush
  BY <1>4 DEF StopFlush, CLP!Step, CL!StopNext, CLP!StopNext, CL!FlushCall,
     CLP!FlushCall, CL!FlushReturn, CLP!FlushReturn, CL!StopReturn, CLP!StopReturn
<1>5. UNCHANGED clVars => CLP!Step
  BY DEF clVars, CLP!Step, CLP!clvars
<1>6. ASSUME NEW r \in Reqs, CallStep(r) \/ HandlerStep(r), ~ CloudProcess(r)
      PROVE  UNCHANGED clVars
  BY <1>6 DEF CallStep, HandlerStep, Log, RunValidators, RunMutators, RunProcessors,
     RemoteCall, CallReturns, CallFails, AgentReceive, ProcessLog
<1>7. StopRemote \/ AgentWrite \/ AgentStep \/ UNCHANGED vars => UNCHANGED clVars
  BY DEF StopRemote, AgentWrite, AgentStep, AgentTerm, AgentDrained, AgentFlush,
     AgentCrash, vars
<1> QED
  BY <1>1, <1>2, <1>3, <1>4, <1>5, <1>6, <1>7 DEF Next, StopStep

LEMMA AgentCloudStep == TypeOK /\ [Next]_vars => AGP!Step
<1> SUFFICES ASSUME TypeOK, [Next]_vars PROVE AGP!Step
  OBVIOUS
<1>0. UNCHANGED agVars => AGP!Step
  BY DEF agVars, AGP!Step, AGP!clvars
<1>1. ASSUME NEW r \in Reqs, ProcessLog(r) PROVE AGP!Step
  <2>1. EntryOf(r) \in Entry /\ req[r].mode \in Modes
    BY EntryType DEF TypeOK, Request
  <2>2. PICK err \in {"nil", "error"} :
          \/ AG!Process(FALSE, req[r].mode, EntryOf(r), err)
          \/ UNCHANGED agVars
    BY <1>1 DEF ProcessLog
  <2> QED
    BY <1>0, <2>1, <2>2 DEF AGP!Step, AG!Process, AGP!Process, AG!LogAsync,
       AGP!LogAsync, AG!LogSync, AGP!LogSync, AG!BestEffort, AGP!BestEffort, AGP!Modes, Modes
<1>2. CASE AgentWrite
  <2>1. PICK e \in agBuffer : AG!Write(e)
    BY <1>2 DEF AgentWrite
  <2>2. e \in Entry
    BY DEF TypeOK, AG!TypeOK
  <2> QED
    BY <2>1, <2>2 DEF AGP!Step, AG!Write, AGP!Write
<1>3. CASE AgentDrained
  BY <1>3 DEF AgentDrained, AGP!Step, AG!StopCall, AGP!StopCall
<1>4. CASE AgentFlush
  BY <1>4 DEF AgentFlush, AGP!Step, AG!StopNext, AGP!StopNext, AG!FlushCall,
     AGP!FlushCall, AG!FlushReturn, AGP!FlushReturn, AG!StopReturn, AGP!StopReturn
<1>5. CASE AgentCrash
  BY <1>5 DEF AgentCrash, AGP!Step, AG!Crash, AGP!Crash, AG!Fresh, AGP!Fresh
<1>6. ASSUME NEW r \in Reqs, CallStep(r) \/ AgentReceive(r) PROVE UNCHANGED agVars
  BY <1>6 DEF CallStep, Log, RunValidators, RunMutators, RunProcessors,
     RemoteCall, CallReturns, CallFails, CloudProcess, AgentReceive
<1>7. StopStep \/ ClientWrite \/ AgentTerm \/ UNCHANGED vars => UNCHANGED agVars
  BY DEF StopStep, StopRemote, StopCloud, StopFlush, ClientWrite, AgentTerm, vars
<1> QED
  BY <1>0, <1>1, <1>2, <1>3, <1>4, <1>5, <1>6, <1>7 DEF Next, HandlerStep, AgentStep

LEMMA CloudTypes == TypeOK /\ [Next]_vars => CL!TypeOK' /\ AG!TypeOK'
<1> SUFFICES ASSUME TypeOK, [Next]_vars PROVE CL!TypeOK' /\ AG!TypeOK'
  OBVIOUS
<1>1. CLP!TypeOK /\ AGP!TypeOK
  BY DEF TypeOK, CL!TypeOK, CLP!TypeOK, CL!Stopping, CLP!Stopping,
     AG!TypeOK, AGP!TypeOK, AG!Stopping, AGP!Stopping
<1>2. CLP!TypeOK' /\ AGP!TypeOK'
  BY <1>1, EntryTyped, ClientCloudStep, AgentCloudStep, CLP!TypeStep, AGP!TypeStep
<1> QED
  BY <1>2 DEF CL!TypeOK, CLP!TypeOK, CL!Stopping, CLP!Stopping,
     AG!TypeOK, AGP!TypeOK, AG!Stopping, AGP!Stopping

LEMMA FinishTypes ==
  ASSUME TypeOK, NEW r \in Reqs,
         NEW why \in {"complete", "dropped", "swallowed", "error", "panic"},
         Finish(r, why)
  PROVE  pc' \in [Reqs -> Stages] /\ exit' \in [Reqs -> Exits]
BY DEF TypeOK, Finish, Stages, Exits

LEMMA GoOnTypes ==
  ASSUME TypeOK, NEW r \in Reqs, NEW next \in Stages, GoOn(r, next)
  PROVE  pc' \in [Reqs -> Stages] /\ exit' \in [Reqs -> Exits]
BY FinishTypes DEF TypeOK, GoOn

(* What a list of processors makes of a call.                              *)
LEMMA ProcessorTypes ==
  ASSUME TypeOK, NEW r \in Reqs, NEW stage, NEW res, NEW next \in Stages,
         res.req \in Request, RunProcessors(r, stage, res, next)
  PROVE  /\ pc' \in [Reqs -> Stages]
         /\ exit' \in [Reqs -> Exits]
         /\ req' \in [Reqs -> Request]
<1>1. CASE res.err = "nil"
  BY <1>1, GoOnTypes DEF TypeOK, RunProcessors
<1>2. CASE res.err # "nil"
  <2> DEFINE why == IF res.err = "panic" THEN "panic" ELSE ExitFor(res.err, res.req.mode)
  <2>1. why \in {"dropped", "swallowed", "error", "panic"}
    BY DEF ExitFor, handleReturn
  <2>2. Finish(r, why)
    BY <1>2 DEF RunProcessors
  <2> HIDE DEF why
  <2> QED
    BY <2>1, <2>2, FinishTypes DEF TypeOK, RunProcessors
<1> QED
  BY <1>1, <1>2

LEMMA TypeStep == TypeOK /\ [Next]_vars => TypeOK'
<1> SUFFICES ASSUME TypeOK, [Next]_vars PROVE TypeOK'
  OBVIOUS
<1>0. CL!TypeOK' /\ AG!TypeOK' /\ cfg \in Configuration
  BY CloudTypes, ConfigType
<1> USE <1>0
<1>r. \A r \in Reqs : handleReturn(req[r].mode) \in {"swallowed", "error"}
  BY DEF handleReturn
<1>s. AfterRemote \in Stages /\ AfterMutators \in Stages /\ "mutators" \in Stages
  BY DEF AfterRemote, AfterMutators, Stages
<1>1. ASSUME NEW r \in Reqs, Log(r) PROVE TypeOK'
  <2>1. req' \in [Reqs -> Request]
    <3> DEFINE m == IF req[r].mode = "UNSPECIFIED" THEN cfg.mode ELSE req[r].mode
               moded == [req[r] EXCEPT !.mode = m]
    <3>1. m \in Modes
      BY DEF TypeOK, Request, Configuration
    <3>2. moded \in Request
      <4>1. req[r] \in Request
        BY DEF TypeOK
      <4> HIDE DEF m, TypeOK
      <4> QED
        BY <3>1, <4>1 DEF Request
    <3>3. req' = req \/ req' = [req EXCEPT ![r] = moded]
      BY <1>1 DEF Log
    <3> HIDE DEF moded
    <3> QED
      BY <3>2, <3>3 DEF TypeOK
  <2>2. pc' \in [Reqs -> Stages] /\ exit' \in [Reqs -> Exits]
    BY <1>1, FinishTypes DEF Log, TypeOK, Stages
  <2> QED
    BY <1>1, <2>1, <2>2 DEF Log, TypeOK
<1>2. ASSUME NEW r \in Reqs, RunValidators(r) PROVE TypeOK'
  <2>1. Validators(cfg, req[r]).req \in Request
    BY ValidatorsResult DEF TypeOK
  <2> QED
    BY <1>2, <1>s, <2>1, ProcessorTypes DEF RunValidators, RunProcessors, TypeOK
<1>3. ASSUME NEW r \in Reqs, RunMutators(r) PROVE TypeOK'
  <2>1. Mutators(cfg, req[r]).req \in Request
    BY MutatorsResult DEF TypeOK
  <2> QED
    BY <1>3, <1>s, <2>1, ProcessorTypes DEF RunMutators, RunProcessors, TypeOK
<1>4. ASSUME NEW r \in Reqs, RemoteCall(r) PROVE TypeOK'
  <2>1. pc' \in [Reqs -> Stages] /\ exit' \in [Reqs -> Exits]
    BY <1>4, <1>r, FinishTypes DEF RemoteCall, TypeOK, Stages
  <2> QED
    BY <1>4, <2>1 DEF RemoteCall, TypeOK, Calls
<1>5. ASSUME NEW r \in Reqs, CallReturns(r) PROVE TypeOK'
  BY <1>5, <1>r, <1>s, FinishTypes, GoOnTypes DEF CallReturns, TypeOK
<1>6. ASSUME NEW r \in Reqs, CallFails(r) PROVE TypeOK'
  BY <1>6, <1>r, FinishTypes DEF CallFails, TypeOK
<1>7. ASSUME NEW r \in Reqs, CloudProcess(r) PROVE TypeOK'
  BY <1>7, <1>r, FinishTypes DEF CloudProcess, TypeOK
<1>8. ASSUME NEW r \in Reqs, HandlerStep(r) PROVE TypeOK'
  BY <1>8 DEF HandlerStep, AgentReceive, ProcessLog, TypeOK, Calls
<1>9. CASE StopStep \/ ClientWrite \/ AgentWrite
  <2>1. UNCHANGED <<cfg, clientVars, agent, crashes>>
    BY <1>9 DEF StopStep, StopRemote, StopCloud, StopFlush, ClientWrite, AgentWrite
  <2>2. conn' \in BOOLEAN /\ stopper' \in {"running", "remote stopped", "cloudlogging", "stopped"}
    BY <1>9 DEF StopStep, StopRemote, StopCloud, StopFlush, ClientWrite, AgentWrite, TypeOK
  <2> QED
    BY <2>1, <2>2 DEF TypeOK, clientVars
<1>10. CASE AgentStep
  <2>1. UNCHANGED <<cfg, pc, req, exit, conn, stopper>>
    BY <1>10 DEF AgentStep, AgentTerm, AgentDrained, AgentFlush, AgentCrash, clientVars
  <2>2. rpc' \in [Reqs -> Calls]
    BY <1>10 DEF AgentStep, AgentTerm, AgentDrained, AgentFlush, AgentCrash, clientVars,
       TypeOK, Calls
  <2>3. agent' \in {"serving", "draining", "flushing"}
    BY <1>10 DEF AgentStep, AgentTerm, AgentDrained, AgentFlush, AgentCrash, TypeOK
  <2>4. crashes' \in 0..MaxCrashes
    <3>1. crashes' = crashes \/ (crashes' = crashes + 1 /\ crashes < MaxCrashes)
      BY <1>10 DEF AgentStep, AgentTerm, AgentDrained, AgentFlush, AgentCrash
    <3>2. crashes \in 0..MaxCrashes /\ MaxCrashes \in Nat
      BY ClientAssumption DEF TypeOK
    <3> QED
      BY <3>1, <3>2
  <2> QED
    BY <2>1, <2>2, <2>3, <2>4 DEF TypeOK
<1>11. CASE UNCHANGED vars
  BY <1>11 DEF vars, clientVars, TypeOK
<1> QED
  BY <1>1, <1>2, <1>3, <1>4, <1>5, <1>6, <1>7, <1>8, <1>9, <1>10, <1>11
  DEF Next, CallStep

-----------------------------------------------------------------------------
(* What the steps of a call, of the agent and of the loggers do to the     *)
(* state that the invariant is about.                                      *)

LEMMA FinishEffect ==
  ASSUME TypeOK, NEW r \in Reqs, NEW why, Finish(r, why)
  PROVE  /\ \A s \in Reqs : s # r => pc'[s] = pc[s] /\ exit'[s] = exit[s]
         /\ why = "panic" => pc'[r] = "panicked" /\ exit'[r] = "none"
         /\ why # "panic" => pc'[r] = "returned" /\ exit'[r] = why
BY DEF TypeOK, Finish

LEMMA GoOnEffect ==
  ASSUME TypeOK, NEW r \in Reqs, NEW next, GoOn(r, next)
  PROVE  /\ \A s \in Reqs : s # r => pc'[s] = pc[s] /\ exit'[s] = exit[s]
         /\ pc'[r] = next
         /\ exit'[r] = IF next = "returned" THEN "complete" ELSE exit[r]
<1>1. CASE next = "returned"
  BY <1>1, FinishEffect DEF GoOn
<1>2. CASE next # "returned"
  BY <1>2 DEF TypeOK, GoOn
<1> QED
  BY <1>1, <1>2

(* Stored entries stay stored.                                             *)
LEMMA StoredGrows ==
  ASSUME TypeOK, [Next]_vars
  PROVE  clStored \subseteq clStored' /\ agStored \subseteq agStored'
<1>1. CLP!Step => clStored \subseteq clStored'
  BY DEF CLP!Step, CLP!Process, CLP!LogAsync, CLP!LogSync, CLP!Write, CLP!StopCall,
     CLP!StopNext, CLP!FlushCall, CLP!FlushReturn, CLP!StopReturn, CLP!Crash, CLP!clvars
<1>2. AGP!Step => agStored \subseteq agStored'
  BY DEF AGP!Step, AGP!Process, AGP!LogAsync, AGP!LogSync, AGP!Write, AGP!StopCall,
     AGP!StopNext, AGP!FlushCall, AGP!FlushReturn, AGP!StopReturn, AGP!Crash, AGP!clvars
<1> QED
  BY <1>1, <1>2, ClientCloudStep, AgentCloudStep

(* A call keeps its part of the invariant while it does not move, though   *)
(* its call to the agent may be cut off.                                   *)
LEMMA CallFrame ==
  ASSUME NEW s \in Reqs, VettedFirst(s), StoredBehind(s), cfg' = cfg,
         clStored \subseteq clStored', agStored \subseteq agStored',
         pc'[s] = pc[s], req'[s] = req[s], exit'[s] = exit[s],
         rpc'[s] = rpc[s] \/ (rpc[s] # "none" /\ rpc'[s] = "broken")
  PROVE  VettedFirst(s)' /\ StoredBehind(s)'
<1>1. EntryOf(s)' = EntryOf(s)
  BY DEF EntryOf
<1>2. VettedFirst(s)'
  BY <1>1 DEF VettedFirst, Vetted, HandedOver, Unfiltered
<1>3. \A b : StoredAt(b, s) => StoredAt(b, s)'
  BY <1>1 DEF StoredAt
<1>4. Durable(s) => Durable(s)'
  BY <1>3 DEF Durable
<1> QED
  BY <1>2, <1>3, <1>4 DEF StoredBehind

(* Entries keep theirs when new ones are those of calls handed over.       *)
LEMMA EntriesFrame ==
  ASSUME TypeOK, EntriesInv, cfg' = cfg,
         \A s \in Reqs : HandedOver(s) => HandedOver(s)' /\ req'[s] = req[s],
         \A e \in Entries' : e \in Entries \/ \E s \in Reqs :
           e = EntryOf(s) /\ req'[s] = req[s] /\ Vetted(e) /\ HandedOver(s)'
  PROVE  EntriesInv'
<1>1. \A e \in Entries : e.id \in Reqs
  BY DEF Entries, TypeOK, CL!TypeOK, AG!TypeOK, Entry
<1>2. \A e : Vetted(e) => Vetted(e)'
  BY DEF Vetted
<1>3. \A s \in Reqs : req'[s] = req[s] => EntryOf(s)' = EntryOf(s)
  BY DEF EntryOf
<1>4. \A s \in Reqs : EntryOf(s).id = s
  BY DEF EntryOf
<1> SUFFICES ASSUME NEW e \in Entries'
             PROVE  e = EntryOf(e.id)' /\ Vetted(e)' /\ HandedOver(e.id)'
  BY DEF EntriesInv
<1>5. CASE e \in Entries
  BY <1>1, <1>2, <1>3, <1>5 DEF EntriesInv
<1>6. ASSUME NEW s \in Reqs, e = EntryOf(s), req'[s] = req[s], Vetted(e), HandedOver(s)'
      PROVE  e = EntryOf(e.id)' /\ Vetted(e)' /\ HandedOver(e.id)'
  BY <1>2, <1>3, <1>4, <1>6
<1> QED
  BY <1>5, <1>6

LEMMA InvInit == Init => IInv
<1> SUFFICES ASSUME Init PROVE IInv
  OBVIOUS
<1>1. TypeOK
  BY TypeInit
<1>2. EntriesInv
  BY DEF Init, CL!Init, AG!Init, CL!Fresh, AG!Fresh, EntriesInv, Entries
<1>3. \A r \in Reqs : VettedFirst(r) /\ StoredBehind(r)
  BY DEF Init, VettedFirst, StoredBehind
<1> QED
  BY <1>1, <1>2, <1>3 DEF IInv

(* The rest of the state stays as it is while call r moves: what is left   *)
(* to show is about r itself and about entries that are new.               *)
LEMMA CallMoves ==
  ASSUME IInv, [Next]_vars, NEW r \in Reqs, cfg' = cfg,
         \A s \in Reqs : s # r => /\ pc'[s] = pc[s] /\ req'[s] = req[s]
                                  /\ exit'[s] = exit[s] /\ rpc'[s] = rpc[s],
         HandedOver(r) => HandedOver(r)' /\ req'[r] = req[r],
         \A e \in Entries' : e \in Entries \/
           (e = EntryOf(r) /\ req'[r] = req[r] /\ Vetted(e) /\ HandedOver(r)'),
         VettedFirst(r)', StoredBehind(r)'
  PROVE  IInv'
<1>1. TypeOK'
  BY TypeStep DEF IInv
<1>2. \A s \in Reqs : s # r => VettedFirst(s)' /\ StoredBehind(s)'
  BY StoredGrows, CallFrame DEF IInv
<1>3. \A s \in Reqs : HandedOver(s) => HandedOver(s)' /\ req'[s] = req[s]
  BY DEF HandedOver
<1>4. EntriesInv'
  BY <1>3, EntriesFrame DEF IInv
<1> QED
  BY <1>1, <1>2, <1>4 DEF IInv

(* Only the loggers' own steps change what they hold.                      *)
LEMMA SameEntries == UNCHANGED <<clVars, agVars>> => Entries' = Entries
BY DEF clVars, agVars, Entries

(* A call that ends before any backend has seen its request.               *)
LEMMA EndsEarly ==
  ASSUME IInv, NEW r \in Reqs, NEW why,
         pc[r] \in {"idle", "validators", "mutators", "remote"},
         Finish(r, why), why \in {"dropped", "swallowed", "error", "panic"},
         cfg' = cfg, rpc' = rpc,
         why = "dropped" => Dropped(cfg, req'[r]),
         why = "error" => ShouldFailClose(req'[r].mode),
         why = "swallowed" => ~ ShouldFailClose(req'[r].mode)
  PROVE  VettedFirst(r)' /\ StoredBehind(r)'
<1>1. rpc[r] = "none"
  BY DEF IInv, VettedFirst, HandedOver
<1> QED
  BY <1>1, FinishEffect DEF IInv, VettedFirst, StoredBehind

(* What a list of processors leaves of a call: it goes on with the request *)
(* as they leave it, or it ends.                                           *)
LEMMA ProcessorsMove ==
  ASSUME IInv, [Next]_vars, NEW r \in Reqs, NEW res, NEW next \in Stages,
         NEW stage \in {"validators", "mutators"},
         RunProcessors(r, stage, res, next),
         SameCore(res.req, req[r]),
         res.err = "ErrPreconditionFailed" => Dropped(cfg, req[r]),
         res.err = "nil" => /\ next = "mutators" => VettedFirst(r)'
                            /\ next # "mutators" => Vetted(EntryOf(r)')
                            /\ next \in {"mutators", "remote", "cloudlogging", "returned"}
                            /\ next = "cloudlogging" => "remote" \notin cfg.backends
                            /\ next = "returned" => cfg.backends = {}
  PROVE  IInv'
<1>1. /\ pc[r] \in {"validators", "mutators"} /\ ~ HandedOver(r) /\ rpc[r] = "none"
      /\ exit[r] = "none"
  BY DEF RunProcessors, HandedOver, IInv, VettedFirst, StoredBehind
<1>2. /\ UNCHANGED <<cfg, rpc>>
      /\ Entries' = Entries
      /\ \A s \in Reqs : s # r => req'[s] = req[s]
      /\ req'[r] = res.req
  BY SameEntries DEF RunProcessors, IInv, TypeOK
<1>3. CASE res.err = "nil"
  <2>1. GoOn(r, next)
    BY <1>3 DEF RunProcessors
  <2>2. /\ \A s \in Reqs : s # r => pc'[s] = pc[s] /\ exit'[s] = exit[s]
        /\ pc'[r] = next
        /\ exit'[r] = IF next = "returned" THEN "complete" ELSE "none"
    BY <1>1, <2>1, GoOnEffect DEF IInv
  <2>3. VettedFirst(r)'
    <3>1. CASE next = "mutators"
      BY <1>3, <3>1
    <3>2. CASE next # "mutators"
      <4>1. Vetted(EntryOf(r))'
        BY <1>2, <1>3, <3>2 DEF Vetted
      <4> QED
        BY <1>1, <1>2, <1>3, <2>2, <3>2, <4>1 DEF VettedFirst
    <3> QED
      BY <3>1, <3>2
  <2>4. StoredBehind(r)'
    BY <1>1, <1>2, <1>3, <2>2 DEF StoredBehind, Durable
  <2> QED
    BY <1>1, <1>2, <2>2, <2>3, <2>4, CallMoves
<1>4. CASE res.err # "nil"
  <2> DEFINE why == IF res.err = "panic" THEN "panic" ELSE ExitFor(res.err, res.req.mode)
  <2>1. Finish(r, why)
    BY <1>4 DEF RunProcessors
  <2>2. /\ why \in {"dropped", "swallowed", "error", "panic"}
        /\ why = "dropped" => Dropped(cfg, req'[r])
        /\ why = "error" => ShouldFailClose(req'[r].mode)
        /\ why = "swallowed" => ~ ShouldFailClose(req'[r].mode)
    BY <1>2, CoreDecides DEF ExitFor, handleReturn
  <2> HIDE DEF why
  <2>3. VettedFirst(r)' /\ StoredBehind(r)'
    BY <1>1, <1>2, <2>1, <2>2, EndsEarly
  <2>4. \A s \in Reqs : s # r => pc'[s] = pc[s] /\ exit'[s] = exit[s]
    BY <2>1, FinishEffect DEF IInv
  <2> QED
    BY <1>1, <1>2, <2>3, <2>4, CallMoves
<1> QED
  BY <1>3, <1>4

LEMMA LogStep ==
  ASSUME IInv, [Next]_vars, NEW r \in Reqs, Log(r)
  PROVE  IInv'
<1>1. pc[r] = "idle" /\ ~ HandedOver(r) /\ rpc[r] = "none" /\ exit[r] = "none"
  BY DEF Log, HandedOver, IInv, VettedFirst, StoredBehind
<1>2. /\ UNCHANGED <<cfg, rpc>>
      /\ Entries' = Entries
      /\ \A s \in Reqs : s # r => req'[s] = req[s]
  BY SameEntries DEF Log, IInv, TypeOK
<1>3. CASE req[r].shape = "nil request"
  <2>1. Finish(r, "panic")
    BY <1>3 DEF Log
  <2>2. VettedFirst(r)' /\ StoredBehind(r)'
    BY <1>1, <1>2, <2>1, EndsEarly
  <2>3. \A s \in Reqs : s # r => pc'[s] = pc[s] /\ exit'[s] = exit[s]
    BY <2>1, FinishEffect DEF IInv
  <2> QED
    BY <1>1, <1>2, <2>2, <2>3, CallMoves
<1>4. CASE req[r].shape # "nil request"
  <2>1. /\ \A s \in Reqs : s # r => pc'[s] = pc[s]
        /\ pc'[r] = "validators"
        /\ exit' = exit
    BY <1>4 DEF Log, IInv, TypeOK
  <2>2. VettedFirst(r)' /\ StoredBehind(r)'
    BY <1>1, <1>2, <2>1 DEF VettedFirst, StoredBehind
  <2> QED
    BY <1>1, <1>2, <2>1, <2>2, CallMoves
<1> QED
  BY <1>3, <1>4

LEMMA ValidatorsStep ==
  ASSUME IInv, [Next]_vars, NEW r \in Reqs, RunValidators(r)
  PROVE  IInv'
<1> DEFINE res == Validators(cfg, req[r])
<1>1. /\ res.req = req[r]
      /\ res.err = "nil" => ValidateAuditLog(req[r]) /\ Unfiltered(cfg, req[r])
      /\ res.err = "ErrPreconditionFailed" => Dropped(cfg, req[r])
  BY ValidatorsResult, ConfigType DEF IInv, TypeOK
<1>2. RunProcessors(r, "validators", res, "mutators") /\ SameCore(res.req, req[r])
  BY <1>1 DEF RunValidators, SameCore
<1> HIDE DEF res
<1>3. ASSUME res.err = "nil" PROVE VettedFirst(r)'
  <2>1. GoOn(r, "mutators") /\ req'[r] = req[r] /\ cfg' = cfg /\ rpc' = rpc /\ rpc[r] = "none"
    BY <1>1, <1>2, <1>3 DEF RunProcessors, IInv, TypeOK, VettedFirst, HandedOver
  <2>2. pc'[r] = "mutators"
    BY <2>1, GoOnEffect DEF IInv
  <2> QED
    BY <1>1, <1>3, <2>1, <2>2 DEF VettedFirst, Unfiltered
<1> QED
  BY <1>1, <1>2, <1>3, ProcessorsMove DEF Stages

LEMMA MutatorsStep ==
  ASSUME IInv, [Next]_vars, NEW r \in Reqs, RunMutators(r)
  PROVE  IInv'
<1> DEFINE res == Mutators(cfg, req[r])
<1>1. /\ res.err # "ErrPreconditionFailed"
      /\ SameCore(res.req, req[r])
      /\ res.err = "nil" => Completed(cfg, res.req)
  BY MutatorsResult, ConfigType DEF IInv, TypeOK
<1>2. RunProcessors(r, "mutators", res, AfterMutators)
  BY DEF RunMutators
<1> HIDE DEF res
<1>3. ASSUME res.err = "nil" PROVE Vetted(EntryOf(r)')
  <2>1. ValidateAuditLog(res.req) /\ Unfiltered(cfg, res.req)
    BY <1>1, <1>2, CoreDecides DEF RunProcessors, IInv, VettedFirst
  <2>2. EntryOf(r)'.body = res.req
    BY <1>2 DEF RunProcessors, EntryOf, IInv, TypeOK
  <2> QED
    BY <1>1, <1>3, <2>1, <2>2 DEF Vetted, Unfiltered, Completed
<1>4. /\ AfterMutators \in Stages
      /\ AfterMutators # "mutators"
      /\ AfterMutators \in {"remote", "cloudlogging", "returned"}
      /\ AfterMutators = "cloudlogging" => "remote" \notin cfg.backends
      /\ AfterMutators = "returned" => cfg.backends = {}
  BY ConfigType DEF AfterMutators, AfterRemote, Stages, IInv, Configuration
<1> QED
  BY <1>1, <1>2, <1>3, <1>4, ProcessorsMove

(* The credentials cannot be had, or the call is sent: in either case no   *)
(* entry exists yet.                                                       *)
LEMMA RemoteCallStep ==
  ASSUME IInv, [Next]_vars, NEW r \in Reqs, RemoteCall(r)
  PROVE  IInv'
<1>1. /\ pc[r] = "remote" /\ ~ HandedOver(r) /\ rpc[r] = "none" /\ exit[r] = "none"
      /\ Vetted(EntryOf(r))
  BY DEF RemoteCall, HandedOver, IInv, VettedFirst, StoredBehind
<1>2. UNCHANGED <<cfg, req>> /\ Entries' = Entries
  BY SameEntries DEF RemoteCall
<1>3. CASE Finish(r, handleReturn(req[r].mode)) /\ rpc' = rpc
  <2>1. VettedFirst(r)' /\ StoredBehind(r)'
    BY <1>1, <1>2, <1>3, EndsEarly DEF handleReturn
  <2>2. \A s \in Reqs : s # r => pc'[s] = pc[s] /\ exit'[s] = exit[s]
    BY <1>3, FinishEffect DEF IInv
  <2> QED
    BY <1>1, <1>2, <1>3, <2>1, <2>2, CallMoves
<1>4. CASE /\ pc' = [pc EXCEPT ![r] = "calling"]
           /\ rpc' = [rpc EXCEPT ![r] = "sent"]
           /\ exit' = exit
  <2>1. /\ pc'[r] = "calling" /\ rpc'[r] = "sent"
        /\ \A s \in Reqs : s # r => pc'[s] = pc[s] /\ rpc'[s] = rpc[s]
    BY <1>4 DEF IInv, TypeOK
  <2>2. Vetted(EntryOf(r))'
    BY <1>1, <1>2 DEF Vetted, EntryOf
  <2>3. VettedFirst(r)' /\ StoredBehind(r)'
    BY <1>1, <1>2, <1>4, <2>1, <2>2 DEF VettedFirst, StoredBehind, HandedOver
  <2> QED
    BY <1>1, <1>2, <1>4, <2>1, <2>3, CallMoves
<1> QED
  BY <1>3, <1>4 DEF RemoteCall

(* The answer of the agent, or a failure of the call on this side.         *)
LEMMA CallEndsStep ==
  ASSUME IInv, [Next]_vars, NEW r \in Reqs, CallReturns(r) \/ CallFails(r)
  PROVE  IInv'
<1>1. pc[r] = "calling" /\ Vetted(EntryOf(r)) /\ exit[r] = "none"
  BY DEF CallReturns, CallFails, IInv, VettedFirst, StoredBehind
<1>2. UNCHANGED <<cfg, req, rpc, clStored, agStored>> /\ Entries' = Entries
  BY SameEntries DEF CallReturns, CallFails, clVars, agVars
<1>3. EntryOf(r)' = EntryOf(r) /\ Vetted(EntryOf(r))'
  BY <1>1, <1>2 DEF EntryOf, Vetted
<1>4. CASE Finish(r, handleReturn(req[r].mode))
  <2>1. /\ pc'[r] = "returned" /\ exit'[r] = handleReturn(req[r].mode)
        /\ \A s \in Reqs : s # r => pc'[s] = pc[s] /\ exit'[s] = exit[s]
    BY <1>4, FinishEffect DEF IInv, handleReturn
  <2>2. HandedOver(r)' /\ VettedFirst(r)'
    BY <1>2, <1>3, <2>1 DEF HandedOver, VettedFirst, handleReturn
  <2>3. StoredBehind(r)'
    BY <1>2, <1>3, <2>1 DEF IInv, StoredBehind, StoredAt, handleReturn
  <2> QED
    BY <1>2, <2>1, <2>2, <2>3, CallMoves
<1>5. CASE rpc[r] = "ok" /\ GoOn(r, AfterRemote)
  <2>1. /\ pc'[r] = AfterRemote
        /\ exit'[r] = IF AfterRemote = "returned" THEN "complete" ELSE "none"
        /\ \A s \in Reqs : s # r => pc'[s] = pc[s] /\ exit'[s] = exit[s]
    BY <1>1, <1>5, GoOnEffect DEF IInv
  <2>2. HandedOver(r)' /\ VettedFirst(r)'
    BY <1>2, <1>3, <2>1 DEF HandedOver, VettedFirst, AfterRemote
  <2>3. ShouldFailClose(req[r].mode) => StoredAt("remote", r)'
    BY <1>2, <1>3, <1>5 DEF IInv, StoredBehind, StoredAt
  <2>4. AfterRemote = "returned" => cfg.backends \subseteq {"remote"}
    BY ConfigType DEF AfterRemote, IInv, Configuration
  <2>5. StoredBehind(r)'
    BY <1>2, <1>3, <1>5, <2>1, <2>3, <2>4
    DEF IInv, StoredBehind, Durable, AfterRemote
  <2> QED
    BY <1>2, <2>1, <2>2, <2>5, CallMoves
<1> QED
  BY <1>4, <1>5 DEF CallReturns, CallFails

(* What Process of the Cloud Logging backend does with an entry.           *)
LEMMA CloudProcessEffect ==
  ASSUME NEW d, NEW m, NEW e, NEW err, CL!Process(d, m, e, err)
  PROVE  /\ clStored' \cup clBuffer' \subseteq clStored \cup clBuffer \cup {e}
         /\ ShouldFailClose(m) /\ err = "nil" => e \in clStored'
BY DEF CL!Process, CL!BestEffort, CL!LogAsync, CL!LogSync, ShouldFailClose

(* The agent's processor has the default mode, which is not best effort.   *)
LEMMA AgentProcessEffect ==
  ASSUME NEW m, NEW e, NEW err, AG!Process(FALSE, m, e, err)
  PROVE  /\ agStored' \cup agBuffer' \subseteq agStored \cup agBuffer \cup {e}
         /\ ShouldFailClose(m) /\ err = "nil" => e \in agStored'
BY DEF AG!Process, AG!BestEffort, AG!LogAsync, AG!LogSync, ShouldFailClose

LEMMA CloudStep ==
  ASSUME IInv, [Next]_vars, NEW r \in Reqs, CloudProcess(r)
  PROVE  IInv'
<1>1. pc[r] = "cloudlogging" /\ Vetted(EntryOf(r)) /\ exit[r] = "none"
  BY DEF CloudProcess, IInv, VettedFirst, StoredBehind
<1>2. UNCHANGED <<cfg, req, rpc, agStored, agBuffer>>
  BY DEF CloudProcess, agVars
<1>3. EntryOf(r)' = EntryOf(r) /\ Vetted(EntryOf(r))'
  BY <1>1, <1>2 DEF EntryOf, Vetted
<1> DEFINE why(err) == IF err = "nil" THEN "complete" ELSE handleReturn(req[r].mode)
<1>4. PICK err \in {"nil", "error"} :
        /\ CL!Process(cfg.bestEffort, req[r].mode, EntryOf(r), err)
        /\ Finish(r, why(err))
  BY DEF CloudProcess
<1>5. /\ pc'[r] = "returned" /\ exit'[r] = why(err)
      /\ \A s \in Reqs : s # r => pc'[s] = pc[s] /\ exit'[s] = exit[s]
  BY <1>4, FinishEffect DEF IInv, handleReturn
<1>6. HandedOver(r)' /\ VettedFirst(r)'
  BY <1>2, <1>3, <1>5 DEF HandedOver, VettedFirst, handleReturn
<1>7. \A e \in Entries' : e \in Entries \/ e = EntryOf(r)
  BY <1>2, <1>4, CloudProcessEffect DEF Entries
<1>8. ASSUME ShouldFailClose(req[r].mode), err = "nil" PROVE Durable(r)'
  <2>1. EntryOf(r)' \in clStored'
    BY <1>3, <1>4, <1>8, CloudProcessEffect
  <2>2. "remote" \in cfg.backends => EntryOf(r)' \in agStored'
    BY <1>1, <1>2, <1>3, <1>8 DEF IInv, StoredBehind, StoredAt
  <2>3. cfg.backends \subseteq {"remote", "cloudlogging"}
    BY ConfigType DEF IInv, Configuration
  <2> QED
    BY <1>2, <2>1, <2>2, <2>3 DEF Durable, StoredAt
<1>9. StoredBehind(r)'
  <2>1. StoredAt("remote", r) => StoredAt("remote", r)'
    BY <1>2, <1>3 DEF StoredAt
  <2> QED
    BY <1>2, <1>5, <1>8, <2>1 DEF IInv, StoredBehind, handleReturn
<1> QED
  BY <1>1, <1>2, <1>5, <1>6, <1>7, <1>9, CallMoves

(* The agent handles a request, which its caller may have given up.        *)
LEMMA HandlerStepInv ==
  ASSUME IInv, [Next]_vars, NEW r \in Reqs, HandlerStep(r)
  PROVE  IInv'
<1>1. rpc[r] # "none" /\ Vetted(EntryOf(r)) /\ HandedOver(r)
  BY DEF HandlerStep, AgentReceive, ProcessLog, IInv, VettedFirst
<1>2. /\ UNCHANGED <<cfg, pc, req, exit, clStored, clBuffer>>
      /\ \A s \in Reqs : s # r => rpc'[s] = rpc[s]
  BY DEF HandlerStep, AgentReceive, ProcessLog, clVars, IInv, TypeOK
<1>3. HandedOver(r)' /\ EntryOf(r)' = EntryOf(r) /\ Vetted(EntryOf(r))'
  BY <1>1, <1>2 DEF HandedOver, EntryOf, Vetted
<1>4. CASE AgentReceive(r)
  <2>1. rpc'[r] = "handling" /\ UNCHANGED <<agStored, agBuffer>>
    BY <1>4 DEF AgentReceive, agVars, IInv, TypeOK
  <2>2. VettedFirst(r)'
    BY <1>2, <1>3, <2>1 DEF IInv, VettedFirst, HandedOver
  <2>3. StoredBehind(r)'
    BY <1>2, <1>3, <2>1 DEF IInv, StoredBehind, Durable, StoredAt
  <2> QED
    BY <1>2, <1>3, <2>1, <2>2, <2>3, CallMoves DEF Entries
<1>5. CASE ProcessLog(r)
  <2>1. RequestValidator(req[r]).err = "nil"
    BY <1>1 DEF Vetted, EntryOf, RequestValidator, Pass
  <2>2. PICK err \in {"nil", "error"} :
          /\ AG!Process(FALSE, req[r].mode, EntryOf(r), err)
          /\ rpc' = [rpc EXCEPT ![r] =
               IF err # "nil" /\ handleReturn(req[r].mode) = "error"
               THEN "error" ELSE "ok"]
    BY <1>5, <2>1 DEF ProcessLog
  <2>3. /\ rpc'[r] \in {"ok", "error"}
        /\ rpc'[r] = "error" => ShouldFailClose(req[r].mode)
        /\ rpc'[r] = "ok" /\ ShouldFailClose(req[r].mode) => err = "nil"
    BY <2>2 DEF IInv, TypeOK, handleReturn
  <2>4. rpc'[r] = "ok" /\ ShouldFailClose(req[r].mode) => EntryOf(r) \in agStored'
    BY <2>2, <2>3, AgentProcessEffect
  <2>5. \A e \in Entries' : e \in Entries \/ e = EntryOf(r)
    BY <1>2, <2>2, AgentProcessEffect DEF Entries
  <2>6. VettedFirst(r)'
    BY <1>2, <1>3, <2>3 DEF IInv, VettedFirst, HandedOver
  <2>7. StoredBehind(r)'
    <3>1. \A b : StoredAt(b, r) => StoredAt(b, r)'
      BY <1>3, StoredGrows DEF IInv, StoredAt
    <3>2. Durable(r) => Durable(r)'
      BY <1>2, <3>1 DEF Durable
    <3>3. rpc'[r] = "ok" /\ ShouldFailClose(req[r].mode) => StoredAt("remote", r)'
      BY <1>3, <2>4 DEF StoredAt
    <3> QED
      BY <1>2, <2>3, <3>1, <3>2, <3>3 DEF IInv, StoredBehind
  <2> QED
    BY <1>1, <1>2, <1>3, <2>5, <2>6, <2>7, CallMoves
<1> QED
  BY <1>4, <1>5 DEF HandlerStep

(* Steps in which no call moves: entries are written, flushed or lost, and *)
(* calls to the agent cut off.                                             *)
LEMMA OtherStep ==
  ASSUME IInv, [Next]_vars,
         StopStep \/ ClientWrite \/ AgentWrite \/ AgentStep \/ UNCHANGED vars
  PROVE  IInv'
<1>1. UNCHANGED <<cfg, pc, req, exit>>
  BY DEF StopStep, StopRemote, StopCloud, StopFlush, ClientWrite, AgentWrite, AgentStep,
     AgentTerm, AgentDrained, AgentFlush, AgentCrash, vars, clientVars
<1>2. \A s \in Reqs : rpc'[s] = rpc[s] \/ (rpc[s] # "none" /\ rpc'[s] = "broken")
  BY DEF StopStep, StopRemote, StopCloud, StopFlush, ClientWrite, AgentWrite, AgentStep,
     AgentTerm, AgentDrained, AgentFlush, AgentCrash, vars, clientVars
<1>3. clStored' \cup clBuffer' \subseteq clStored \cup clBuffer
  BY DEF StopStep, StopRemote, StopCloud, StopFlush, ClientWrite, AgentWrite, AgentStep,
     AgentTerm, AgentDrained, AgentFlush, AgentCrash, vars, clVars, CL!Write, CL!StopCall,
     CL!StopNext, CL!FlushCall, CL!FlushReturn, CL!StopReturn
<1>4. agStored' \cup agBuffer' \subseteq agStored \cup agBuffer
  BY DEF StopStep, StopRemote, StopCloud, StopFlush, ClientWrite, AgentWrite, AgentStep,
     AgentTerm, AgentDrained, AgentFlush, AgentCrash, vars, agVars, AG!Write, AG!StopCall,
     AG!StopNext, AG!FlushCall, AG!FlushReturn, AG!StopReturn, AG!Crash, AG!Fresh
<1>5. \A s \in Reqs : VettedFirst(s)' /\ StoredBehind(s)'
  BY <1>1, <1>2, StoredGrows, CallFrame DEF IInv
<1>6. EntriesInv'
  <2>1. \A s \in Reqs : HandedOver(s) => HandedOver(s)' /\ req'[s] = req[s]
    BY <1>1 DEF HandedOver
  <2>2. Entries' \subseteq Entries
    BY <1>3, <1>4 DEF Entries
  <2> QED
    BY <1>1, <2>1, <2>2, EntriesFrame DEF IInv
<1> QED
  BY <1>5, <1>6, TypeStep DEF IInv

LEMMA InvStep == IInv /\ [Next]_vars => IInv'
BY LogStep, ValidatorsStep, MutatorsStep, RemoteCallStep, CallEndsStep, CloudStep,
   HandlerStepInv, OtherStep DEF Next, CallStep

-----------------------------------------------------------------------------

(* The client, its backends and the agent keep to their types.             *)
THEOREM TypeCorrect == Spec => []TypeOK
BY TypeInit, TypeStep, PTL DEF Spec

(* A fail-close call of Client.Log that returned nil was filtered out or   *)
(* is stored by every backend, for any number of callers, any requests and *)
(* configurations and any number of agent crashes.                         *)
THEOREM FailCloseDurableCorrect == Spec => []FailCloseDurable
<1>1. IInv => FailCloseDurable
  <2> SUFFICES ASSUME IInv, NEW r \in Reqs, ReturnedNil(r), ShouldFailClose(req[r].mode)
               PROVE  (exit[r] = "dropped" /\ Dropped(cfg, req[r])) \/ Durable(r)
    BY DEF FailCloseDurable
  <2>1. exit[r] \in {"complete", "dropped"}
    BY DEF IInv, TypeOK, Exits, ReturnedNil, StoredBehind
  <2> QED
    BY <2>1 DEF IInv, StoredBehind
<1> QED
  BY <1>1, InvInit, InvStep, PTL DEF Spec

(* Whatever a logger of this process or of the agent holds or has written  *)
(* passed the validators and the mutators of Client.Log.                   *)
THEOREM OnlyVettedEntriesCorrect == Spec => []OnlyVettedEntries
<1>1. IInv => OnlyVettedEntries
  BY DEF IInv, EntriesInv, Entries, OnlyVettedEntries
<1> QED
  BY <1>1, InvInit, InvStep, PTL DEF Spec

-----------------------------------------------------------------------------
(* The shutdown of the agent.                                              *)

(* Stop of the agent's processor starts when no handler runs, and nothing  *)
(* is accepted from then on: what is due is all that was accepted.         *)
ShutdownInv ==
  /\ AGP!StopInv
  /\ agStop.pc # "running" => agent = "flushing"
  /\ agent = "flushing" =>
       agStop.due = agAccepted /\ \A r \in Reqs : rpc[r] # "handling"

LEMMA ShutdownInit == Init => ShutdownInv
BY DEF Init, AG!Init, AG!Fresh, ShutdownInv, AGP!StopInv

LEMMA ShutdownStep == TypeOK /\ ShutdownInv /\ [Next]_vars => ShutdownInv'
<1> SUFFICES ASSUME TypeOK, ShutdownInv, [Next]_vars PROVE ShutdownInv'
  OBVIOUS
<1>1. AGP!StopInv'
  <2>1. AGP!TypeOK
    BY DEF TypeOK, AG!TypeOK, AGP!TypeOK, AG!Stopping, AGP!Stopping
  <2> QED
    BY <2>1, EntryTyped, AgentCloudStep, AGP!StopInvStep DEF ShutdownInv
<1>2. CASE UNCHANGED <<agStop, agAccepted, agent>> /\
           \A r \in Reqs : rpc'[r] # "handling" \/ rpc'[r] = rpc[r]
  BY <1>1, <1>2 DEF ShutdownInv
<1>3. ASSUME NEW r \in Reqs, CallStep(r) PROVE ShutdownInv'
  <2>1. UNCHANGED <<agStop, agAccepted, agent>>
    BY <1>3 DEF CallStep, Log, RunValidators, RunMutators, RunProcessors, RemoteCall,
       CallReturns, CallFails, CloudProcess, agVars
  <2>2. rpc' = rpc \/ rpc' = [rpc EXCEPT ![r] = "sent"]
    BY <1>3 DEF CallStep, Log, RunValidators, RunMutators, RunProcessors, RemoteCall,
       CallReturns, CallFails, CloudProcess
  <2> QED
    BY <1>2, <2>1, <2>2 DEF TypeOK
<1>4. ASSUME NEW r \in Reqs, HandlerStep(r) PROVE ShutdownInv'
  <2>1. agent # "flushing" /\ agent' = agent
    BY <1>4 DEF HandlerStep, AgentReceive, ProcessLog, ShutdownInv
  <2>2. agStop' = agStop
    BY <1>4 DEF HandlerStep, AgentReceive, ProcessLog, agVars, AG!Process, AG!LogAsync,
       AG!LogSync
  <2> QED
    BY <1>1, <2>1, <2>2 DEF ShutdownInv
<1>5. CASE StopStep \/ ClientWrite \/ UNCHANGED vars
  BY <1>2, <1>5 DEF StopStep, StopRemote, StopCloud, StopFlush, ClientWrite, vars,
     clientVars, agVars
<1>6. CASE AgentWrite
  BY <1>2, <1>6 DEF AgentWrite, AG!Write, clientVars
<1>7. CASE AgentTerm
  BY <1>1, <1>7 DEF AgentTerm, ShutdownInv, agVars
<1>8. CASE AgentDrained
  BY <1>1, <1>8 DEF AgentDrained, AG!StopCall, ShutdownInv, TypeOK, AG!TypeOK,
     AG!Stopping, clientVars
<1>9. CASE AgentFlush
  BY <1>1, <1>9 DEF AgentFlush, AG!StopNext, AG!FlushCall, AG!FlushReturn, AG!StopReturn,
     ShutdownInv, TypeOK, AG!TypeOK, AG!Stopping, clientVars
<1>10. CASE AgentCrash
  BY <1>1, <1>10 DEF AgentCrash, AG!Crash, AG!Fresh, ShutdownInv
<1> QED
  BY <1>3, <1>4, <1>5, <1>6, <1>7, <1>8, <1>9, <1>10 DEF Next, AgentStep

(* realMain's deferred Stop, behind GracefulStop: an agent that shut down  *)
(* without an error has lost no entry that it acknowledged.                *)
THEOREM AgentShutdownCompleteCorrect == Spec => []AgentShutdownComplete
<1>1. TypeOK /\ ShutdownInv => AgentShutdownComplete
  BY DEF TypeOK, AG!TypeOK, AG!Stopping, ShutdownInv, AGP!StopInv, AGP!Accounted,
     AGP!FlushToCome, AgentShutdownComplete
<1> QED
  BY <1>1, TypeInit, TypeStep, ShutdownInit, ShutdownStep, PTL DEF Spec

-----------------------------------------------------------------------------
(* The client implements AuditLogService.                                  *)

(* A client that was made from config files has a backend.                 *)
LEMMA ConfiguredBackends ==
  ASSUME NEW files, NEW c \in ClientsFrom(files)
  PROVE  c.backends # {}
<1>1. PICK f \in files : loadConfig(f) /\ c = clientFromConfig(f)
  BY DEF ClientsFrom
<1> DEFINE d == SetDefault(f)
<1>2. ValidateBackend(d)
  BY <1>1 DEF loadConfig, Validate
<1>3. c.backends = backendsFromConfig(d)
  BY <1>1 DEF clientFromConfig
<1> HIDE DEF d
<1> QED
  BY <1>2, <1>3 DEF ValidateBackend, backendsFromConfig

(* A nil request ends its call in Log.                                     *)
NilPanics == \A r \in Reqs :
  pc[r] \notin {"idle", "panicked"} => req[r].shape # "nil request"

(* What a step of a call may do to the call: it keeps the mode and the     *)
(* shape of its request once it has begun, and it ends only once.          *)
LEMMA CallEffect ==
  ASSUME IInv, NEW r \in Reqs, CallStep(r)
  PROVE  /\ cfg' = cfg /\ UNCHANGED <<agStored, agBuffer>>
         /\ \A s \in Reqs : s # r => /\ pc'[s] = pc[s] /\ req'[s] = req[s]
                                     /\ exit'[s] = exit[s]
         /\ pc[r] \notin {"panicked", "returned"}
         /\ pc'[r] # "idle"
         /\ req'[r].shape = req[r].shape
         /\ pc[r] # "idle" => req'[r].mode = req[r].mode
         /\ pc[r] = "idle" => pc'[r] = IF req[r].shape = "nil request"
                                       THEN "panicked" ELSE "validators"
         /\ HandedOver(r) => req' = req
         /\ \A e \in clStored' : e \in clStored \/ e = EntryOf(r)
<1>1. CASE Log(r)
  <2>1. cfg' = cfg /\ UNCHANGED <<agStored, agBuffer, clStored>> /\ pc[r] = "idle"
    BY <1>1 DEF Log, clVars, agVars
  <2>2. /\ \A s \in Reqs : s # r => /\ pc'[s] = pc[s] /\ exit'[s] = exit[s]
        /\ pc'[r] = IF req[r].shape = "nil request" THEN "panicked" ELSE "validators"
    BY <1>1, FinishEffect DEF Log, IInv, TypeOK
  <2>3. /\ \A s \in Reqs : s # r => req'[s] = req[s]
        /\ req'[r].shape = req[r].shape
    <3>1. PICK m : req' = req \/ req' = [req EXCEPT ![r] = [req[r] EXCEPT !.mode = m]]
      BY <1>1 DEF Log
    <3>2. [req[r] EXCEPT !.mode = m].shape = req[r].shape
      BY DEF IInv, TypeOK, Request
    <3> DEFINE moded == [req[r] EXCEPT !.mode = m]
    <3> HIDE DEF moded
    <3> QED
      BY <3>1, <3>2 DEF IInv, TypeOK, moded
  <2> QED
    BY <2>1, <2>2, <2>3 DEF HandedOver
<1>2. ASSUME NEW res, NEW next \in Stages \ {"idle"}, NEW stage \in {"validators", "mutators"},
             SameCore(res.req, req[r]), RunProcessors(r, stage, res, next)
      PROVE  /\ cfg' = cfg /\ UNCHANGED <<agStored, agBuffer, clStored>>
             /\ \A s \in Reqs : s # r => /\ pc'[s] = pc[s] /\ req'[s] = req[s]
                                         /\ exit'[s] = exit[s]
             /\ pc[r] \in {"validators", "mutators"}
             /\ pc'[r] # "idle"
             /\ req'[r].shape = req[r].shape /\ req'[r].mode = req[r].mode
  <2>1. \/ GoOn(r, next)
        \/ \E why : Finish(r, why)
    BY <1>2 DEF RunProcessors
  <2>2. /\ \A s \in Reqs : s # r => pc'[s] = pc[s] /\ exit'[s] = exit[s]
        /\ pc'[r] # "idle"
    BY <2>1, GoOnEffect, FinishEffect DEF IInv
  <2> QED
    BY <1>2, <2>2 DEF RunProcessors, IInv, TypeOK, SameCore, clVars, agVars
<1>3. CASE RunValidators(r)
  <2>1. SameCore(Validators(cfg, req[r]).req, req[r])
    BY ValidatorsResult, ConfigType DEF IInv, TypeOK, SameCore
  <2> QED
    BY <1>2, <1>3, <2>1 DEF RunValidators, Stages, HandedOver
<1>4. CASE RunMutators(r)
  <2>1. SameCore(Mutators(cfg, req[r]).req, req[r])
    BY MutatorsResult, ConfigType DEF IInv, TypeOK
  <2>2. AfterMutators \in Stages \ {"idle"}
    BY DEF AfterMutators, AfterRemote, Stages
  <2> QED
    BY <1>2, <1>4, <2>1, <2>2 DEF RunMutators, HandedOver
<1>5. CASE RemoteCall(r)
  <2>1. (pc' = [pc EXCEPT ![r] = "calling"] /\ exit' = exit) \/ \E why : Finish(r, why)
    BY <1>5 DEF RemoteCall
  <2>2. /\ \A s \in Reqs : s # r => pc'[s] = pc[s] /\ exit'[s] = exit[s]
        /\ pc'[r] # "idle"
    BY <2>1, FinishEffect DEF IInv, TypeOK
  <2> QED
    BY <1>5, <2>2 DEF RemoteCall, clVars, agVars
<1>6. CASE CallReturns(r) \/ CallFails(r)
  <2>1. GoOn(r, AfterRemote) \/ \E why : Finish(r, why)
    BY <1>6 DEF CallReturns, CallFails
  <2>2. /\ \A s \in Reqs : s # r => pc'[s] = pc[s] /\ exit'[s] = exit[s]
        /\ pc'[r] # "idle"
    BY <2>1, GoOnEffect, FinishEffect DEF IInv, AfterRemote
  <2> QED
    BY <1>6, <2>2 DEF CallReturns, CallFails, clVars, agVars
<1>7. CASE CloudProcess(r)
  <2>1. \E why : Finish(r, why)
    BY <1>7 DEF CloudProcess
  <2>2. /\ \A s \in Reqs : s # r => pc'[s] = pc[s] /\ exit'[s] = exit[s]
        /\ pc'[r] # "idle"
    BY <2>1, FinishEffect DEF IInv
  <2>3. \A e \in clStored' : e \in clStored \/ e = EntryOf(r)
    BY <1>7 DEF CloudProcess, CL!Process, CL!LogAsync, CL!LogSync
  <2> QED
    BY <1>7, <2>2, <2>3 DEF CloudProcess, agVars
<1> QED
  BY <1>1, <1>3, <1>4, <1>5, <1>6, <1>7 DEF CallStep

LEMMA NilPanicsStep == IInv /\ NilPanics /\ [Next]_vars => NilPanics'
<1> SUFFICES ASSUME IInv, NilPanics, [Next]_vars PROVE NilPanics'
  OBVIOUS
<1>1. ASSUME NEW r \in Reqs, CallStep(r) PROVE NilPanics'
  BY <1>1, CallEffect DEF NilPanics
<1>2. CASE ~ \E r \in Reqs : CallStep(r)
  <2>1. UNCHANGED <<pc, req>>
    BY <1>2 DEF Next, HandlerStep, AgentReceive, ProcessLog, StopStep, StopRemote, StopCloud,
       StopFlush, ClientWrite, AgentWrite, AgentStep, AgentTerm, AgentDrained, AgentFlush,
       AgentCrash, vars, clientVars
  <2> QED
    BY <2>1 DEF NilPanics
<1> QED
  BY <1>1, <1>2

(* Only a call that was handed over can be durable.                        *)
LEMMA DurableHandedOver ==
  ASSUME IInv, NEW r \in Reqs, Durable(r)
  PROVE  HandedOver(r)
<1>1. PICK b \in cfg.backends : StoredAt(b, r)
  BY BackendAssumption DEF IInv, TypeOK, Durable
<1>2. EntryOf(r) \in Entries
  BY <1>1 DEF StoredAt, Entries
<1> QED
  BY <1>2 DEF IInv, EntriesInv, EntryOf

(* A step in which at most call r changes in the eyes of its caller, or    *)
(* becomes durable, told call by call.                                     *)
LEMMA ServiceStep ==
  ASSUME NEW r \in Reqs,
         \A s \in Reqs : s # r => /\ SubmittedMode(s)' = SubmittedMode(s)
                                  /\ Status(s)' = Status(s)
                                  /\ Durable(s)' <=> Durable(s),
         Durable(r) => Durable(r)',
         \/ /\ Status(r)' = Status(r)
            /\ SubmittedMode(r)' = SubmittedMode(r)
            /\ Durable(r)' => Durable(r) \/ Status(r) \notin {"idle", "filtered", "aborted"}
         \/ /\ Status(r) = "idle" /\ Status(r)' = "pending"
            /\ SubmittedMode(r)' \in Modes /\ ~ Durable(r)'
         \/ /\ Status(r) \in {"idle", "pending"} /\ Status(r)' = "aborted"
            /\ SubmittedMode(r)' = SubmittedMode(r) /\ ~ Durable(r)'
         \/ /\ Status(r) = "pending" /\ SubmittedMode(r)' = SubmittedMode(r)
            /\ \/ /\ Status(r)' = "acked"
                  /\ SubmittedMode(r) = "FAIL_CLOSE" => Durable(r)'
               \/ Status(r)' = "failed" /\ SubmittedMode(r) = "FAIL_CLOSE"
               \/ Status(r)' = "filtered" /\ ~ Durable(r)'
  PROVE  [Service!Next]_Service!svars
BY DEF Service!Next, Service!svars, Service!Submit, Service!Persist, Service!Answer,
   Service!Ack, Service!Fail, Service!Filter, Service!Abort, Service!Modes, Modes

(* Entries are told apart by their calls, so a new entry of one call does  *)
(* not make another one durable.                                           *)
LEMMA OthersNotDurable ==
  ASSUME IInv, [Next]_vars, cfg' = cfg, NEW r \in Reqs, NEW s \in Reqs, s # r,
         req'[s] = req[s],
         \A e \in clStored' : e \in clStored \/ e = EntryOf(r),
         \A e \in agStored' : e \in agStored \/ e = EntryOf(r)
  PROVE  Durable(s)' <=> Durable(s)
<1>1. EntryOf(s)' = EntryOf(s) /\ EntryOf(s) # EntryOf(r)
  BY DEF EntryOf
<1>2. \A b : StoredAt(b, s)' <=> StoredAt(b, s)
  BY <1>1, StoredGrows DEF StoredAt, IInv
<1> QED
  BY <1>2 DEF Durable

(* The steps of a call of Log.                                             *)
LEMMA CallRefines ==
  ASSUME IInv, IInv', NilPanics, [Next]_vars, NEW r \in Reqs, CallStep(r)
  PROVE  [Service!Next]_Service!svars
<1> USE CallEffect
<1>1. \A s \in Reqs : s # r => /\ SubmittedMode(s)' = SubmittedMode(s)
                               /\ Status(s)' = Status(s)
                               /\ Durable(s)' <=> Durable(s)
  BY OthersNotDurable DEF SubmittedMode, Status
<1>2. ASSUME Durable(r) PROVE Durable(r)'
  <2>1. EntryOf(r)' = EntryOf(r)
    BY <1>2, DurableHandedOver DEF EntryOf
  <2> QED
    BY <1>2, <2>1, StoredGrows DEF Durable, StoredAt, IInv
<1>3. ASSUME Durable(r)' PROVE HandedOver(r)'
  <2>1. PICK b \in cfg'.backends : StoredAt(b, r)'
    BY <1>3, BackendAssumption DEF IInv, TypeOK, Durable
  <2>2. EntryOf(r)' \in Entries'
    BY <2>1 DEF StoredAt, Entries
  <2>3. EntryOf(r)'.id = r
    BY DEF EntryOf
  <2> QED
    BY <2>2, <2>3 DEF IInv, EntriesInv
<1>4. CASE pc[r] = "idle"
  <2>1. CASE req[r].shape = "nil request"
    <3>1. Status(r) = "idle" /\ Status(r)' = "aborted" /\ ~ Durable(r)'
      BY <1>3, <1>4, <2>1 DEF Status, HandedOver
    <3>2. SubmittedMode(r)' = SubmittedMode(r)
      BY <1>4, <2>1 DEF SubmittedMode
    <3> QED
      BY <1>1, <1>2, <3>1, <3>2, ServiceStep
  <2>2. CASE req[r].shape # "nil request"
    <3>1. Status(r) = "idle" /\ Status(r)' = "pending" /\ ~ Durable(r)'
      BY <1>3, <1>4, <2>2 DEF Status, HandedOver
    <3>2. SubmittedMode(r)' \in Modes
      BY DEF SubmittedMode, IInv, TypeOK, Request, Modes
    <3> QED
      BY <1>1, <1>2, <3>1, <3>2, ServiceStep
  <2> QED
    BY <2>1, <2>2
<1>5. CASE pc[r] # "idle"
  <2>1. /\ Status(r) = "pending"
        /\ SubmittedMode(r)' = SubmittedMode(r)
        /\ SubmittedMode(r)' = req'[r].mode
    BY <1>5 DEF Status, SubmittedMode, NilPanics
  <2>2. CASE pc'[r] = "panicked"
    <3>1. Status(r)' = "aborted" /\ ~ Durable(r)'
      BY <1>3, <2>2 DEF Status, HandedOver
    <3> QED
      BY <1>1, <1>2, <2>1, <3>1, ServiceStep
  <2>3. CASE pc'[r] = "returned"
    <3>1. \/ Status(r)' = "acked" /\ exit'[r] \in {"complete", "swallowed"}
          \/ Status(r)' = "failed" /\ exit'[r] = "error"
          \/ Status(r)' = "filtered" /\ exit'[r] = "dropped"
      BY <2>3 DEF Status, IInv, TypeOK, Exits, StoredBehind
    <3>2. /\ exit'[r] = "error" => ShouldFailClose(req'[r].mode)
          /\ ShouldFailClose(req'[r].mode) =>
               exit'[r] # "swallowed" /\ (exit'[r] = "complete" => Durable(r)')
          /\ exit'[r] = "dropped" => ~ Durable(r)'
      BY <1>3 DEF IInv, StoredBehind, HandedOver
    <3> QED
      BY <1>1, <1>2, <2>1, <3>1, <3>2, ServiceStep DEF ShouldFailClose
  <2>4. CASE pc'[r] \notin {"panicked", "returned"}
    <3>1. Status(r)' = "pending"
      BY <2>4 DEF Status
    <3> QED
      BY <1>1, <1>2, <2>1, <3>1, ServiceStep
  <2> QED
    BY <2>2, <2>3, <2>4
<1> QED
  BY <1>4, <1>5

(* A write of an entry, by this process or by the agent, persists the      *)
(* request of the entry at most.                                           *)
LEMMA PersistRefines ==
  ASSUME IInv, [Next]_vars, UNCHANGED <<cfg, pc, req, exit>>,
         NEW r \in Reqs, HandedOver(r),
         \A e \in clStored' : e \in clStored \/ e = EntryOf(r),
         \A e \in agStored' : e \in agStored \/ e = EntryOf(r)
  PROVE  [Service!Next]_Service!svars
<1>1. \A s \in Reqs : SubmittedMode(s)' = SubmittedMode(s) /\ Status(s)' = Status(s)
  BY DEF SubmittedMode, Status
<1>2. \A s \in Reqs : s # r => (Durable(s)' <=> Durable(s))
  BY OthersNotDurable
<1>3. Durable(r) => Durable(r)'
  BY StoredGrows DEF Durable, StoredAt, EntryOf, IInv
<1>4. Status(r) \notin {"idle", "filtered", "aborted"}
  BY DEF HandedOver, Status
<1> QED
  BY <1>1, <1>2, <1>3, <1>4, ServiceStep

(* Every step of the client, its backends and the agent is a step of the   *)
(* service, or none.                                                       *)
LEMMA StepRefines ==
  ASSUME IInv, IInv', NilPanics, [Next]_vars
  PROVE  [Service!Next]_Service!svars
<1>1. ASSUME NEW r \in Reqs, CallStep(r) PROVE [Service!Next]_Service!svars
  BY <1>1, CallRefines
<1>2. ASSUME NEW r \in Reqs, HandlerStep(r) PROVE [Service!Next]_Service!svars
  <2>1. HandedOver(r) /\ UNCHANGED <<cfg, pc, req, exit, clStored>>
    BY <1>2 DEF HandlerStep, AgentReceive, ProcessLog, clVars, IInv, VettedFirst
  <2>2. \A e \in agStored' : e \in agStored \/ e = EntryOf(r)
    BY <1>2 DEF HandlerStep, AgentReceive, ProcessLog, agVars, AG!Process, AG!LogAsync,
       AG!LogSync
  <2> QED
    BY <2>1, <2>2, PersistRefines
<1>3. ASSUME NEW e \in clBuffer \cup agBuffer,
             \A f \in clStored' : f \in clStored \/ f = e,
             \A f \in agStored' : f \in agStored \/ f = e,
             UNCHANGED <<cfg, pc, req, exit>>
      PROVE  [Service!Next]_Service!svars
  <2>1. e.id \in Reqs
    BY DEF IInv, TypeOK, CL!TypeOK, AG!TypeOK, Entry
  <2>2. HandedOver(e.id) /\ e = EntryOf(e.id)
    BY DEF IInv, EntriesInv, Entries
  <2> QED
    BY <1>3, <2>1, <2>2, PersistRefines
<1>4. CASE ClientWrite
  BY <1>3, <1>4 DEF ClientWrite, CL!Write, clientVars, agVars
<1>5. CASE AgentWrite
  BY <1>3, <1>5 DEF AgentWrite, AG!Write, clientVars, clVars
<1>6. CASE StopStep \/ AgentStep \/ UNCHANGED vars
  <2>1. UNCHANGED <<cfg, pc, req, exit>>
    BY <1>6 DEF StopStep, StopRemote, StopCloud, StopFlush, AgentStep, AgentTerm,
       AgentDrained, AgentFlush, AgentCrash, vars, clientVars
  <2>2. UNCHANGED <<clStored, agStored>>
    BY <1>6 DEF StopStep, StopRemote, StopCloud, StopFlush, AgentStep, AgentTerm,
       AgentDrained, AgentFlush, AgentCrash, vars, clVars, agVars, CL!StopCall, CL!StopNext,
       CL!FlushCall, CL!FlushReturn, CL!StopReturn, AG!StopCall, AG!StopNext,
       AG!FlushCall, AG!FlushReturn, AG!StopReturn, AG!Crash
  <2> QED
    BY <2>1, <2>2 DEF Service!svars, SubmittedMode, Status, Durable, StoredAt, EntryOf
<1> QED
  BY <1>1, <1>2, <1>4, <1>5, <1>6 DEF Next

(* The client, its backends and the agent implement AuditLogService: with  *)
(* any number of calls and crashes, no caller of Client.Log sees an answer *)
(* that LogMode rules out.                                                 *)
THEOREM ServiceImplemented == Spec => ImplementsService
<1>1. Init => Service!Init
  <2> SUFFICES ASSUME Init PROVE Service!Init
    OBVIOUS
  <2>1. IInv /\ \A r \in Reqs : ~ HandedOver(r)
    BY InvInit DEF Init, HandedOver
  <2>2. \A r \in Reqs : ~ Durable(r)
    BY <2>1, DurableHandedOver
  <2> QED
    BY <2>2 DEF Init, Service!Init, SubmittedMode, Status
<1>2. Init => NilPanics
  BY DEF Init, NilPanics
<1>3. IInv /\ IInv' /\ NilPanics /\ [Next]_vars => [Service!Next]_Service!svars
  BY StepRefines
<1> QED
  BY <1>1, <1>2, <1>3, InvInit, InvStep, NilPanicsStep, PTL
  DEF Spec, ImplementsService, Service!Spec

=============================================================================
