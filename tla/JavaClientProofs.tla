------------------------- MODULE JavaClientProofs -------------------------
(***************************************************************************)
(* The Java client vets what it hands to its backends and keeps the        *)
(* promise of LogMode, for any number of calls, any requests and any       *)
(* configuration that is as strict as its requests.                        *)
(***************************************************************************)
EXTENDS JavaClient, AuditProcessorsProofs

Places ==
  {"idle", "validators", "mutators", "remote", "local", "cloudlogging",
   "complete", "dropped", "thrown", "swallowed", "aborted"}

JavaTypeOK ==
  /\ cfg \in {w.client : w \in Workloads}
  /\ at \in [Reqs -> Places]
  /\ req \in [Reqs -> Request]

(* The calls with a request that some backend has.                         *)
HasEntry(r) == r \in held \cup buffer \/ \E b : <<b, r>> \in stored

(* What such a call looks like: it has got past a backend, or failed.      *)
HandedOver(r) == at[r] \in {"local", "cloudlogging", "complete", "thrown", "swallowed"}

VettedRequest(q) ==
  /\ ValidationProcessor(q).err = "nil"
  /\ Unfiltered(cfg, q)
  /\ cfg.justification => "justification" \in q.metadata.keys
  /\ cfg.onGCP => "originating_resource" \in q.metadata.keys

(* A request is vetted before a backend gets it.                           *)
VettedFirst(r) ==
  /\ at[r] = "mutators" => ValidationProcessor(req[r]).err = "nil" /\ Unfiltered(cfg, req[r])
  /\ at[r] \in Backends \/ HasEntry(r) => VettedRequest(req[r])
  /\ HasEntry(r) => HandedOver(r)

VettingInv ==
  /\ JavaTypeOK
  /\ stored \subseteq Backends \X Reqs
  /\ held \subseteq Reqs
  /\ buffer \subseteq Reqs
  /\ \A r \in Reqs : VettedFirst(r)

-----------------------------------------------------------------------------
(* The processors.                                                         *)

LEMMA JavaValidatorsResult ==
  ASSUME NEW c, NEW q
  PROVE  JavaValidators(c, q).err = "nil" =>
           ValidationProcessor(q).err = "nil" /\ Unfiltered(c, q)
BY DEF JavaValidators, Then, ValidationProcessor, FilteringProcessor, Pass, Refuse,
   Unfiltered

LEMMA JavaMutatorsResult ==
  ASSUME NEW c \in JavaConfiguration, NEW q \in Request
  PROVE  /\ JavaMutators(c, q).err # "ErrPreconditionFailed"
         /\ JavaMutators(c, q).req \in Request
         /\ SameCore(JavaMutators(c, q).req, q)
         /\ JavaMutators(c, q).err = "nil" =>
              LET p == JavaMutators(c, q).req
              IN  /\ c.justification => "justification" \in p.metadata.keys
                  /\ c.onGCP => "originating_resource" \in p.metadata.keys
<1> DEFINE a == RuntimeInfo(c, q).req
           b == LabelProcessor(c, a).req
<1>1. c.labels \in [LabelKeys -> LabelValues \cup {NoLabel}]
  BY DEF JavaConfiguration
<1>2. a \in Request /\ SameCore(a, q) /\ RuntimeInfo(c, q).err = "nil"
  BY RuntimeInfoResult
<1>3. b \in Request /\ SameCore(b, a) /\ LabelProcessor(c, a).err = "nil"
  BY <1>1, <1>2, LabelProcessorResult
<1>4. c.onGCP => "originating_resource" \in b.metadata.keys
  BY <1>1, <1>2, RuntimeInfoResult, LabelProcessorResult
<1>5. JavaMutators(c, q) = JustificationIfEnabled(c, b)
  BY <1>2, <1>3 DEF JavaMutators, Then, RuntimeInfoProcessor
<1> HIDE DEF a, b
<1> DEFINE p == JustificationIfEnabled(c, b)
<1>6. /\ p.err \in {"nil", "error"}
      /\ p.req \in Request
      /\ SameCore(p.req, b)
      /\ b.metadata.keys \subseteq p.req.metadata.keys
      /\ p.err = "nil" /\ c.justification => "justification" \in p.req.metadata.keys
  <2> DEFINE why == b.reason \/ b.token = "valid"
             noted == [b EXCEPT !.metadata = [map |-> "fields",
                                              keys |-> @.keys \cup {"justification"}],
                                !.reason = why]
  <2>1. why \in BOOLEAN
    OBVIOUS
  <2> HIDE DEF why
  <2>2. /\ noted \in Request
        /\ SameCore(noted, b)
        /\ noted.metadata.keys = b.metadata.keys \cup {"justification"}
    BY <1>3, <2>1 DEF Request, SameCore, MetadataKeys
  <2>3. \/ ~ c.justification /\ p = Pass(b)
        \/ p = Refuse("error", b)
        \/ p = Pass(noted)
    BY Zenon DEF JustificationIfEnabled, why
  <2>4. SameCore(b, b)
    BY DEF SameCore
  <2> HIDE DEF noted, p
  <2> QED
    BY <1>3, <2>2, <2>3, <2>4 DEF Pass, Refuse
<1> HIDE DEF p
<1> QED
  BY <1>2, <1>3, <1>4, <1>5, <1>6 DEF SameCore, p

(* Validation looks at fields that no processor touches.                   *)
LEMMA JavaCoreDecides ==
  ASSUME NEW p, NEW q, SameCore(p, q)
  PROVE  ValidationProcessor(p).err = "nil" <=> ValidationProcessor(q).err = "nil"
BY DEF ValidationProcessor, SameCore, Pass, Refuse

LEMMA JavaConfigType == JavaTypeOK => cfg \in JavaConfiguration
BY JavaClientAssumption DEF JavaTypeOK

-----------------------------------------------------------------------------
(* The steps of a call.                                                    *)

LEMMA CaughtEffect ==
  ASSUME JavaTypeOK, NEW r \in Reqs, NEW err, Caught(r, err)
  PROVE  /\ at' \in [Reqs -> Places]
         /\ \A s \in Reqs : s # r => at'[s] = at[s]
         /\ at'[r] = IF err = "ErrPreconditionFailed" THEN "dropped"
                     ELSE IF ShouldFailClose(req[r].mode) THEN "thrown" ELSE "swallowed"
BY DEF JavaTypeOK, Caught, Goto, Places

(* The call goes on with the first backend that is enabled and not before  *)
(* the k-th, and is complete when there is none.                           *)
LEMMA GoOnEffect ==
  ASSUME JavaTypeOK, NEW r \in Reqs, NEW k \in 1..4, GoOnFrom(r, k)
  PROVE  /\ at' \in [Reqs -> Places]
         /\ \A s \in Reqs : s # r => at'[s] = at[s]
         /\ \E i \in k..4 : /\ at'[r] = Order[i]
                            /\ \A j \in 1..3 : k <= j /\ j < i => Order[j] \notin getBackend
<1> DEFINE enabled == {i \in k..Len(Order) : Order[i] \in getBackend \cup {"complete"}}
           i == CHOOSE i \in enabled : \A j \in enabled : i <= j
<1>1. Len(Order) = 4 /\ Order[4] = "complete" /\ \A j \in 1..4 : Order[j] \in Places
  BY DEF Order, Places
<1>2. 4 \in enabled /\ enabled \subseteq 1..4
  BY <1>1
<1> HIDE DEF enabled
<1>3. \E m \in enabled : \A j \in enabled : m <= j
  <2>1. CASE 1 \in enabled
    BY <1>2, <2>1
  <2>2. CASE 1 \notin enabled /\ 2 \in enabled
    BY <1>2, <2>2
  <2>3. CASE 1 \notin enabled /\ 2 \notin enabled /\ 3 \in enabled
    BY <1>2, <2>3
  <2>4. CASE 1 \notin enabled /\ 2 \notin enabled /\ 3 \notin enabled
    BY <1>2, <2>4
  <2> QED
    BY <2>1, <2>2, <2>3, <2>4
<1>4. i \in enabled /\ \A j \in enabled : i <= j
  BY <1>3
<1>5. at' = [at EXCEPT ![r] = Order[i]]
  BY DEF GoOnFrom, Goto, enabled
<1>6. i \in k..4 /\ \A j \in 1..3 : k <= j /\ j < i => j \notin enabled
  BY <1>1, <1>4 DEF enabled
<1>7. \A j \in 1..3 : k <= j /\ j \notin enabled => Order[j] \notin getBackend
  BY <1>1 DEF enabled
<1> HIDE DEF i
<1> QED
  BY <1>1, <1>5, <1>6, <1>7 DEF JavaTypeOK

(* A backend is never before the one that a call comes from.               *)
LEMMA GoOnPlaces ==
  ASSUME JavaTypeOK, NEW r \in Reqs
  PROVE  /\ GoOnFrom(r, 2) => at'[r] \in {"local", "cloudlogging", "complete"}
         /\ GoOnFrom(r, 3) => at'[r] \in {"cloudlogging", "complete"}
         /\ GoOnFrom(r, 4) => at'[r] = "complete"
<1>1. ASSUME NEW k \in 2..4, GoOnFrom(r, k)
      PROVE  \E i \in 2..4 : k <= i /\ at'[r] = Order[i]
  BY <1>1, GoOnEffect
<1>2. Order[2] = "local" /\ Order[3] = "cloudlogging" /\ Order[4] = "complete"
  BY DEF Order
<1> QED
  BY <1>1, <1>2

CallStep(r) ==
  \/ Log(r) \/ RunValidators(r) \/ RunMutators(r)
  \/ RemoteProcess(r) \/ LocalProcess(r) \/ CloudProcess(r)

(* A step of call r touches nothing of the other calls.                    *)
OnlyCall(r) ==
  /\ cfg' = cfg
  /\ stored \subseteq stored'
  /\ stored' \subseteq stored \cup {<<b, r>> : b \in Backends}
  /\ held' \subseteq held \cup {r}
  /\ buffer' \subseteq buffer \cup {r}
  /\ \A s \in Reqs : s # r => at'[s] = at[s] /\ req'[s] = req[s]

LEMMA OthersKeep ==
  ASSUME VettingInv, NEW r, NEW s \in Reqs, s # r, OnlyCall(r)
  PROVE  VettedFirst(s)'
<1>1. HasEntry(s)' => HasEntry(s)
  BY DEF HasEntry, OnlyCall
<1> QED
  BY <1>1 DEF VettingInv, VettedFirst, VettedRequest, HandedOver, OnlyCall, Unfiltered

(* What Log and each of the lists do to the call.                          *)
LEMMA LogEffect ==
  ASSUME VettingInv, NEW r \in Reqs, Log(r)
  PROVE  /\ at[r] = "idle" /\ UNCHANGED <<held, buffer, stored>> /\ OnlyCall(r)
         /\ JavaTypeOK'
         /\ req'[r].shape = req[r].shape
         /\ IF req[r].shape = "nil request"
            THEN at'[r] = "aborted" /\ req'[r] = req[r]
            ELSE /\ at'[r] = "validators"
                 /\ req'[r].mode = IF req[r].mode = "UNSPECIFIED" THEN getLogMode ELSE req[r].mode
<1> DEFINE m == IF req[r].mode = "UNSPECIFIED" THEN getLogMode ELSE req[r].mode
           moded == [req[r] EXCEPT !.mode = m]
<1>1. m \in Modes
  BY JavaConfigType DEF VettingInv, JavaTypeOK, JavaConfiguration, Request, getLogMode, Modes
<1>2. moded \in Request /\ moded.shape = req[r].shape /\ moded.mode = m
  BY <1>1 DEF VettingInv, JavaTypeOK, Request
<1>3. IF req[r].shape = "nil request" THEN req' = req ELSE req' = [req EXCEPT ![r] = moded]
  BY DEF Log
<1> HIDE DEF moded
<1>4. /\ req' \in [Reqs -> Request]
      /\ \A s \in Reqs : s # r => req'[s] = req[s]
      /\ req'[r].shape = req[r].shape
      /\ req[r].shape = "nil request" => req'[r] = req[r]
      /\ req[r].shape # "nil request" => req'[r].mode = m
  BY <1>2, <1>3 DEF VettingInv, JavaTypeOK
<1>5. /\ at[r] = "idle" /\ UNCHANGED <<cfg, held, buffer, stored>>
      /\ at' \in [Reqs -> Places]
      /\ \A s \in Reqs : s # r => at'[s] = at[s]
      /\ at'[r] = IF req[r].shape = "nil request" THEN "aborted" ELSE "validators"
  BY DEF Log, Goto, VettingInv, JavaTypeOK, Places
<1> QED
  BY <1>4, <1>5 DEF JavaTypeOK, VettingInv, OnlyCall

LEMMA ValidatorsEffect ==
  ASSUME VettingInv, NEW r \in Reqs, RunValidators(r)
  PROVE  /\ at[r] = "validators" /\ UNCHANGED <<req, held, buffer, stored>> /\ OnlyCall(r)
         /\ JavaTypeOK'
         /\ \/ /\ at'[r] = "mutators"
               /\ ValidationProcessor(req[r]).err = "nil" /\ Unfiltered(cfg, req[r])
            \/ at'[r] = "dropped"
            \/ at'[r] = IF ShouldFailClose(req[r].mode) THEN "thrown" ELSE "swallowed"
<1> DEFINE res == JavaValidators(cfg, req[r])
<1>1. res.err = "nil" => ValidationProcessor(req[r]).err = "nil" /\ Unfiltered(cfg, req[r])
  BY JavaValidatorsResult
<1>2. IF res.err = "nil" THEN Goto(r, "mutators") ELSE Caught(r, res.err)
  BY DEF RunValidators
<1> HIDE DEF res
<1>3. at[r] = "validators" /\ UNCHANGED <<cfg, req, held, buffer, stored>>
  BY DEF RunValidators
<1>4. /\ at' \in [Reqs -> Places]
      /\ \A s \in Reqs : s # r => at'[s] = at[s]
      /\ \/ at'[r] = "mutators" /\ res.err = "nil"
         \/ at'[r] = "dropped"
         \/ at'[r] = IF ShouldFailClose(req[r].mode) THEN "thrown" ELSE "swallowed"
  BY <1>2, CaughtEffect DEF VettingInv, JavaTypeOK, Goto, Places
<1> QED
  BY <1>1, <1>3, <1>4 DEF VettingInv, JavaTypeOK, OnlyCall

LEMMA MutatorsEffect ==
  ASSUME VettingInv, NEW r \in Reqs, RunMutators(r)
  PROVE  /\ at[r] = "mutators" /\ UNCHANGED <<held, buffer, stored>> /\ OnlyCall(r)
         /\ JavaTypeOK'
         /\ SameCore(req'[r], req[r])
         /\ \/ VettedRequest(req'[r]) /\ GoOnFrom(r, 1)
            \/ at'[r] = IF ShouldFailClose(req[r].mode) THEN "thrown" ELSE "swallowed"
<1> DEFINE res == JavaMutators(cfg, req[r])
<1>1. /\ res.err # "ErrPreconditionFailed"
      /\ res.req \in Request
      /\ SameCore(res.req, req[r])
      /\ res.err = "nil" => /\ cfg.justification => "justification" \in res.req.metadata.keys
                            /\ cfg.onGCP => "originating_resource" \in res.req.metadata.keys
  BY JavaMutatorsResult, JavaConfigType DEF VettingInv, JavaTypeOK
<1>2. /\ at[r] = "mutators" /\ UNCHANGED <<cfg, held, buffer, stored>>
      /\ req' = [req EXCEPT ![r] = res.req]
      /\ IF res.err = "nil" THEN GoOnFrom(r, 1) ELSE Caught(r, res.err)
  BY DEF RunMutators
<1> HIDE DEF res
<1>3. /\ req' \in [Reqs -> Request] /\ req'[r] = res.req
      /\ \A s \in Reqs : s # r => req'[s] = req[s]
  BY <1>1, <1>2 DEF VettingInv, JavaTypeOK
<1>4. /\ at' \in [Reqs -> Places]
      /\ \A s \in Reqs : s # r => at'[s] = at[s]
      /\ \/ res.err = "nil" /\ GoOnFrom(r, 1)
         \/ at'[r] = IF ShouldFailClose(req[r].mode) THEN "thrown" ELSE "swallowed"
  BY <1>1, <1>2, CaughtEffect, GoOnEffect DEF VettingInv
<1>5. res.err = "nil" => VettedRequest(res.req)
  <2>1. ValidationProcessor(req[r]).err = "nil" /\ Unfiltered(cfg, req[r])
    BY <1>2 DEF VettingInv, VettedFirst
  <2>2. ValidationProcessor(res.req).err = "nil" /\ Unfiltered(cfg, res.req)
    BY <1>1, <2>1, JavaCoreDecides, CoreDecides
  <2> QED
    BY <1>1, <2>2 DEF VettedRequest
<1> QED
  BY <1>1, <1>2, <1>3, <1>4, <1>5 DEF VettingInv, JavaTypeOK, OnlyCall

(* A backend lets the call go on to the backends behind it, and has then   *)
(* stored a fail-close request; or the call ends with an exception.        *)
BackendEffect(b, k, r) ==
  /\ at[r] = b
  /\ OnlyCall(r)
  /\ JavaTypeOK'
  /\ SameCore(req'[r], req[r]) /\ req'[r].metadata = req[r].metadata
  /\ \/ /\ GoOnFrom(r, k)
        /\ ShouldFailClose(req[r].mode) => <<b, r>> \in stored'
     \/ at'[r] = IF ShouldFailClose(req[r].mode) THEN "thrown" ELSE "swallowed"

LEMMA RemoteEffect ==
  ASSUME VettingInv, NEW r \in Reqs, RemoteProcess(r)
  PROVE  BackendEffect("remote", 2, r)
<1> DEFINE valid == ValidateAuditLog(req[r])
           labelled == LabelProcessor([labels |-> AgentLabels], req[r]).req
           answer == IF valid THEN labelled ELSE req[r]
<1>1. SameCore(req[r], req[r])
  BY DEF SameCore
<1>2. req[r] \in Request /\ [labels |-> AgentLabels].labels \in [LabelKeys -> LabelValues \cup {NoLabel}]
  BY JavaClientAssumption DEF VettingInv, JavaTypeOK
<1>3. labelled \in Request /\ SameCore(labelled, req[r]) /\ labelled.metadata = req[r].metadata
  BY <1>2, LabelProcessorResult
<1>4. answer \in Request /\ SameCore(answer, req[r]) /\ answer.metadata = req[r].metadata
  BY <1>1, <1>2, <1>3
<1>5. req' = req \/ req' = [req EXCEPT ![r] = answer]
  BY DEF RemoteProcess
<1> HIDE DEF answer
<1>6. /\ req' \in [Reqs -> Request]
      /\ \A s \in Reqs : s # r => req'[s] = req[s]
      /\ SameCore(req'[r], req[r]) /\ req'[r].metadata = req[r].metadata
  BY <1>1, <1>4, <1>5 DEF VettingInv, JavaTypeOK
<1>7. /\ at[r] = "remote" /\ UNCHANGED <<cfg, buffer>>
      /\ stored' = stored \/ stored' = stored \cup {<<"remote", r>>}
      /\ held' \subseteq held \cup {r}
      /\ \/ GoOnFrom(r, 2) /\ (ShouldFailClose(req[r].mode) => <<"remote", r>> \in stored')
         \/ Caught(r, "error")
  BY DEF RemoteProcess
<1>8. /\ at' \in [Reqs -> Places]
      /\ \A s \in Reqs : s # r => at'[s] = at[s]
      /\ Caught(r, "error") =>
           at'[r] = IF ShouldFailClose(req[r].mode) THEN "thrown" ELSE "swallowed"
  BY <1>7, CaughtEffect, GoOnEffect DEF VettingInv
<1>9. stored \subseteq stored' /\ stored' \subseteq stored \cup {<<b, r>> : b \in Backends}
  BY <1>7 DEF Backends
<1> QED
  BY <1>6, <1>7, <1>8, <1>9 DEF VettingInv, JavaTypeOK, BackendEffect, OnlyCall

LEMMA LocalEffect ==
  ASSUME VettingInv, NEW r \in Reqs, LocalProcess(r)
  PROVE  BackendEffect("local", 3, r)
<1>1. /\ at[r] = "local" /\ UNCHANGED <<cfg, req, held, buffer>>
      /\ stored' = stored \/ stored' = stored \cup {<<"local", r>>}
      /\ (GoOnFrom(r, 3) /\ <<"local", r>> \in stored') \/ Caught(r, "error")
  BY DEF LocalProcess
<1>2. /\ at' \in [Reqs -> Places]
      /\ \A s \in Reqs : s # r => at'[s] = at[s]
      /\ Caught(r, "error") =>
           at'[r] = IF ShouldFailClose(req[r].mode) THEN "thrown" ELSE "swallowed"
  BY <1>1, CaughtEffect, GoOnEffect DEF VettingInv
<1>3. stored \subseteq stored' /\ stored' \subseteq stored \cup {<<b, r>> : b \in Backends}
  BY <1>1 DEF Backends
<1> QED
  BY <1>1, <1>2, <1>3 DEF VettingInv, JavaTypeOK, BackendEffect, OnlyCall, SameCore

(* Here a fail-close request is stored when the writes of the client are   *)
(* synchronous.                                                            *)
LEMMA CloudEffect ==
  ASSUME VettingInv, NEW r \in Reqs, CloudProcess(r)
  PROVE  /\ at[r] = "cloudlogging"
         /\ OnlyCall(r)
         /\ JavaTypeOK'
         /\ req' = req
         /\ \/ GoOnFrom(r, 4) /\ (Synchronous => <<"cloudlogging", r>> \in stored')
            \/ at'[r] = IF ShouldFailClose(req[r].mode) THEN "thrown" ELSE "swallowed"
<1>1. /\ at[r] = "cloudlogging" /\ UNCHANGED <<cfg, req, held>>
      /\ stored' = stored \/ stored' = stored \cup {<<"cloudlogging", r>>}
      /\ buffer' \subseteq buffer \cup {r}
      /\ \/ GoOnFrom(r, 4) /\ (Synchronous => <<"cloudlogging", r>> \in stored')
         \/ Caught(r, "error")
  BY DEF CloudProcess
<1>2. /\ at' \in [Reqs -> Places]
      /\ \A s \in Reqs : s # r => at'[s] = at[s]
      /\ Caught(r, "error") =>
           at'[r] = IF ShouldFailClose(req[r].mode) THEN "thrown" ELSE "swallowed"
  BY <1>1, CaughtEffect, GoOnEffect DEF VettingInv
<1>3. stored \subseteq stored' /\ stored' \subseteq stored \cup {<<b, r>> : b \in Backends}
  BY <1>1 DEF Backends
<1> QED
  BY <1>1, <1>2, <1>3 DEF VettingInv, JavaTypeOK, OnlyCall

(* The agent and Cloud Logging persist what they hold, or lose it.         *)
Background ==
  \/ \E r \in Reqs : AgentPersists(r) \/ Write(r)
  \/ Close
  \/ CloseReturns

LEMMA BackgroundEffect ==
  ASSUME VettingInv, Background \/ UNCHANGED vars
  PROVE  /\ UNCHANGED <<cfg, at, req>> /\ held' \subseteq held /\ buffer' \subseteq buffer
         /\ stored \subseteq stored' /\ stored' \subseteq Backends \X Reqs
         /\ \A s \in Reqs : HasEntry(s)' => HasEntry(s)
<1>1. ASSUME NEW r \in Reqs, AgentPersists(r) \/ Write(r)
      PROVE  /\ UNCHANGED <<cfg, at, req>> /\ held' \subseteq held /\ buffer' \subseteq buffer
             /\ r \in held \cup buffer
             /\ \E b \in Backends : stored' = stored \/ stored' = stored \cup {<<b, r>>}
  BY <1>1 DEF AgentPersists, Write, Backends
<1>2. CASE \E r \in Reqs : AgentPersists(r) \/ Write(r)
  <2>1. PICK r \in Reqs : AgentPersists(r) \/ Write(r)
    BY <1>2
  <2>2. PICK b \in Backends : stored' = stored \/ stored' = stored \cup {<<b, r>>}
    BY <1>1, <2>1
  <2>3. \A s \in Reqs : HasEntry(s)' => HasEntry(s)
    BY <1>1, <2>1, <2>2 DEF HasEntry
  <2> QED
    BY <1>1, <2>1, <2>2, <2>3 DEF VettingInv
<1>3. CASE Close \/ CloseReturns \/ UNCHANGED vars
  BY <1>3 DEF Close, CloseReturns, vars, VettingInv, HasEntry
<1> QED
  BY <1>2, <1>3 DEF Background

LEMMA VettingStep == VettingInv /\ [Next]_vars => VettingInv'
<1> SUFFICES ASSUME VettingInv, [Next]_vars PROVE VettingInv'
  OBVIOUS
<1>1. ASSUME NEW r \in Reqs, OnlyCall(r), JavaTypeOK', VettedFirst(r)' PROVE VettingInv'
  <2>1. \A s \in Reqs : VettedFirst(s)'
    BY <1>1, OthersKeep
  <2>2. stored' \subseteq Backends \X Reqs /\ held' \subseteq Reqs /\ buffer' \subseteq Reqs
    BY <1>1 DEF OnlyCall, VettingInv
  <2> QED
    BY <1>1, <2>1, <2>2 DEF VettingInv
<1>2. ASSUME NEW r \in Reqs, UNCHANGED <<held, buffer, stored>>, ~ HasEntry(r)
      PROVE  ~ HasEntry(r)'
  BY <1>2 DEF HasEntry
<1>3. \A r \in Reqs : at[r] \in {"idle", "validators", "mutators"} => ~ HasEntry(r)
  BY DEF VettingInv, VettedFirst, HandedOver
<1>4. ASSUME NEW r \in Reqs, Log(r) PROVE VettingInv'
  <2>1. VettedFirst(r)'
    BY <1>2, <1>3, <1>4, LogEffect DEF VettedFirst, Backends
  <2> QED
    BY <1>1, <1>4, <2>1, LogEffect
<1>5. ASSUME NEW r \in Reqs, RunValidators(r) PROVE VettingInv'
  <2>1. VettedFirst(r)'
    BY <1>2, <1>3, <1>5, ValidatorsEffect DEF VettedFirst, Backends, OnlyCall, Unfiltered
  <2> QED
    BY <1>1, <1>5, <2>1, ValidatorsEffect
<1>6. ASSUME NEW r \in Reqs, RunMutators(r) PROVE VettingInv'
  <2>1. at'[r] # "mutators"
    BY <1>6, MutatorsEffect, GoOnEffect DEF VettingInv, Order
  <2>2. at'[r] \in Backends => VettedRequest(req[r])'
    BY <1>6, MutatorsEffect DEF VettedRequest, Unfiltered, OnlyCall, Backends
  <2>3. VettedFirst(r)'
    BY <1>2, <1>3, <1>6, <2>1, <2>2, MutatorsEffect DEF VettedFirst
  <2> QED
    BY <1>1, <1>6, <2>3, MutatorsEffect
<1>7. ASSUME NEW r \in Reqs, RemoteProcess(r) \/ LocalProcess(r) \/ CloudProcess(r)
      PROVE  VettingInv'
  <2>1. /\ at[r] \in Backends /\ OnlyCall(r) /\ JavaTypeOK'
        /\ SameCore(req'[r], req[r]) /\ req'[r].metadata = req[r].metadata
    BY <1>7, RemoteEffect, LocalEffect, CloudEffect DEF BackendEffect, Backends, SameCore
  <2>2. VettedRequest(req[r])'
    <3>1. VettedRequest(req[r])
      BY <2>1 DEF VettingInv, VettedFirst
    <3> QED
      BY <2>1, <3>1, JavaCoreDecides, CoreDecides DEF VettedRequest, OnlyCall, Unfiltered
  <2>3. HandedOver(r)'
    BY <1>7, RemoteEffect, LocalEffect, CloudEffect, GoOnPlaces
    DEF BackendEffect, VettingInv, HandedOver
  <2>4. VettedFirst(r)'
    BY <2>2, <2>3 DEF VettedFirst, HandedOver
  <2> QED
    BY <1>1, <2>1, <2>4
<1>8. CASE Background \/ UNCHANGED vars
  <2>1. /\ UNCHANGED <<cfg, at, req>> /\ held' \subseteq held /\ buffer' \subseteq buffer
        /\ stored' \subseteq Backends \X Reqs
        /\ \A s \in Reqs : HasEntry(s)' => HasEntry(s)
    BY <1>8, BackgroundEffect
  <2>2. \A s \in Reqs : VettedFirst(s)'
    BY <2>1 DEF VettingInv, VettedFirst, VettedRequest, HandedOver, Unfiltered
  <2> QED
    BY <2>1, <2>2 DEF VettingInv, JavaTypeOK
<1> QED
  BY <1>4, <1>5, <1>6, <1>7, <1>8 DEF Next, Background

LEMMA VettingInit == Init => VettingInv
<1> SUFFICES ASSUME Init PROVE VettingInv
  OBVIOUS
<1>1. PICK w \in Workloads : cfg = w.client /\ req \in w.requests
  BY DEF Init
<1>2. JavaTypeOK
  BY <1>1, JavaClientAssumption DEF Init, JavaTypeOK, Places
<1>3. \A r \in Reqs : ~ HasEntry(r)
  BY DEF Init, HasEntry
<1> QED
  BY <1>2, <1>3 DEF Init, VettingInv, VettedFirst, Backends

-----------------------------------------------------------------------------

(* Validation, filter and mutators come before every backend of the Java   *)
(* client, in every log mode and whatever exceptions log swallows.         *)
THEOREM OnlyVettedEntriesCorrect == Spec => []OnlyVettedEntries
<1>1. VettingInv => OnlyVettedEntries
  <2> SUFFICES ASSUME VettingInv, NEW r \in held \cup buffer \cup {e[2] : e \in stored}
               PROVE  VettedRequest(req[r])
    BY DEF OnlyVettedEntries, VettedRequest, Unfiltered
  <2>1. r \in Reqs /\ HasEntry(r)
    <3>1. CASE r \in held \cup buffer
      BY <3>1 DEF VettingInv, HasEntry
    <3>2. CASE \E e \in stored : r = e[2]
      <4>1. PICK e \in stored : r = e[2]
        BY <3>2
      <4>2. e \in Backends \X Reqs
        BY DEF VettingInv
      <4>3. e[2] \in Reqs /\ e = <<e[1], e[2]>>
        BY <4>2
      <4> QED
        BY <4>1, <4>3 DEF HasEntry
    <3> QED
      BY <3>1, <3>2
  <2> QED
    BY <2>1 DEF VettingInv, VettedFirst
<1> QED
  BY <1>1, VettingInit, VettingStep, PTL DEF Spec

-----------------------------------------------------------------------------
(* The client implements AuditLogService.                                  *)

(* What the client needs for it: a backend, and no request that asks for   *)
(* more than the writes to Cloud Logging give, whose synchronicity is      *)
(* chosen once for the client.                                             *)
AsStrictAsRequests ==
  \A w \in Workloads :
    /\ w.client.backend # <<{}>>
    /\ /\ w.client.mode = "BEST_EFFORT"
       /\ w.client.backend # <<>> /\ "cloudlogging" \in w.client.backend[1]
       => \A q \in w.requests : \A r \in Reqs : ~ ShouldFailClose(q[r].mode)

(* The places of a call that are behind a backend.                         *)
Behind ==
  [remote |-> {"local", "cloudlogging", "complete"},
   local |-> {"cloudlogging", "complete"},
   cloudlogging |-> {"complete"}]

(* A fail-close request is stored by the backends that it has got past.    *)
StoredBehind(r) ==
  /\ at[r] \notin {"idle", "aborted"} => req[r].shape # "nil request"
  /\ at[r] = "thrown" => ShouldFailClose(req[r].mode)
  /\ ShouldFailClose(req[r].mode) =>
       /\ at[r] # "swallowed"
       /\ "cloudlogging" \in getBackend => Synchronous
       /\ \A b \in getBackend : at[r] \in Behind[b] => <<b, r>> \in stored

ServiceInv ==
  /\ VettingInv
  /\ getBackend # {}
  /\ \A r \in Reqs : StoredBehind(r)

LEMMA BackendType == JavaTypeOK => getBackend \subseteq Backends
<1> SUFFICES ASSUME JavaTypeOK PROVE getBackend \subseteq Backends
  OBVIOUS
<1>1. cfg.backend = <<>> \/ \E b \in SUBSET Backends : cfg.backend = <<b>>
  BY JavaConfigType DEF JavaConfiguration
<1>2. "local" \in Backends
  BY DEF Backends
<1>3. ASSUME NEW b \in SUBSET Backends, cfg.backend = <<b>> PROVE getBackend = b
  BY <1>3 DEF getBackend
<1>4. cfg.backend = <<>> => getBackend = {"local"}
  BY DEF getBackend
<1> QED
  BY <1>1, <1>2, <1>3, <1>4

(* The backends that a call skips are not enabled.                         *)
LEMMA GoOnSkips ==
  ASSUME JavaTypeOK, NEW r \in Reqs, NEW k \in 1..4, GoOnFrom(r, k),
         NEW j \in 1..3, k <= j, at'[r] \in Behind[Order[j]]
  PROVE  Order[j] \notin getBackend
<1>1. PICK i \in k..4 :
        /\ at'[r] = Order[i]
        /\ \A l \in 1..3 : k <= l /\ l < i => Order[l] \notin getBackend
  BY GoOnEffect
<1>2. i \in {1, 2, 3, 4} /\ j \in {1, 2, 3}
  OBVIOUS
<1>3. j < i
  BY <1>1, <1>2 DEF Order, Behind
<1> QED
  BY <1>1, <1>3

LEMMA ServiceInit ==
  ASSUME AsStrictAsRequests, Init
  PROVE  ServiceInv
<1>1. PICK w \in Workloads : cfg = w.client /\ req \in w.requests
  BY DEF Init
<1>2. cfg \in JavaConfiguration
  BY <1>1, JavaClientAssumption
<1>3. cfg.backend = <<>> \/ \E b \in SUBSET Backends : cfg.backend = <<b>>
  BY <1>2 DEF JavaConfiguration
<1>4. getBackend # {}
  BY <1>1, <1>3 DEF AsStrictAsRequests, getBackend
<1>5. ASSUME NEW r \in Reqs, ShouldFailClose(req[r].mode), "cloudlogging" \in getBackend
      PROVE  Synchronous
  <2>1. cfg.backend # <<>> /\ "cloudlogging" \in cfg.backend[1]
    BY <1>5 DEF getBackend
  <2>2. cfg.mode # "BEST_EFFORT"
    BY <1>1, <1>5, <2>1 DEF AsStrictAsRequests
  <2> QED
    BY <1>2, <2>2 DEF JavaConfiguration, Modes, Synchronous, getLogMode, ShouldFailClose
<1>6. getBackend \subseteq Backends
  BY VettingInit, BackendType DEF VettingInv
<1>7. \A r \in Reqs : \A b \in Backends : at[r] \notin Behind[b]
  BY DEF Init, Behind, Backends
<1> QED
  BY <1>4, <1>5, <1>6, <1>7, VettingInit DEF ServiceInv, StoredBehind, Init

(* The settings of the client do not change.                               *)
LEMMA SameSettings ==
  cfg' = cfg => getBackend' = getBackend /\ (Synchronous' <=> Synchronous)
BY DEF getBackend, Synchronous, getLogMode

(* The exception of a call ends it: nothing has to be stored.              *)
LEMMA ThrowingKeeps ==
  ASSUME ServiceInv, NEW r \in Reqs, OnlyCall(r), at[r] \notin {"idle", "aborted"},
         req'[r].mode = req[r].mode, req'[r].shape = req[r].shape,
         at'[r] = "dropped" \/
           at'[r] = IF ShouldFailClose(req[r].mode) THEN "thrown" ELSE "swallowed"
  PROVE  StoredBehind(r)'
<1>1. getBackend' = getBackend /\ (Synchronous' <=> Synchronous)
  BY SameSettings DEF OnlyCall
<1>2. \A b \in getBackend : at'[r] \notin Behind[b]
  <2>1. getBackend \subseteq Backends
    BY BackendType DEF ServiceInv, VettingInv
  <2> QED
    BY <2>1 DEF Backends, Behind
<1> QED
  BY <1>1, <1>2 DEF ServiceInv, StoredBehind

(* The call goes on behind the backends before the k-th.                   *)
LEMMA GoingOnKeeps ==
  ASSUME ServiceInv, NEW r \in Reqs, OnlyCall(r), at[r] \notin {"idle", "aborted"},
         req'[r].mode = req[r].mode, req'[r].shape = req[r].shape,
         NEW k \in 1..4, GoOnFrom(r, k),
         ShouldFailClose(req[r].mode) => \A j \in 1..3 :
           j < k /\ Order[j] \in getBackend => <<Order[j], r>> \in stored'
  PROVE  StoredBehind(r)'
<1>1. getBackend' = getBackend /\ (Synchronous' <=> Synchronous)
  BY SameSettings DEF OnlyCall
<1>2. getBackend \subseteq {Order[1], Order[2], Order[3]}
  BY BackendType DEF ServiceInv, VettingInv, Backends, Order
<1>3. at'[r] \in {"remote", "local", "cloudlogging", "complete"}
  <2>1. PICK i \in 1..4 : at'[r] = Order[i]
    BY GoOnEffect DEF ServiceInv, VettingInv
  <2> QED
    BY <2>1 DEF Order
<1>4. ASSUME ShouldFailClose(req[r].mode), NEW b \in getBackend, at'[r] \in Behind[b]
      PROVE  <<b, r>> \in stored'
  <2>1. PICK j \in 1..3 : b = Order[j]
    BY <1>2
  <2>2. j < k
    BY <1>4, <2>1, GoOnSkips DEF ServiceInv, VettingInv
  <2> QED
    BY <1>4, <2>1, <2>2
<1> QED
  BY <1>1, <1>3, <1>4 DEF ServiceInv, StoredBehind

LEMMA ServiceInvStep == ServiceInv /\ [Next]_vars => ServiceInv'
<1> SUFFICES ASSUME ServiceInv, [Next]_vars PROVE ServiceInv'
  OBVIOUS
<1>0. VettingInv /\ VettingInv'
  BY VettingStep DEF ServiceInv
<1>1. ASSUME NEW s \in Reqs, cfg' = cfg, at'[s] = at[s], req'[s] = req[s],
             stored \subseteq stored'
      PROVE  StoredBehind(s)'
  BY <1>1, SameSettings DEF ServiceInv, StoredBehind
<1>2. ASSUME NEW r \in Reqs, OnlyCall(r), StoredBehind(r)' PROVE ServiceInv'
  <2>1. \A s \in Reqs : StoredBehind(s)'
    BY <1>1, <1>2 DEF OnlyCall
  <2> QED
    BY <1>0, <1>2, <2>1, SameSettings DEF ServiceInv, OnlyCall
<1>3. ASSUME NEW r \in Reqs, Log(r) PROVE ServiceInv'
  <2>1. OnlyCall(r) /\ at'[r] \in {"aborted", "validators"}
    BY <1>0, <1>3, LogEffect
  <2>2. \A b \in getBackend' : at'[r] \notin Behind[b]
    BY <1>0, <2>1, BackendType, SameSettings DEF VettingInv, Backends, Behind, OnlyCall
  <2>3. ASSUME ShouldFailClose(req'[r].mode), "cloudlogging" \in getBackend PROVE Synchronous
    BY <1>0, <1>3, <2>3, LogEffect DEF ServiceInv, StoredBehind, Synchronous, ShouldFailClose
  <2>4. StoredBehind(r)'
    BY <1>0, <1>3, <2>1, <2>2, <2>3, SameSettings, LogEffect DEF StoredBehind, OnlyCall
  <2> QED
    BY <1>2, <2>1, <2>4
<1>4. ASSUME NEW r \in Reqs, RunValidators(r) PROVE ServiceInv'
  <2>1. OnlyCall(r) /\ at[r] = "validators" /\ req' = req
    BY <1>0, <1>4, ValidatorsEffect
  <2>2. CASE at'[r] = "mutators"
    <3>1. \A b \in getBackend' : at'[r] \notin Behind[b]
      BY <1>0, <2>1, <2>2, BackendType, SameSettings DEF VettingInv, Backends, Behind, OnlyCall
    <3>2. StoredBehind(r)'
      BY <2>1, <2>2, <3>1, SameSettings DEF ServiceInv, StoredBehind, OnlyCall
    <3> QED
      BY <1>2, <2>1, <3>2
  <2>3. CASE at'[r] # "mutators"
    BY <1>0, <1>2, <1>4, <2>1, <2>3, ValidatorsEffect, ThrowingKeeps
  <2> QED
    BY <2>2, <2>3
<1>5. ASSUME NEW r \in Reqs, RunMutators(r) PROVE ServiceInv'
  <2>1. /\ OnlyCall(r) /\ at[r] = "mutators"
        /\ req'[r].mode = req[r].mode /\ req'[r].shape = req[r].shape
    BY <1>0, <1>5, MutatorsEffect DEF SameCore
  <2>2. CASE GoOnFrom(r, 1)
    <3>1. 1 \in 1..4 /\ \A j \in 1..3 : ~ j < 1
      OBVIOUS
    <3> QED
      BY <1>2, <2>1, <2>2, <3>1, GoingOnKeeps
  <2>3. CASE ~ GoOnFrom(r, 1)
    BY <1>0, <1>2, <1>5, <2>1, <2>3, MutatorsEffect, ThrowingKeeps
  <2> QED
    BY <2>2, <2>3
<1>6. ASSUME NEW r \in Reqs, RemoteProcess(r) PROVE ServiceInv'
  <2>1. BackendEffect("remote", 2, r)
    BY <1>0, <1>6, RemoteEffect
  <2>2. CASE GoOnFrom(r, 2) /\ (ShouldFailClose(req[r].mode) => <<"remote", r>> \in stored')
    <3>1. 2 \in 1..4 /\ \A j \in 1..3 : j < 2 => Order[j] = "remote"
      BY DEF Order
    <3>2. StoredBehind(r)'
      BY <2>1, <2>2, <3>1, GoingOnKeeps DEF BackendEffect, SameCore
    <3> QED
      BY <1>2, <2>1, <3>2 DEF BackendEffect
  <2>3. CASE at'[r] = IF ShouldFailClose(req[r].mode) THEN "thrown" ELSE "swallowed"
    BY <1>2, <2>1, <2>3, ThrowingKeeps DEF BackendEffect, SameCore
  <2> QED
    BY <2>1, <2>2, <2>3 DEF BackendEffect
<1>7. ASSUME NEW r \in Reqs, LocalProcess(r) PROVE ServiceInv'
  <2>1. BackendEffect("local", 3, r)
    BY <1>0, <1>7, LocalEffect
  <2>2. ShouldFailClose(req[r].mode) /\ "remote" \in getBackend => <<"remote", r>> \in stored'
    BY <2>1 DEF BackendEffect, ServiceInv, StoredBehind, Behind, OnlyCall
  <2>3. CASE GoOnFrom(r, 3) /\ (ShouldFailClose(req[r].mode) => <<"local", r>> \in stored')
    <3>1. 3 \in 1..4 /\ \A j \in 1..3 : j < 3 => Order[j] \in {"remote", "local"}
      BY DEF Order
    <3>2. StoredBehind(r)'
      BY <2>1, <2>2, <2>3, <3>1, GoingOnKeeps DEF BackendEffect, SameCore
    <3> QED
      BY <1>2, <2>1, <3>2 DEF BackendEffect
  <2>4. CASE at'[r] = IF ShouldFailClose(req[r].mode) THEN "thrown" ELSE "swallowed"
    BY <1>2, <2>1, <2>4, ThrowingKeeps DEF BackendEffect, SameCore
  <2> QED
    BY <2>1, <2>3, <2>4 DEF BackendEffect
<1>8. ASSUME NEW r \in Reqs, CloudProcess(r) PROVE ServiceInv'
  <2>1. at[r] = "cloudlogging" /\ OnlyCall(r) /\ req' = req
    BY <1>0, <1>8, CloudEffect
  <2>2. ShouldFailClose(req[r].mode) =>
          /\ "remote" \in getBackend => <<"remote", r>> \in stored'
          /\ "local" \in getBackend => <<"local", r>> \in stored'
          /\ "cloudlogging" \in getBackend => Synchronous
    BY <2>1 DEF ServiceInv, StoredBehind, Behind, OnlyCall
  <2>3. CASE GoOnFrom(r, 4) /\ (Synchronous => <<"cloudlogging", r>> \in stored')
    <3>1. ASSUME ShouldFailClose(req[r].mode), NEW j \in 1..3, Order[j] \in getBackend
          PROVE  <<Order[j], r>> \in stored'
      <4>1. j \in {1, 2, 3}
        OBVIOUS
      <4> QED
        BY <2>2, <2>3, <3>1, <4>1 DEF Order
    <3> QED
      BY <1>2, <2>1, <2>3, <3>1, GoingOnKeeps
  <2>4. CASE at'[r] = IF ShouldFailClose(req[r].mode) THEN "thrown" ELSE "swallowed"
    BY <1>2, <2>1, <2>4, ThrowingKeeps
  <2> QED
    BY <1>0, <1>8, <2>3, <2>4, CloudEffect
<1>9. CASE Background \/ UNCHANGED vars
  BY <1>0, <1>1, <1>9, BackgroundEffect, SameSettings DEF ServiceInv
<1> QED
  BY <1>3, <1>4, <1>5, <1>6, <1>7, <1>8, <1>9 DEF Next, Background

(* Only a call that was handed over can be durable.                        *)
LEMMA DurableHandedOver ==
  ASSUME ServiceInv, NEW r \in Reqs, Durable(r)
  PROVE  HandedOver(r)
BY DEF ServiceInv, VettingInv, VettedFirst, HasEntry, Durable

(* A step in which at most call r changes in the eyes of its caller, or    *)
(* becomes durable, told call by call.                                     *)
LEMMA ServiceStep ==
  ASSUME NEW r \in Reqs,
         \A s \in Reqs : s # r => /\ SubmittedMode(s)' = SubmittedMode(s)
                                  /\ Status(s)' = Status(s)
                                  /\ Durable(s)' <=> Durable(s),
         Durable(r) => Durable(r)',
         \/ /\ Status(r)' = Status(r)
            /\ SubmittedMode(r)' = SubmittedMode(r)
            /\ Durable(r)' => Durable(r) \/ Status(r) \notin {"idle", "filtered", "aborted"}
         \/ /\ Status(r) = "idle" /\ Status(r)' = "pending"
            /\ SubmittedMode(r)' \in Modes /\ ~ Durable(r)'
         \/ /\ Status(r) \in {"idle", "pending"} /\ Status(r)' = "aborted"
            /\ SubmittedMode(r)' = SubmittedMode(r) /\ ~ Durable(r)'
         \/ /\ Status(r) = "pending" /\ SubmittedMode(r)' = SubmittedMode(r)
            /\ \/ /\ Status(r)' = "acked"
                  /\ SubmittedMode(r) = "FAIL_CLOSE" => Durable(r)'
               \/ Status(r)' = "failed" /\ SubmittedMode(r) = "FAIL_CLOSE"
               \/ Status(r)' = "filtered" /\ ~ Durable(r)'
  PROVE  [Service!Next]_Service!svars
BY DEF Service!Next, Service!svars, Service!Submit, Service!Persist, Service!Answer,
   Service!Ack, Service!Fail, Service!Filter, Service!Abort, Service!Modes, Modes

(* What a step of a call does to the call: it keeps the mode and the shape *)
(* of its request once it has begun, and it ends only once.                *)
LEMMA CallEffect ==
  ASSUME VettingInv, NEW r \in Reqs, CallStep(r)
  PROVE  /\ OnlyCall(r)
         /\ at[r] \in {"idle", "validators", "mutators", "remote", "local", "cloudlogging"}
         /\ at[r] = "idle" => at'[r] = IF req[r].shape = "nil request"
                                       THEN "aborted" ELSE "validators"
         /\ at[r] # "idle" => /\ req'[r].mode = req[r].mode
                              /\ at'[r] \notin {"idle", "aborted"}
         /\ req'[r].shape = req[r].shape
<1>1. CASE Log(r)
  BY <1>1, LogEffect
<1>2. CASE RunValidators(r)
  BY <1>2, ValidatorsEffect
<1>p. ASSUME GoOnFrom(r, 1) \/ GoOnFrom(r, 2) \/ GoOnFrom(r, 3) \/ GoOnFrom(r, 4)
      PROVE  at'[r] \notin {"idle", "aborted"}
  <2>1. \A i \in 1..4 : Order[i] \notin {"idle", "aborted"}
    BY DEF Order
  <2>2. PICK k \in 1..4 : GoOnFrom(r, k)
    BY <1>p
  <2> QED
    BY <2>1, <2>2, GoOnEffect DEF VettingInv
<1>3. CASE RunMutators(r)
  BY <1>3, <1>p, MutatorsEffect DEF SameCore
<1>4. CASE RemoteProcess(r)
  BY <1>4, <1>p, RemoteEffect DEF BackendEffect, SameCore
<1>5. CASE LocalProcess(r)
  BY <1>5, <1>p, LocalEffect DEF BackendEffect, SameCore
<1>6. CASE CloudProcess(r)
  BY <1>6, <1>p, CloudEffect
<1> QED
  BY <1>1, <1>2, <1>3, <1>4, <1>5, <1>6 DEF CallStep

LEMMA CallRefines ==
  ASSUME ServiceInv, ServiceInv', NEW r \in Reqs, CallStep(r)
  PROVE  [Service!Next]_Service!svars
<1>0. /\ OnlyCall(r)
      /\ at[r] \in {"idle", "validators", "mutators", "remote", "local", "cloudlogging"}
      /\ at[r] = "idle" => at'[r] = IF req[r].shape = "nil request"
                                    THEN "aborted" ELSE "validators"
      /\ at[r] # "idle" => /\ req'[r].mode = req[r].mode
                           /\ at'[r] \notin {"idle", "aborted"}
      /\ req'[r].shape = req[r].shape
      /\ at'[r] \in Places
  BY CallEffect DEF ServiceInv, VettingInv, JavaTypeOK
<1>1. \A s \in Reqs : s # r => /\ SubmittedMode(s)' = SubmittedMode(s)
                               /\ Status(s)' = Status(s)
                               /\ Durable(s)' <=> Durable(s)
  <2>1. \A s \in Reqs : s # r => (Durable(s)' <=> Durable(s))
    BY <1>0, SameSettings DEF Durable, OnlyCall
  <2>2. \A s \in Reqs : s # r => SubmittedMode(s)' = SubmittedMode(s) /\ Status(s)' = Status(s)
    BY <1>0 DEF SubmittedMode, Status, OnlyCall
  <2> QED
    BY <2>1, <2>2
<1>2. Durable(r) => Durable(r)'
  BY <1>0, SameSettings DEF Durable, OnlyCall
<1>3. ASSUME Durable(r)' PROVE HandedOver(r)'
  BY <1>3 DEF ServiceInv, VettingInv, VettedFirst, HasEntry, Durable
<1>4. CASE at[r] = "idle" /\ req[r].shape = "nil request"
  <2>1. Status(r) = "idle" /\ Status(r)' = "aborted" /\ ~ Durable(r)'
    BY <1>0, <1>3, <1>4 DEF Status, HandedOver
  <2>2. SubmittedMode(r)' = SubmittedMode(r)
    BY <1>0, <1>4 DEF SubmittedMode
  <2> QED
    BY <1>1, <1>2, <2>1, <2>2, ServiceStep
<1>5. CASE at[r] = "idle" /\ req[r].shape # "nil request"
  <2>1. Status(r) = "idle" /\ Status(r)' = "pending" /\ ~ Durable(r)'
    BY <1>0, <1>3, <1>5 DEF Status, HandedOver
  <2>2. SubmittedMode(r)' \in Modes
    BY DEF SubmittedMode, ServiceInv, VettingInv, JavaTypeOK, Request, Modes
  <2> QED
    BY <1>1, <1>2, <2>1, <2>2, ServiceStep
<1>6. CASE at[r] # "idle"
  <2>1. /\ Status(r) = "pending"
        /\ SubmittedMode(r)' = SubmittedMode(r)
        /\ SubmittedMode(r)' = req'[r].mode
    BY <1>0, <1>6 DEF Status, SubmittedMode, ServiceInv, StoredBehind
  <2>2. /\ at'[r] = "thrown" => ShouldFailClose(req'[r].mode)
        /\ ShouldFailClose(req'[r].mode) => at'[r] # "swallowed"
    BY DEF ServiceInv, StoredBehind
  <2>3. at'[r] = "complete" /\ ShouldFailClose(req'[r].mode) => Durable(r)'
    <3>1. \A b \in getBackend' : "complete" \in Behind[b]
      <4>1. getBackend' \subseteq Backends
        BY <1>0, BackendType, SameSettings DEF ServiceInv, VettingInv, OnlyCall
      <4>2. \A b \in Backends : "complete" \in Behind[b]
        BY DEF Backends, Behind
      <4> QED
        BY <4>1, <4>2
    <3> QED
      BY <3>1 DEF ServiceInv, StoredBehind, Durable
  <2>4. CASE at'[r] \in {"complete", "swallowed"}
    <3>1. Status(r)' = "acked"
      BY <2>4 DEF Status
    <3> QED
      BY <1>1, <1>2, <2>1, <2>2, <2>3, <2>4, <3>1, ServiceStep DEF ShouldFailClose
  <2>5. CASE at'[r] = "thrown"
    <3>1. Status(r)' = "failed"
      BY <2>5 DEF Status
    <3> QED
      BY <1>1, <1>2, <2>1, <2>2, <2>5, <3>1, ServiceStep DEF ShouldFailClose
  <2>6. CASE at'[r] = "dropped"
    <3>1. Status(r)' = "filtered" /\ ~ Durable(r)'
      BY <1>3, <2>6 DEF Status, HandedOver
    <3> QED
      BY <1>1, <1>2, <2>1, <3>1, ServiceStep
  <2>7. CASE at'[r] \in {"validators", "mutators", "remote", "local", "cloudlogging"}
    <3>1. Status(r)' = "pending"
      BY <2>7 DEF Status
    <3> QED
      BY <1>1, <1>2, <2>1, <3>1, ServiceStep
  <2> QED
    BY <1>0, <1>6, <2>4, <2>5, <2>6, <2>7 DEF Places
<1> QED
  BY <1>4, <1>5, <1>6

LEMMA BackgroundRefines ==
  ASSUME ServiceInv, Background \/ UNCHANGED vars
  PROVE  [Service!Next]_Service!svars
<1>1. ASSUME NEW r \in Reqs, AgentPersists(r) \/ Write(r) PROVE [Service!Next]_Service!svars
  <2>1. /\ UNCHANGED <<cfg, at, req>> /\ stored \subseteq stored'
        /\ stored' \subseteq stored \cup {<<b, r>> : b \in Backends}
    BY <1>1 DEF AgentPersists, Write, Backends
  <2>2. HandedOver(r)
    BY <1>1 DEF AgentPersists, Write, ServiceInv, VettingInv, VettedFirst, HasEntry
  <2>3. \A s \in Reqs : SubmittedMode(s)' = SubmittedMode(s) /\ Status(s)' = Status(s)
    BY <2>1 DEF SubmittedMode, Status
  <2>4. \A s \in Reqs : s # r => (Durable(s)' <=> Durable(s))
    BY <2>1, SameSettings DEF Durable
  <2>5. Durable(r) => Durable(r)'
    BY <2>1, SameSettings DEF Durable
  <2>6. Status(r) \notin {"idle", "filtered", "aborted"}
    BY <2>2 DEF Status, HandedOver
  <2> QED
    BY <2>3, <2>4, <2>5, <2>6, ServiceStep
<1>2. CASE Close \/ CloseReturns \/ UNCHANGED vars
  BY <1>2 DEF Close, CloseReturns, vars, Service!svars, SubmittedMode, Status, Durable, getBackend
<1> QED
  BY <1>1, <1>2 DEF Background

(* The Java client implements AuditLogService, for any number of calls, if *)
(* it has a backend and its requests ask for no more than its writes to    *)
(* Cloud Logging give: exceptions of any backend, background writes and    *)
(* close included.                                                         *)
THEOREM ServiceImplemented ==
  ASSUME AsStrictAsRequests
  PROVE  Spec => ImplementsService
<1>1. Init => ServiceInv
  BY ServiceInit
<1>2. Init => Service!Init
  <2> SUFFICES ASSUME Init PROVE Service!Init
    OBVIOUS
  <2>1. \A r \in Reqs : ~ Durable(r)
    BY <1>1, DurableHandedOver DEF Init, HandedOver
  <2> QED
    BY <2>1 DEF Init, Service!Init, SubmittedMode, Status
<1>3. ServiceInv /\ ServiceInv' /\ [Next]_vars => [Service!Next]_Service!svars
  BY CallRefines, BackgroundRefines DEF Next, CallStep, Background
<1> QED
  BY <1>1, <1>2, <1>3, ServiceInvStep, PTL DEF Spec, ImplementsService, Service!Spec

=============================================================================
