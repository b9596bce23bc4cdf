-------------------------- MODULE UnaryInterceptor --------------------------
(***************************************************************************)
(* Interceptor.UnaryInterceptor of the Go client: one unary gRPC call from *)
(* the choice of its rule to the answer its caller gets.  The handler runs *)
(* in the middle; it can overwrite fields of the log request, its log mode *)
(* among them, and change the request message it was given.  Client.Log is *)
(* taken at its word, as in StreamInterceptor.                             *)
(***************************************************************************)
EXTENDS AuditRules, SecurityContext

CONSTANTS
  Interceptors,   \* interceptors that are put together in code
  Methods,        \* method names that are called
  Requests        \* what comes with a call: metadata, justification, message

Modes == {"UNSPECIFIED", "FAIL_CLOSE", "BEST_EFFORT"}

(* Messages by what encoding/json makes of them: a protobuf Struct, which  *)
(* is not converted at all; a JSON object; null; another JSON value; an    *)
(* error.                                                                  *)
MessageKinds == {"struct", "object", "null", "scalar", "unmarshalable"}

(* A handler's error has a gRPC status or it has not.                      *)
HandlerErrors == {"status error", "plain error"}

(* NewInterceptor applies whatever options it is given: there may be no    *)
(* client, no security context (<<>>; else a list of its one list of JWT   *)
(* rules) and no rules.  Of its client it matters further whether that     *)
(* asks for a justification without adding runtime info before it.         *)
Interceptor ==
  [logMode  : Modes,
   client   : Modes \cup {"none"},
   justifiesFirst : BOOLEAN,
   rules    : Seq(Rule),
   security : Seq(Seq(JwtRule))]

Request == [metadata : Metadata, justified : BOOLEAN, message : MessageKinds]

LogRequest ==
  [mode : Modes, type : LogTypeNames \cup {"UNSPECIFIED"}, service : Name,
   principal : Emails \cup {NoPrincipal}, token : BOOLEAN, resource : BOOLEAN,
   mapless : BOOLEAN,   \* its Metadata is a Struct that has no map
   request : {"none", "received", "changed"}, response : BOOLEAN,
   status : {"none", "its own", "INTERNAL"}]

ASSUME UnaryAssumption ==
  /\ Interceptors \subseteq Interceptor
  /\ Methods \subseteq Method
  /\ Requests \subseteq Request
  /\ Emails \cap (BadTokens \cup {NoPrincipal}) = {}

VARIABLES
  interceptor,   \* the interceptor
  call,          \* the call: its method, and the Request
  pc,            \* where the call is
  logReq,        \* its log request
  calls,         \* number of times the handler was called
  outcome,       \* what the handler returned
  entry,         \* what Client.Log did, and with which log request
  reply          \* what the caller gets

vars == <<interceptor, call, pc, logReq, calls, outcome, entry, reply>>

NoReply == [resp |-> FALSE, err |-> "none"]
NoLogReq ==
  [mode |-> "UNSPECIFIED", type |-> "UNSPECIFIED", service |-> <<>>,
   principal |-> NoPrincipal, token |-> FALSE, resource |-> FALSE, mapless |-> FALSE,
   request |-> "none", response |-> FALSE, status |-> "none"]

TypeOK ==
  /\ interceptor \in Interceptor
  /\ call \in {<<>>} \cup (Methods \X Requests)
  /\ pc \in {"idle", "called", "unaudited", "audited", "responded", "failed",
             "returned", "panicked"}
  /\ logReq \in LogRequest
  /\ calls \in Nat
  /\ outcome \in {"none"} \cup MessageKinds \cup HandlerErrors
  /\ entry \in [result : {"none", "stored", "dropped", "lost", "failed"},
                req : LogRequest]
  /\ reply \in [resp : BOOLEAN, err : {"none", "nil", "handler", "interceptor"}]
  /\ reply.err = "nil" => reply.resp

InitCall ==
  /\ call = <<>>
  /\ pc = "idle"
  /\ logReq = NoLogReq
  /\ calls = 0
  /\ outcome = "none"
  /\ entry = [result |-> "none", req |-> NoLogReq]
  /\ reply = NoReply

Init == interceptor \in Interceptors /\ InitCall

interceptorMode == interceptor.logMode
method == call[1]
request == call[2]
ruleIndex == mostRelevantRule(method, interceptor.rules)
rule == interceptor.rules[ruleIndex]

ShouldFailClose(mode) == mode = "FAIL_CLOSE"

(* toProtoStruct fails on what is not a JSON object or null.               *)
toProtoStruct(message) == message \in {"struct", "object", "null"}

(* A caller calls the service.                                             *)
Call ==
  /\ pc = "idle"
  /\ call' \in Methods \X Requests
  /\ pc' = "called"
  /\ UNCHANGED <<interceptor, logReq, calls, outcome, entry, reply>>

-----------------------------------------------------------------------------
(* Before the handler.                                                     *)

NoRule ==
  /\ pc = "called"
  /\ ruleIndex = 0
  /\ pc' = "unaudited"
  /\ UNCHANGED <<interceptor, call, logReq, calls, outcome, entry, reply>>

Named == ruleIndex # 0 /\ serviceName(method) # <<>>
HasContext == interceptor.security # <<>>

principal ==
  IF HasContext THEN RequestPrincipal(request.metadata, interceptor.security[1])
  ELSE NoPrincipal

Prepared ==
  /\ Named
  /\ HasContext
  /\ principal # NoPrincipal
  /\ shouldLogReq(rule) => toProtoStruct(request.message)

(* Mutant: failing open, the call is answered in place of the handler.     *)
handleReturnUnaryEmpty ==
  /\ pc = "called"
  /\ ruleIndex # 0
  /\ ~ Prepared
  /\ Named => HasContext
  /\ pc' = "returned"
  /\ reply' = [resp |-> FALSE,
               err  |-> IF ShouldFailClose(interceptorMode) THEN "interceptor" ELSE "nil"]
  /\ UNCHANGED <<interceptor, call, logReq, calls, outcome, entry>>

(* The service name, the principal or the converted request cannot be had: *)
(* the call is refused or goes on without audit.                           *)
handleReturnUnary ==
  /\ pc = "called"
  /\ ruleIndex # 0
  /\ ~ Prepared
  /\ Named => HasContext
  /\ IF ShouldFailClose(interceptorMode)
     THEN pc' = "returned" /\ reply' = [resp |-> FALSE, err |-> "interceptor"]
     ELSE pc' = "unaudited" /\ reply' = reply
  /\ UNCHANGED <<interceptor, call, logReq, calls, outcome, entry>>

(* fillJVSToken, the log type, the principal and setReq.                   *)
Filled ==
  [NoLogReq EXCEPT
     !.mode = interceptorMode,
     !.service = serviceName(method),
     !.token = request.metadata # <<>> /\ request.justified,
     !.type = IF rule.logType \in LogTypeNames THEN rule.logType ELSE "UNSPECIFIED",
     !.principal = principal,
     !.request = IF shouldLogReq(rule) THEN "received" ELSE "none"]

Prepare ==
  /\ pc = "called"
  /\ Prepared
  /\ pc' = "audited"
  /\ logReq' = Filled
  /\ UNCHANGED <<interceptor, call, calls, outcome, entry, reply>>

-----------------------------------------------------------------------------
(* The handler.                                                            *)

HandlerReply(o) ==
  [resp |-> o \in MessageKinds, err |-> IF o \in HandlerErrors THEN "handler" ELSE "nil"]

(* LogReqFromCtx gives a handler that is not audited an empty log request, *)
(* whatever becomes of it.                                                 *)
RunUnaudited ==
  /\ pc = "unaudited"
  /\ calls' = calls + 1
  /\ outcome' \in MessageKinds \cup HandlerErrors
  /\ reply' = HandlerReply(outcome')
  /\ pc' = "returned"
  /\ UNCHANGED <<interceptor, call, logReq, entry>>

(* setErrorStatus gives the log request the status of the error.           *)
StatusOf(o) == CASE o = "status error" -> "its own"
                 [] o = "plain error"  -> "INTERNAL"
                 [] OTHER              -> "none"

(* Mutant: the request is converted after the handler.                     *)
AfterHandlerConverted(changed) ==
  IF changed /\ logReq.request = "received" THEN "changed" ELSE logReq.request

(* The request that setReq put into the log request is a copy, except that *)
(* a Struct is the message itself: a handler that changes it changes both. *)
AfterHandler(changed) ==
  IF changed /\ request.message = "struct" /\ logReq.request = "received"
  THEN "changed" ELSE logReq.request

(* The handler overwrites the mode, describes the resource, changes the    *)
(* message, and may leave a Metadata Struct that has no map.               *)
RunAudited ==
  /\ pc = "audited"
  /\ calls' = calls + 1
  /\ outcome' \in MessageKinds \cup HandlerErrors
  /\ \E m \in Modes, described, changed, mapless \in BOOLEAN :
       logReq' = [logReq EXCEPT !.mode = m, !.resource = described, !.mapless = mapless,
                                !.request = AfterHandler(changed),
                                !.status = StatusOf(outcome')]
  /\ pc' = IF outcome' \in HandlerErrors THEN "failed" ELSE "responded"
  /\ UNCHANGED <<interceptor, call, entry, reply>>

-----------------------------------------------------------------------------
(* After the handler.                                                      *)

HasClient == interceptor.client # "none"

(* The mode that Client.Log goes by, and what it can make of the entry:    *)
(* stored or filtered out, unless it has no resource name; or not stored,  *)
(* which is an error in fail-close mode only.                              *)
effectiveMode ==
  IF logReq.mode = "UNSPECIFIED" THEN interceptor.client ELSE logReq.mode

(* The justification processor panics on a Metadata Struct without a map.  *)
(* RuntimeInfo, which runs before it on a known platform, makes one.       *)
Mapless == interceptor.justifiesFirst /\ logReq.mapless

Outcomes ==
  (IF ~ logReq.resource THEN {} ELSE IF Mapless THEN {"dropped"} ELSE {"stored", "dropped"})
    \cup {IF ShouldFailClose(effectiveMode) THEN "failed" ELSE "lost"}

(* The log is best effort after an error of the handler: the caller gets   *)
(* that error.                                                             *)
LogError ==
  /\ pc = "failed"
  /\ HasClient
  /\ \E res \in Outcomes : entry' = [result |-> res, req |-> logReq]
  /\ pc' = "returned"
  /\ reply' = HandlerReply(outcome)
  /\ UNCHANGED <<interceptor, call, logReq, calls, outcome>>

(* Mutants: an error of the log is always returned; the client's mode      *)
(* decides.                                                                *)
handleReturnWithError(failed) ==
  reply' = [resp |-> TRUE, err |-> IF failed THEN "interceptor" ELSE "nil"]

handleReturnClientMode(failed) ==
  reply' = [resp |-> TRUE,
            err  |-> IF failed /\ ShouldFailClose(interceptor.client)
                     THEN "interceptor" ELSE "nil"]

(* handleReturnWithResponse goes by the mode of the interceptor.           *)
handleReturnWithResponse(failed) ==
  reply' = [resp |-> TRUE,
            err  |-> IF failed /\ ShouldFailClose(interceptorMode)
                     THEN "interceptor" ELSE "nil"]

SetRespFails ==
  /\ pc = "responded"
  /\ shouldLogResp(rule)
  /\ ~ toProtoStruct(outcome)
  /\ handleReturnWithResponse(TRUE)
  /\ pc' = "returned"
  /\ UNCHANGED <<interceptor, call, logReq, calls, outcome, entry>>

RespSet == shouldLogResp(rule) => toProtoStruct(outcome)

(* Mutant: failing open, the handler is called as before the call.         *)
LogResponseRerun ==
  /\ pc = "responded"
  /\ RespSet
  /\ HasClient
  /\ \E res \in Outcomes : entry' = [result |-> res, req |-> logReq]
  /\ handleReturnWithResponse(entry'.result = "failed")
  /\ calls' = IF entry'.result = "failed" /\ reply'.err = "nil" THEN calls + 1 ELSE calls
  /\ pc' = "returned"
  /\ UNCHANGED <<interceptor, call, logReq, outcome>>

LogResponse ==
  /\ pc = "responded"
  /\ RespSet
  /\ HasClient
  /\ logReq' = [logReq EXCEPT !.response = shouldLogResp(rule)]
  /\ \E res \in Outcomes : entry' = [result |-> res, req |-> logReq']
  /\ handleReturnWithResponse(entry'.result = "failed")
  /\ pc' = "returned"
  /\ UNCHANGED <<interceptor, call, calls, outcome>>

(* Client.Log panics on its way through the mutators: the entry was        *)
(* valid, its principal not filtered out, and its token good.              *)
LogPanics ==
  /\ pc = "failed" \/ (pc = "responded" /\ RespSet)
  /\ HasClient
  /\ Mapless
  /\ logReq.resource
  /\ logReq.token
  /\ pc' = "panicked"
  /\ UNCHANGED <<interceptor, call, logReq, calls, outcome, entry, reply>>

(* An interceptor without security context or without client dereferences  *)
(* nil when it needs it.                                                   *)
NilDereference ==
  /\ \/ pc = "called" /\ Named /\ ~ HasContext
     \/ pc = "failed" /\ ~ HasClient
     \/ pc = "responded" /\ RespSet /\ ~ HasClient
  /\ pc' = "panicked"
  /\ UNCHANGED <<interceptor, call, logReq, calls, outcome, entry, reply>>

Next ==
  \/ Call \/ NoRule \/ handleReturnUnary \/ Prepare
  \/ RunUnaudited \/ RunAudited
  \/ LogError \/ SetRespFails \/ LogResponse \/ LogPanics \/ NilDereference

Spec == Init /\ [][Next]_vars

-----------------------------------------------------------------------------
(* Properties.                                                             *)

Answered == pc = "returned"

(* However the interceptor's own steps fail, before the handler or after   *)
(* it, the handler never runs twice, and an answer that is not an error of *)
(* the interceptor is the handler's: its response, or its error, which no  *)
(* failure of the audit log may hide.                                      *)
HandlerDecides ==
  /\ calls <= 1
  /\ Answered /\ reply.err # "interceptor" => calls = 1 /\ reply = HandlerReply(outcome)
  /\ outcome \in HandlerErrors /\ Answered => reply.err = "handler"

(* Failing open, the interceptor continues "without impeding the           *)
(* application in any way": only a fail-close interceptor answers with an  *)
(* error of its own, whatever mode the handler or the client chose.        *)
FailsOpen ==
  Answered /\ ~ ShouldFailClose(interceptorMode) => reply.err # "interceptor"

(* A fail-close interceptor answers a call with a response and no error    *)
(* only if the entry of the call was stored or filtered out by its         *)
(* principal, or no rule applies to the method, or the handler itself gave *)
(* the entry another mode.                                                 *)
AnsweredAfterStored ==
  /\ Answered
  /\ ShouldFailClose(interceptorMode)
  /\ reply = [resp |-> TRUE, err |-> "nil"]
  =>
  \/ entry.result \in {"stored", "dropped"}
  \/ IsMostRelevant(0, method, interceptor.rules)
  \/ ~ ShouldFailClose(effectiveMode)

(* The rule that an interceptor applies is one that applies to the method, *)
(* if there is any, and where the lengths of selectors tell what is        *)
(* relevant, no other rule is more relevant, whatever the order in which   *)
(* the rules are written: another choice leaves requests out of the log,   *)
(* or puts what must not be there into it.  Where lengths do not tell, the *)
(* order decides: "/s/h*" wins over "/s/h" unless it comes after it.       *)
RuleIsMostRelevant ==
  call # <<>> => IsMostRelevant(ruleIndex, method, interceptor.rules)

(* A stored entry is the one of its call: it is as its rule says, its      *)
(* principal is claimed by a token of the call, the entry of an error has  *)
(* the status of that error and no response, and the request in it is what *)
(* the caller sent, not what the handler made of it (except that a Struct  *)
(* message is not copied).                                                 *)
EntryOfItsCall ==
  entry.result = "stored" =>
    LET q == entry.req
    IN  /\ q.request = "none" <=> ~ shouldLogReq(rule)
        /\ q.response <=> shouldLogResp(rule) /\ outcome \notin HandlerErrors
        /\ \E key \in HeaderKeys :
             \E k \in DOMAIN request.metadata[1][key] :
               request.metadata[1][key][k].token = q.principal
        /\ q.status = StatusOf(outcome)
        /\ q.request = "changed" => request.message = "struct"

=============================================================================
