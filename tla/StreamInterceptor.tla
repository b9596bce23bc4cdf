-------------------------- MODULE StreamInterceptor --------------------------
(***************************************************************************)
(* Interceptor.StreamInterceptor and serverStreamWrapper of the Go client: *)
(* one gRPC stream whose handler calls RecvMsg and SendMsg, each from at   *)
(* most one goroutine at a time, while the wrapper pairs requests with     *)
(* responses in audit log entries.                                         *)
(*                                                                         *)
(* Requests and responses are numbered in the order they arrive or are     *)
(* sent; 0 is nil.  Client.Log is taken at its word (AuditLogService): it  *)
(* stores the entry, fails with an error if the entry's mode is fail-close,*)
(* or loses it silently if it is not.  The principal is one that the       *)
(* client's filter lets through.                                           *)
(***************************************************************************)
EXTENDS Naturals, Sequences

CONSTANTS
  MaxReqs,      \* messages the peer sends at most
  MaxResps,     \* messages the handler sends at most
  Directives,   \* rule directives to consider
  ModePairs,    \* <<interceptor log mode, client log mode>> to consider
  HandlerModes  \* log modes that the handler may set for its stream

Modes == {"UNSPECIFIED", "FAIL_CLOSE", "BEST_EFFORT"}
AllDirectives == {"AUDIT", "AUDIT_REQUEST_ONLY", "AUDIT_REQUEST_AND_RESPONSE"}

ASSUME StreamAssumption ==
  /\ MaxReqs \in Nat
  /\ MaxResps \in Nat
  /\ Directives \subseteq AllDirectives
  /\ ModePairs \subseteq Modes \X Modes
  /\ HandlerModes \subseteq Modes

VARIABLES
  rule,       \* directive of the rule that matches the method
  modes,      \* log modes of the interceptor and of its client
  sequential, \* the handler makes one call at a time
  phase,      \* where StreamInterceptor is
  baseline,   \* which request the handler last described in the baseline log request
  baseMode,   \* log mode of the baseline log request
  filled,     \* requests that the handler described there
  chosen,     \* log modes that the handler has set there
  lastReq,    \* serverStreamWrapper.lastReq
  received,   \* requests read from the stream
  recv,       \* the goroutine in RecvMsg
  send,       \* the goroutine in SendMsg
  resps,      \* responses that the handler has passed to SendMsg
  sent,       \* responses written to the stream
  abandoned,  \* requests whose entry was given up: a conversion failed
  log         \* entries passed to Client.Log, in order

handlerVars == <<baseline, baseMode, filled, chosen>>
vars == <<rule, modes, sequential, phase, handlerVars, lastReq, received, recv,
          send, resps, sent, abandoned, log>>

NoReq == 0
Requests == 0..MaxReqs
Responses == 0..MaxResps

(* An entry: the request and the response it contains, the request that    *)
(* its baseline describes, the call of SendMsg that it was made for (0: a  *)
(* call of RecvMsg or the end of the stream), the log mode that applies to *)
(* it, the handler's error status, and what became of it.                  *)
LogEntry ==
  [req : Requests, resp : Responses, base : Requests, of : Responses, mode : Modes,
   status : BOOLEAN, result : {"stored", "lost", "failed"}]

TypeOK ==
  /\ rule \in Directives
  /\ modes \in ModePairs
  /\ sequential \in BOOLEAN
  /\ phase \in {"called", "audited", "unaudited", "refused", "returned"}
  /\ baseline \in Requests
  /\ baseMode \in Modes
  /\ chosen \subseteq HandlerModes
  /\ filled \subseteq Requests
  /\ lastReq \in Requests
  /\ received \in Requests
  /\ recv \in [pc : {"idle", "waiting", "arrived", "logging"},
               base : Requests, mode : Modes, msg : Requests, old : Requests]
  /\ recv.pc = "logging" => recv.old # NoReq
  /\ send \in [pc : {"idle", "cloned", "logging", "sending"},
               base : Requests, mode : Modes, req : Requests, resp : Responses]
  /\ resps \in Responses
  /\ sent \subseteq Responses
  /\ abandoned \subseteq Requests
  /\ log \in Seq(LogEntry)

IdleRecv == [pc |-> "idle", base |-> 0, mode |-> "UNSPECIFIED", msg |-> 0, old |-> 0]
IdleSend == [pc |-> "idle", base |-> 0, mode |-> "UNSPECIFIED", req |-> 0, resp |-> 0]

Init ==
  /\ rule \in Directives
  /\ modes \in ModePairs
  /\ sequential \in BOOLEAN
  /\ phase = "called"
  /\ baseline = 0
  /\ baseMode = "UNSPECIFIED"
  /\ filled = {}
  /\ chosen = {}
  /\ lastReq = NoReq
  /\ received = 0
  /\ recv = IdleRecv
  /\ send = IdleSend
  /\ resps = 0
  /\ sent = {}
  /\ abandoned = {}
  /\ log = <<>>

shouldLogReq == rule \in {"AUDIT_REQUEST_ONLY", "AUDIT_REQUEST_AND_RESPONSE"}
shouldLogResp == rule = "AUDIT_REQUEST_AND_RESPONSE"

interceptorMode == modes[1]
clientMode == modes[2]

-----------------------------------------------------------------------------
(* StreamInterceptor before the handler runs.                              *)

(* No rule matches the method: the handler gets the bare stream.           *)
NoRule ==
  /\ phase = "called"
  /\ phase' = "unaudited"
  /\ UNCHANGED <<rule, modes, sequential, handlerVars, lastReq, received, recv, send,
                 resps, sent, abandoned, log>>

(* The service name or the principal cannot be had: handleReturnStream     *)
(* returns the error, or fails open and calls the handler on the bare      *)
(* stream (with the context in the place of the service implementation).   *)
handleReturnStream ==
  /\ phase = "called"
  /\ phase' = IF interceptorMode = "FAIL_CLOSE" THEN "refused" ELSE "unaudited"
  /\ UNCHANGED <<rule, modes, sequential, handlerVars, lastReq, received, recv, send,
                 resps, sent, abandoned, log>>

(* The handler is called on the wrapped stream.                            *)
CallHandler ==
  /\ phase = "called"
  /\ phase' = "audited"
  /\ UNCHANGED <<rule, modes, sequential, handlerVars, lastReq, received, recv, send,
                 resps, sent, abandoned, log>>

-----------------------------------------------------------------------------
(* Client.Log gives an entry without a mode of its own the client's mode.  *)
LogMode(mode) == IF mode = "UNSPECIFIED" THEN clientMode ELSE mode

(* What it then does with the entry.                                       *)
Results(mode) == IF LogMode(mode) = "FAIL_CLOSE" THEN {"stored", "failed"}
                                                 ELSE {"stored", "lost"}

Logged(req, resp, base, of, mode, status, result) ==
  log' = Append(log, [req |-> req, resp |-> resp, base |-> base, of |-> of,
                      mode |-> LogMode(mode), status |-> status, result |-> result])

Wrapper == <<rule, modes, sequential, phase>>

-----------------------------------------------------------------------------
(* The handler and RecvMsg.  After RecvMsg returned a request, recv.msg is *)
(* that request; after an error it is 0.                                   *)

MayCall(other) == phase = "audited" /\ (sequential => other.pc = "idle")

(* The handler describes the request it has just got in the log request of *)
(* its context (LogReqFromCtx), before it answers it.                      *)
Fill ==
  /\ MayCall(send)
  /\ recv.pc = "idle"
  /\ recv.msg # NoReq
  /\ lastReq = recv.msg
  /\ baseline' = recv.msg
  /\ filled' = filled \cup {recv.msg}
  /\ UNCHANGED <<Wrapper, baseMode, chosen, lastReq, received, recv, send, resps, sent, abandoned, log>>

(* The handler sets the log mode of that log request, from a goroutine     *)
(* that is in neither call.                                                *)
SetMode(mode) ==
  /\ MayCall(recv) /\ MayCall(send)
  /\ recv.pc = "idle" \/ send.pc = "idle"
  /\ baseMode' = mode
  /\ chosen' = chosen \cup {mode}
  /\ UNCHANGED <<Wrapper, baseline, filled, lastReq, received, recv, send, resps, sent,
                 abandoned, log>>

(* The baseline is cloned, with its mode, before RecvMsg blocks.           *)
RecvCall ==
  /\ MayCall(send)
  /\ recv.pc = "idle"
  /\ recv' = [pc |-> "waiting", base |-> baseline, mode |-> baseMode,
              msg |-> recv.msg, old |-> NoReq]
  /\ UNCHANGED <<Wrapper, handlerVars, lastReq, received, send, resps, sent,
                 abandoned, log>>

RecvArrives ==
  /\ recv.pc = "waiting"
  /\ phase = "audited"
  /\ received < MaxReqs
  /\ received' = received + 1
  /\ recv' = [recv EXCEPT !.pc = "arrived", !.msg = received']
  /\ UNCHANGED <<Wrapper, handlerVars, lastReq, send, resps, sent, abandoned, log>>

(* End of stream, a broken stream, or a handler that has returned.         *)
RecvFails ==
  /\ recv.pc = "waiting"
  /\ recv' = IdleRecv
  /\ UNCHANGED <<Wrapper, handlerVars, lastReq, received, send, resps, sent,
                 abandoned, log>>

RecvReturn(m) == recv' = [IdleRecv EXCEPT !.msg = m]

(* Mutant: the request that is replaced is not handed out for logging.     *)
swapLastReqForgets ==
  /\ recv.pc = "arrived"
  /\ lastReq' = recv.msg
  /\ RecvReturn(recv.msg)
  /\ UNCHANGED <<Wrapper, handlerVars, received, send, resps, sent, abandoned, log>>

(* Mutant: the request that is replaced is logged also when there is none. *)
swapLastReqUnchecked ==
  /\ recv.pc = "arrived"
  /\ lastReq' = recv.msg
  /\ IF shouldLogReq
     THEN recv' = [recv EXCEPT !.pc = "logging", !.old = lastReq]
     ELSE RecvReturn(recv.msg)
  /\ UNCHANGED <<Wrapper, handlerVars, received, send, resps, sent, abandoned, log>>

(* swapLastReq; there is nothing to log if no request was waiting for its  *)
(* response, or if the rule does not log requests.                         *)
swapLastReq ==
  /\ recv.pc = "arrived"
  /\ lastReq' = recv.msg
  /\ IF lastReq # NoReq /\ shouldLogReq
     THEN recv' = [recv EXCEPT !.pc = "logging", !.old = lastReq]
     ELSE RecvReturn(recv.msg)
  /\ UNCHANGED <<Wrapper, handlerVars, received, send, resps, sent, abandoned, log>>

(* Mutant: the request just received is logged for the one before it.      *)
RecvLogNewest ==
  /\ recv.pc = "logging"
  /\ \E result \in Results(recv.mode) :
       /\ Logged(recv.msg, 0, recv.base, 0, recv.mode, FALSE, result)
       /\ RecvReturn(IF result = "failed" THEN NoReq ELSE recv.msg)
  /\ UNCHANGED <<Wrapper, handlerVars, lastReq, received, send, resps, sent, abandoned>>

(* The request that got no response is logged on its own.                  *)
RecvLog ==
  /\ recv.pc = "logging"
  /\ \E result \in Results(recv.mode) :
       /\ Logged(recv.old, 0, recv.base, 0, recv.mode, FALSE, result)
       /\ RecvReturn(IF result = "failed" THEN NoReq ELSE recv.msg)
  /\ UNCHANGED <<Wrapper, handlerVars, lastReq, received, send, resps, sent, abandoned>>

RecvConvertFails ==
  /\ recv.pc = "logging"
  /\ abandoned' = abandoned \cup {recv.old}
  /\ RecvReturn(NoReq)
  /\ UNCHANGED <<Wrapper, handlerVars, lastReq, received, send, resps, sent, log>>

-----------------------------------------------------------------------------
(* SendMsg.                                                                *)

SendCall ==
  /\ MayCall(recv)
  /\ send.pc = "idle"
  /\ resps < MaxResps
  /\ resps' = resps + 1
  /\ send' = [pc |-> "cloned", base |-> baseline, mode |-> baseMode,
              req |-> NoReq, resp |-> resps + 1]
  /\ UNCHANGED <<Wrapper, handlerVars, lastReq, received, recv, sent, abandoned, log>>

(* Mutant: the last request is read and not taken away.                    *)
popLastReqKeeps ==
  /\ send.pc = "cloned"
  /\ send' = [send EXCEPT !.pc = "logging", !.req = lastReq]
  /\ UNCHANGED <<Wrapper, handlerVars, lastReq, received, recv, resps, sent,
                 abandoned, log>>

popLastReq ==
  /\ send.pc = "cloned"
  /\ send' = [send EXCEPT !.pc = "logging", !.req = lastReq]
  /\ lastReq' = NoReq
  /\ UNCHANGED <<Wrapper, handlerVars, received, recv, resps, sent, abandoned, log>>

(* Mutant: an error of the log does not keep the response back.            *)
SendLogAnyway ==
  /\ send.pc = "logging"
  /\ \E result \in Results(send.mode) :
       Logged(IF shouldLogReq THEN send.req ELSE NoReq,
              IF shouldLogResp THEN send.resp ELSE 0,
              send.base, send.resp, send.mode, FALSE, result)
  /\ send' = [send EXCEPT !.pc = "sending"]
  /\ UNCHANGED <<Wrapper, handlerVars, lastReq, received, recv, resps, sent, abandoned>>

(* The entry is logged before the response is sent; an error of the log    *)
(* keeps the response back.                                                *)
SendLog ==
  /\ send.pc = "logging"
  /\ \E result \in Results(send.mode) :
       /\ Logged(IF shouldLogReq THEN send.req ELSE NoReq,
                 IF shouldLogResp THEN send.resp ELSE 0,
                 send.base, send.resp, send.mode, FALSE, result)
       /\ send' = IF result = "failed" THEN IdleSend ELSE [send EXCEPT !.pc = "sending"]
  /\ UNCHANGED <<Wrapper, handlerVars, lastReq, received, recv, resps, sent, abandoned>>

SendConvertFails ==
  /\ send.pc = "logging"
  /\ (send.req # NoReq /\ shouldLogReq) \/ shouldLogResp
  /\ abandoned' = abandoned \cup ({send.req} \ {NoReq})
  /\ send' = IdleSend
  /\ UNCHANGED <<Wrapper, handlerVars, lastReq, received, recv, resps, sent, log>>

SendWire ==
  /\ send.pc = "sending"
  /\ sent' \in {sent, sent \cup {send.resp}}
  /\ send' = IdleSend
  /\ UNCHANGED <<Wrapper, handlerVars, lastReq, received, recv, resps, abandoned, log>>

-----------------------------------------------------------------------------
(* The handler returns, having waited for its own goroutines, except one   *)
(* that is blocked in RecvMsg and that the end of the stream releases.  An *)
(* error is logged with the baseline; that entry has no request and no     *)
(* response, and its own failure is ignored.                               *)
HandlerReturn ==
  /\ phase = "audited"
  /\ send.pc = "idle"
  /\ recv.pc \in {"idle", "waiting"}
  /\ phase' = "returned"
  /\ \/ log' = log
     \/ \E result \in Results(baseMode) :
          Logged(NoReq, 0, baseline, 0, baseMode, TRUE, result)
  /\ UNCHANGED <<rule, modes, sequential, handlerVars, lastReq, received,
                 recv, send, resps, sent, abandoned>>

Next ==
  \/ NoRule \/ handleReturnStream \/ CallHandler
  \/ Fill \/ \E mode \in HandlerModes : SetMode(mode)
  \/ RecvCall \/ RecvArrives \/ RecvFails \/ swapLastReq \/ RecvLog \/ RecvConvertFails
  \/ SendCall \/ popLastReq \/ SendLog \/ SendConvertFails \/ SendWire
  \/ HandlerReturn

Spec == Init /\ [][Next]_vars

-----------------------------------------------------------------------------
(* Properties.                                                             *)

(* "We only log each request and response once": whatever the order in     *)
(* which the two goroutines swap and pop the last request, no request is   *)
(* in two entries, and no two entries are made for one response.           *)
LoggedOnce ==
  \A i, j \in 1..Len(log) : i # j =>
    /\ log[i].req # NoReq => log[i].req # log[j].req
    /\ log[i].of # 0 => log[i].of # log[j].of

InLog(k) == \E i \in 1..Len(log) : log[i].req = k

(* No request slips between swapLastReq and popLastReq: one that was read  *)
(* from the stream, under a rule that logs requests, is in an entry, was   *)
(* given up because of a conversion, is in the hands of one of the two     *)
(* goroutines, or still waits for its response as the last request.        *)
NoRequestForgotten ==
  shouldLogReq => \A k \in 1..received :
    \/ InLog(k)
    \/ k \in abandoned
    \/ recv.pc = "arrived" /\ recv.msg = k
    \/ recv.pc = "logging" /\ recv.old = k
    \/ send.pc = "logging" /\ send.req = k
    \/ lastReq = k

(* Fail-close: a response is written to the stream only after the entry    *)
(* made for it was stored, also while RecvMsg runs and logs concurrently.  *)
(* The mode is the client's, unless the handler has set another for its    *)
(* stream: only a response whose entry the handler itself made best effort *)
(* can leave a fail-close client without an entry, and one whose entry it  *)
(* made fail close does not leave a best-effort client without one.        *)
SentAfterStored ==
  \A m \in sent : \E i \in 1..Len(log) :
    /\ log[i].of = m
    /\ log[i].mode \in {clientMode} \cup chosen
    /\ log[i].mode = "FAIL_CLOSE" => log[i].result = "stored"

(* A handler that makes one call at a time and describes each request in   *)
(* the shared baseline when it gets it finds that description, and not the *)
(* one of an earlier or a later request, in the entry of the request.      *)
OwnContext ==
  sequential => \A i \in 1..Len(log) :
    log[i].req \in filled \ {NoReq} => log[i].base = log[i].req

=============================================================================
