---------------------- MODULE StreamInterceptorProofs ----------------------
(***************************************************************************)
(* Proofs about the stream interceptor, for streams of any length, any     *)
(* rule, any log modes and both kinds of handlers.                         *)
(***************************************************************************)
EXTENDS StreamInterceptor, TLAPS

(* Positions in the log.                                                   *)
Idx == 1..Len(log)

(* A request that is held somewhere is in no entry yet, and it is held in  *)
(* one place only.                                                         *)
HeldOnce ==
  /\ lastReq # NoReq => ~ InLog(lastReq)
  /\ recv.pc = "arrived" =>
       /\ recv.msg = received
       /\ received # NoReq
       /\ ~ InLog(received)
       /\ lastReq # received
       /\ send.pc = "logging" => send.req # received
  /\ recv.pc = "logging" =>
       /\ recv.old # NoReq
       /\ ~ InLog(recv.old)
       /\ lastReq # recv.old
       /\ send.pc = "logging" => send.req # recv.old
  /\ send.pc = "logging" /\ send.req # NoReq =>
       /\ ~ InLog(send.req)
       /\ lastReq # send.req

(* Nothing is held or logged that has not been received or been sent.      *)
InBounds ==
  /\ lastReq <= received
  /\ recv.old <= received
  /\ send.req <= received
  /\ \A i \in Idx : log[i].req <= received /\ log[i].of <= resps
  /\ send.pc # "idle" => send.resp = resps /\ resps # 0
  /\ send.pc \in {"cloned", "logging"} => \A i \in Idx : log[i].of # resps

(* Response m has an entry in one of the modes ms, stored if that is fail  *)
(* close.                                                                  *)
Kept(e, ms) == e.mode \in ms /\ (e.mode = "FAIL_CLOSE" => e.result = "stored")

Stored(m, ms) == \E i \in Idx : log[i].of = m /\ Kept(log[i], ms)

(* The modes that an entry of the stream can have so far.                  *)
OwnModes == {clientMode} \cup chosen

(* What was sent or is being sent has its entry, and the modes that        *)
(* RecvMsg and SendMsg have copied are the handler's.                      *)
StoredFirst ==
  /\ baseMode \in {"UNSPECIFIED"} \cup chosen
  /\ send.mode \in {"UNSPECIFIED"} \cup chosen
  /\ \A m \in Responses :
       m \in sent \/ (send.pc = "sending" /\ m = send.resp) => Stored(m, OwnModes)

IInv ==
  /\ TypeOK
  /\ HeldOnce
  /\ InBounds
  /\ LoggedOnce
  /\ NoRequestForgotten
  /\ StoredFirst

(* What Append does to the log.                                            *)
LEMMA AppendLog ==
  ASSUME log \in Seq(LogEntry), NEW e \in LogEntry, log' = Append(log, e)
  PROVE  /\ log' \in Seq(LogEntry)
         /\ Len(log) \in Nat
         /\ Len(log') = Len(log) + 1
         /\ \A i \in 1..Len(log) : log'[i] = log[i]
         /\ log'[Len(log) + 1] = e
OBVIOUS

(* The mode that applies to an entry is one.                               *)
LEMMA ModeTypes ==
  ASSUME TypeOK, NEW m \in Modes
  PROVE  LogMode(m) \in Modes /\ "UNSPECIFIED" \in Modes
<1>1. clientMode \in Modes
  BY StreamAssumption DEF TypeOK, clientMode
<1> QED
  BY <1>1 DEF LogMode, Modes

LEMMA TypeInit == Init => TypeOK
BY StreamAssumption DEF Init, TypeOK, IdleRecv, IdleSend, Requests, Responses, NoReq, Modes

LEMMA TypeStep == TypeOK /\ [Next]_vars => TypeOK'
<1> SUFFICES ASSUME TypeOK, [Next]_vars PROVE TypeOK'
  OBVIOUS
<1>0. 0 \in Requests /\ 0 \in Responses /\ "UNSPECIFIED" \in Modes
  BY StreamAssumption DEF Requests, Responses, Modes
<1> USE <1>0 DEF TypeOK, Wrapper, handlerVars, IdleRecv, IdleSend, NoReq
<1>1. CASE NoRule \/ handleReturnStream \/ CallHandler
  BY <1>1 DEF NoRule, handleReturnStream, CallHandler
<1>2. CASE Fill
  BY <1>2 DEF Fill
<1>16. ASSUME NEW mode \in HandlerModes, SetMode(mode) PROVE TypeOK'
  BY <1>16, StreamAssumption DEF SetMode
<1>3. CASE RecvCall
  BY <1>3 DEF RecvCall
<1>4. CASE RecvArrives
  <2>1. received + 1 \in Requests
    BY <1>4, StreamAssumption DEF RecvArrives, Requests
  <2> QED
    BY <1>4, <2>1 DEF RecvArrives
<1>5. CASE RecvFails
  BY <1>5 DEF RecvFails
<1>6. CASE swapLastReq
  <2>1. recv' \in [pc : {"idle", "waiting", "arrived", "logging"},
                   base : Requests, mode : Modes, msg : Requests, old : Requests]
        /\ (recv'.pc = "logging" => recv'.old # NoReq)
    <3>1. CASE lastReq # NoReq /\ shouldLogReq
      BY <1>6, <3>1 DEF swapLastReq
    <3>2. CASE ~ (lastReq # NoReq /\ shouldLogReq)
      BY <1>6, <3>2 DEF swapLastReq, RecvReturn, IdleRecv
    <3> QED
      BY <3>1, <3>2
  <2> QED
    BY <1>6, <2>1 DEF swapLastReq
<1>7. CASE RecvConvertFails
  BY <1>7 DEF RecvConvertFails, RecvReturn, IdleRecv
<1>8. CASE RecvLog
  <2> PICK result \in Results(recv.mode) :
        /\ Logged(recv.old, 0, recv.base, 0, recv.mode, FALSE, result)
        /\ RecvReturn(IF result = "failed" THEN NoReq ELSE recv.msg)
    BY <1>8 DEF RecvLog
  <2>1. log' \in Seq(LogEntry)
    BY ModeTypes DEF Logged, LogEntry, Results
  <2> QED
    BY <1>8, <2>1 DEF RecvLog, RecvReturn, IdleRecv
<1>9. CASE SendCall
  <2>1. resps + 1 \in Responses
    BY <1>9, StreamAssumption DEF SendCall, Responses
  <2> QED
    BY <1>9, <2>1 DEF SendCall
<1>10. CASE popLastReq
  BY <1>10 DEF popLastReq
<1>11. CASE SendConvertFails
  BY <1>11 DEF SendConvertFails
<1>12. CASE SendWire
  BY <1>12 DEF SendWire
<1>13. CASE SendLog
  <2> PICK result \in Results(send.mode) :
        /\ Logged(IF shouldLogReq THEN send.req ELSE NoReq,
                  IF shouldLogResp THEN send.resp ELSE 0,
                  send.base, send.resp, send.mode, FALSE, result)
        /\ send' = IF result = "failed" THEN IdleSend ELSE [send EXCEPT !.pc = "sending"]
    BY <1>13 DEF SendLog
  <2>1. log' \in Seq(LogEntry)
    BY ModeTypes DEF Logged, LogEntry, Results
  <2> QED
    BY <1>13, <2>1 DEF SendLog
<1>14. CASE HandlerReturn
  <2>1. log' \in Seq(LogEntry)
    <3>1. ASSUME NEW result \in Results(baseMode),
               Logged(NoReq, 0, baseline, 0, baseMode, TRUE, result)
          PROVE  log' \in Seq(LogEntry)
      BY <3>1, ModeTypes DEF Logged, LogEntry, Results
    <3> QED
      BY <1>14, <3>1 DEF HandlerReturn
  <2> QED
    BY <1>14, <2>1 DEF HandlerReturn
<1>15. CASE UNCHANGED vars
  BY <1>15 DEF vars
<1> QED
  BY <1>1, <1>2, <1>3, <1>4, <1>5, <1>6, <1>7, <1>8, <1>9, <1>10, <1>11, <1>12,
     <1>13, <1>14, <1>15, <1>16 DEF Next

(* What a call of Client.Log adds to what the log contains.                *)
LEMMA LogGrows ==
  ASSUME log \in Seq(LogEntry), NEW e \in LogEntry, log' = Append(log, e)
  PROVE  /\ \A i \in Idx : i \in Idx' /\ log'[i] = log[i]
         /\ \A i \in Idx' : i \in Idx \/ log'[i] = e
         /\ \A i, j \in Idx' : i # j => i \in Idx \/ j \in Idx
         /\ \E i \in Idx' : log'[i] = e
         /\ \A k : InLog(k)' <=> InLog(k) \/ e.req = k
<1> DEFINE n == Len(log)
<1>1. /\ n \in Nat
      /\ Idx' = Idx \cup {n + 1}
      /\ \A i \in Idx : log'[i] = log[i]
      /\ log'[n + 1] = e
  BY AppendLog DEF Idx
<1> HIDE DEF n
<1> QED
  BY <1>1 DEF InLog, Idx

(* A step that leaves the log alone.                                       *)
LEMMA LogSame ==
  ASSUME log' = log
  PROVE  /\ Idx' = Idx
         /\ LoggedOnce' <=> LoggedOnce
         /\ \A k : InLog(k)' <=> InLog(k)
BY DEF Idx, LoggedOnce, InLog

(* A step appends at most one entry.                                       *)
LEMMA LogStep ==
  ASSUME TypeOK, [Next]_vars
  PROVE  log' = log \/ \E e \in LogEntry : log' = Append(log, e)
<1>0. 0 \in Requests /\ 0 \in Responses
  BY StreamAssumption DEF Requests, Responses
<1>1. ASSUME NEW a \in Requests, NEW b \in Responses, NEW c \in Requests,
             NEW d \in Responses, NEW m \in Modes, NEW f \in BOOLEAN,
             NEW r \in Results(m), Logged(a, b, c, d, m, f, r)
      PROVE  \E e \in LogEntry : log' = Append(log, e)
  BY <1>1, ModeTypes DEF Logged, LogEntry, Results
<1>2. CASE RecvLog
  BY <1>0, <1>1, <1>2 DEF RecvLog, TypeOK
<1>3. CASE SendLog
  BY <1>0, <1>1, <1>3 DEF SendLog, TypeOK, NoReq
<1>4. CASE HandlerReturn
  BY <1>0, <1>1, <1>4 DEF HandlerReturn, TypeOK, NoReq
<1>5. CASE ~ RecvLog /\ ~ SendLog /\ ~ HandlerReturn
  BY <1>5 DEF Next, vars, NoRule, handleReturnStream, CallHandler, Fill, SetMode, RecvCall,
     RecvArrives, RecvFails, swapLastReq, RecvConvertFails, SendCall, popLastReq,
     SendConvertFails, SendWire
<1> QED
  BY <1>2, <1>3, <1>4, <1>5

(* The numbers that requests, responses and entries carry.                 *)
LEMMA NumberTypes ==
  ASSUME TypeOK
  PROVE  /\ Requests \subseteq Nat /\ Responses \subseteq Nat
         /\ 0 \in Requests /\ 0 \in Responses
         /\ \A i \in Idx : log[i].req \in Nat /\ log[i].of \in Nat
<1>1. /\ Requests \subseteq Nat /\ Responses \subseteq Nat
      /\ 0 \in Requests /\ 0 \in Responses
  BY StreamAssumption DEF Requests, Responses
<1>2. \A i \in Idx : log[i] \in LogEntry
  BY DEF TypeOK, Idx
<1>3. \A i \in Idx : log[i].req \in Requests /\ log[i].of \in Responses
  BY <1>2 DEF LogEntry
<1> QED
  BY <1>1, <1>3

(* What holds of every entry so far and of a new one holds of all.         *)
LEMMA NewEntryBound ==
  ASSUME log \in Seq(LogEntry), NEW e \in LogEntry, log' = Append(log, e),
         \A i \in Idx : log[i].req <= received /\ log[i].of <= resps,
         e.req <= received, e.of <= resps
  PROVE  \A i \in Idx' : log'[i].req <= received /\ log'[i].of <= resps
<1> TAKE i \in Idx'
<1>1. (i \in Idx /\ log'[i] = log[i]) \/ log'[i] = e
  BY LogGrows
<1> QED
  BY <1>1

(* A new entry for a request and a response that have none yet.            *)
LEMMA NewEntryOnce ==
  ASSUME log \in Seq(LogEntry), NEW e \in LogEntry, log' = Append(log, e), LoggedOnce,
         e.req # NoReq => ~ InLog(e.req),
         e.of # 0 => \A i \in Idx : log[i].of # e.of
  PROVE  LoggedOnce'
<1>1. ASSUME NEW i \in Idx', NEW j \in Idx', i # j
      PROVE  /\ log'[i].req # NoReq => log'[i].req # log'[j].req
             /\ log'[i].of # 0 => log'[i].of # log'[j].of
  <2>1. /\ (i \in Idx /\ log'[i] = log[i]) \/ log'[i] = e
        /\ (j \in Idx /\ log'[j] = log[j]) \/ log'[j] = e
        /\ i \in Idx \/ j \in Idx
        /\ \A k \in Idx : log'[k] = log[k]
    BY <1>1, LogGrows
  <2>2. \A k \in Idx : e.req # NoReq => log[k].req # e.req
    BY DEF InLog, Idx
  <2>3. i \in Idx /\ j \in Idx =>
          /\ log[i].req # NoReq => log[i].req # log[j].req
          /\ log[i].of # 0 => log[i].of # log[j].of
    BY <1>1 DEF LoggedOnce, Idx
  <2> QED
    BY <2>1, <2>2, <2>3
<1> QED
  BY <1>1 DEF LoggedOnce, Idx

HeldInv == HeldOnce /\ InBounds /\ LoggedOnce

LEMMA HeldStep == TypeOK /\ HeldInv /\ [Next]_vars => HeldInv'
<1> SUFFICES ASSUME TypeOK, HeldInv, [Next]_vars PROVE HeldInv'
  OBVIOUS
<1> USE NumberTypes, LogSame
    DEF TypeOK, HeldInv, HeldOnce, InBounds, Wrapper, IdleRecv, IdleSend, NoReq
<1>1. CASE NoRule \/ handleReturnStream \/ CallHandler
  BY <1>1 DEF NoRule, handleReturnStream, CallHandler
<1>2. CASE Fill
  BY <1>2 DEF Fill
<1>16. ASSUME NEW mode \in HandlerModes, SetMode(mode) PROVE HeldInv'
  BY <1>16 DEF SetMode
<1>3. CASE RecvCall
  BY <1>3 DEF RecvCall
<1>4. CASE RecvArrives
  <2>1. ~ InLog(received + 1)
    BY <1>4 DEF RecvArrives, InLog, Idx
  <2>2. received + 1 # 0 /\ lastReq # received + 1 /\ send.req # received + 1
    BY <1>4 DEF RecvArrives
  <2> QED
    BY <1>4, <2>1, <2>2 DEF RecvArrives
<1>5. CASE RecvFails
  BY <1>5 DEF RecvFails
<1>6. CASE swapLastReq
  <2>1. CASE lastReq # NoReq /\ shouldLogReq
    <3>1. recv'.pc = "logging" /\ recv'.old = lastReq /\ lastReq' = received
      BY <1>6, <2>1 DEF swapLastReq
    <3>2. HeldOnce'
      BY <1>6, <2>1, <3>1 DEF swapLastReq
    <3>3. InBounds' /\ LoggedOnce'
      BY <1>6, <2>1, <3>1 DEF swapLastReq
    <3> QED
      BY <3>2, <3>3
  <2>2. CASE ~ (lastReq # NoReq /\ shouldLogReq)
    BY <1>6, <2>2 DEF swapLastReq, RecvReturn, IdleRecv
  <2> QED
    BY <2>1, <2>2
<1>7. CASE RecvConvertFails
  BY <1>7 DEF RecvConvertFails, RecvReturn, IdleRecv
<1>8. CASE RecvLog
  <2> PICK result \in Results(recv.mode) :
        /\ Logged(recv.old, 0, recv.base, 0, recv.mode, FALSE, result)
        /\ RecvReturn(IF result = "failed" THEN NoReq ELSE recv.msg)
    BY <1>8 DEF RecvLog
  <2> DEFINE e == [req |-> recv.old, resp |-> 0, base |-> recv.base, of |-> 0,
                   mode |-> LogMode(recv.mode), status |-> FALSE, result |-> result]
  <2>1. e \in LogEntry /\ log' = Append(log, e) /\ e.req = recv.old /\ e.of = 0
    BY ModeTypes DEF Logged, LogEntry, Results
  <2> HIDE DEF e
  <2>2. LoggedOnce'
    BY <1>8, <2>1, NewEntryOnce DEF RecvLog
  <2>3. HeldOnce'
    BY <1>8, <2>1, LogGrows DEF RecvLog, RecvReturn, IdleRecv
  <2>4. \A i \in Idx' : log'[i].req <= received /\ log'[i].of <= resps
    <3>1. e.req <= received /\ e.of <= resps
      BY <2>1
    <3> QED
      BY <2>1, <3>1, NewEntryBound
  <2>5. send.pc \in {"cloned", "logging"} => \A i \in Idx' : log'[i].of # resps
    <3> SUFFICES ASSUME send.pc \in {"cloned", "logging"}, NEW i \in Idx'
                 PROVE  log'[i].of # resps
      OBVIOUS
    <3>1. (i \in Idx /\ log'[i] = log[i]) \/ log'[i] = e
      BY <2>1, LogGrows
    <3>2. resps # 0 /\ \A j \in Idx : log[j].of # resps
      OBVIOUS
    <3> QED
      BY <2>1, <3>1, <3>2
  <2>6. InBounds'
    BY <1>8, <2>4, <2>5 DEF RecvLog, RecvReturn, IdleRecv
  <2> QED
    BY <2>2, <2>3, <2>6
<1>9. CASE SendCall
  <2>1. \A i \in Idx : log[i].of # resps + 1
    BY <1>9
  <2> QED
    BY <1>9, <2>1 DEF SendCall
<1>10. CASE popLastReq
  BY <1>10 DEF popLastReq
<1>11. CASE SendConvertFails
  BY <1>11 DEF SendConvertFails
<1>12. CASE SendWire
  BY <1>12 DEF SendWire
<1>13. CASE SendLog
  <2> PICK result \in Results(send.mode) :
        /\ Logged(IF shouldLogReq THEN send.req ELSE NoReq,
                  IF shouldLogResp THEN send.resp ELSE 0,
                  send.base, send.resp, send.mode, FALSE, result)
        /\ send' = IF result = "failed" THEN IdleSend ELSE [send EXCEPT !.pc = "sending"]
    BY <1>13 DEF SendLog
  <2> DEFINE e == [req |-> IF shouldLogReq THEN send.req ELSE NoReq,
                   resp |-> IF shouldLogResp THEN send.resp ELSE 0,
                   base |-> send.base, of |-> send.resp,
                   mode |-> LogMode(send.mode), status |-> FALSE, result |-> result]
  <2>1. e \in LogEntry /\ log' = Append(log, e)
        /\ e.req \in {NoReq, send.req} /\ e.of = send.resp
    BY ModeTypes DEF Logged, LogEntry, Results
  <2> HIDE DEF e
  <2>2. LoggedOnce'
    BY <1>13, <2>1, NewEntryOnce DEF SendLog
  <2>3. HeldOnce'
    BY <1>13, <2>1, LogGrows DEF SendLog
  <2>4. \A i \in Idx' : log'[i].req <= received /\ log'[i].of <= resps
    <3>1. e.req <= received /\ e.of <= resps
      BY <1>13, <2>1 DEF SendLog
    <3> QED
      BY <2>1, <3>1, NewEntryBound
  <2>5. send'.pc \in {"idle", "sending"} /\ send'.req \in {0, send.req}
        /\ (send'.pc # "idle" => send'.resp = send.resp)
    BY <1>13
  <2>6. InBounds'
    BY <1>13, <2>4, <2>5 DEF SendLog
  <2> QED
    BY <2>2, <2>3, <2>6
<1>14. CASE HandlerReturn
  <2>1. CASE log' = log
    BY <1>14, <2>1 DEF HandlerReturn
  <2>2. ASSUME NEW result \in Results(baseMode),
               Logged(NoReq, 0, baseline, 0, baseMode, TRUE, result)
        PROVE  HeldInv'
    <3> DEFINE e == [req |-> NoReq, resp |-> 0, base |-> baseline, of |-> 0,
                     mode |-> LogMode(baseMode), status |-> TRUE, result |-> result]
    <3>1. e \in LogEntry /\ log' = Append(log, e) /\ e.req = NoReq /\ e.of = 0
      BY <2>2, ModeTypes DEF Logged, LogEntry, Results
    <3> HIDE DEF e
    <3>2. LoggedOnce'
      BY <3>1, NewEntryOnce
    <3>3. HeldOnce'
      BY <1>14, <3>1, LogGrows DEF HandlerReturn
    <3>4. \A i \in Idx' : log'[i].req <= received /\ log'[i].of <= resps
      <4>1. e.req <= received /\ e.of <= resps
        BY <3>1
      <4> QED
        BY <3>1, <4>1, NewEntryBound
    <3>5. InBounds'
      BY <1>14, <3>4 DEF HandlerReturn
    <3> QED
      BY <3>2, <3>3, <3>5
  <2> QED
    BY <1>14, <2>1, <2>2 DEF HandlerReturn
<1>15. CASE UNCHANGED vars
  BY <1>15 DEF vars
<1> QED
  BY <1>1, <1>2, <1>3, <1>4, <1>5, <1>6, <1>7, <1>8, <1>9, <1>10, <1>11, <1>12,
     <1>13, <1>14, <1>15, <1>16 DEF Next

LEMMA StoredStep == TypeOK /\ StoredFirst /\ [Next]_vars => StoredFirst'
<1> SUFFICES ASSUME TypeOK, StoredFirst, [Next]_vars PROVE StoredFirst'
  OBVIOUS
<1>1. modes' = modes /\ Responses' = Responses
  BY DEF Next, vars, Wrapper, NoRule, handleReturnStream, CallHandler, Fill, SetMode,
     RecvCall, RecvArrives, RecvFails, swapLastReq, RecvLog, RecvConvertFails, SendCall,
     popLastReq, SendLog, SendConvertFails, SendWire, HandlerReturn, Responses
<1>2. /\ baseMode' \in {"UNSPECIFIED"} \cup chosen' /\ chosen \subseteq chosen'
      /\ send'.mode \in {"UNSPECIFIED"} \cup chosen'
  <2>1. ASSUME NEW mode \in HandlerModes, SetMode(mode)
        PROVE  /\ baseMode' \in {"UNSPECIFIED"} \cup chosen' /\ chosen \subseteq chosen'
               /\ send' = send
    BY <2>1 DEF SetMode
  <2>2. CASE popLastReq \/ SendLog
    <3>1. send'.mode \in {"UNSPECIFIED", send.mode}
      <4>1. CASE popLastReq
        BY <4>1 DEF popLastReq, TypeOK
      <4>2. CASE SendLog
        BY <4>2 DEF SendLog, IdleSend, TypeOK
      <4> QED
        BY <2>2, <4>1, <4>2
    <3>2. UNCHANGED <<baseMode, chosen>>
      BY <2>2 DEF popLastReq, SendLog, handlerVars
    <3> QED
      BY <3>1, <3>2 DEF StoredFirst
  <2>3. CASE SendCall \/ SendConvertFails \/ SendWire
    BY <2>3 DEF SendCall, SendConvertFails, SendWire, IdleSend, handlerVars, StoredFirst
  <2>4. CASE NoRule \/ handleReturnStream \/ CallHandler \/ Fill \/ RecvCall
             \/ RecvArrives \/ RecvFails \/ swapLastReq \/ RecvLog \/ RecvConvertFails
             \/ HandlerReturn \/ UNCHANGED vars
    BY <2>4 DEF NoRule, handleReturnStream, CallHandler, Fill, RecvCall, RecvArrives,
       RecvFails, swapLastReq, RecvLog, RecvConvertFails, HandlerReturn, vars, handlerVars,
       StoredFirst
  <2> QED
    BY <2>1, <2>2, <2>3, <2>4 DEF Next, StoredFirst
<1>3. \A m : Stored(m, OwnModes) => Stored(m, OwnModes)'
  <2> DEFINE ms == OwnModes'
  <2>1. OwnModes \subseteq ms
    BY <1>1, <1>2 DEF OwnModes, clientMode
  <2>2. \A m : Stored(m, OwnModes) => Stored(m, ms)
    BY <2>1 DEF Stored, Kept
  <2>3. CASE log' = log
    BY <2>2, <2>3 DEF Stored, Kept, Idx
  <2>4. ASSUME NEW e \in LogEntry, log' = Append(log, e)
        PROVE  \A m : Stored(m, OwnModes) => Stored(m, OwnModes)'
    <3>1. \A i \in Idx : i \in Idx' /\ log'[i] = log[i]
      BY <2>4, LogGrows DEF TypeOK
    <3> QED
      BY <2>2, <3>1 DEF Stored, Kept
  <2>5. log' = log \/ \E e \in LogEntry : log' = Append(log, e)
    BY LogStep
  <2> QED
    BY <2>3, <2>4, <2>5
<1>4. CASE SendLog
  <2> PICK result \in Results(send.mode) :
        /\ Logged(IF shouldLogReq THEN send.req ELSE NoReq,
                  IF shouldLogResp THEN send.resp ELSE 0,
                  send.base, send.resp, send.mode, FALSE, result)
        /\ send' = IF result = "failed" THEN IdleSend ELSE [send EXCEPT !.pc = "sending"]
    BY <1>4 DEF SendLog
  <2> DEFINE e == [req |-> IF shouldLogReq THEN send.req ELSE NoReq,
                   resp |-> IF shouldLogResp THEN send.resp ELSE 0,
                   base |-> send.base, of |-> send.resp,
                   mode |-> LogMode(send.mode), status |-> FALSE, result |-> result]
  <2>1. /\ e \in LogEntry /\ log' = Append(log, e) /\ e.of = send.resp
        /\ e.result = result /\ e.mode = LogMode(send.mode)
    BY NumberTypes, ModeTypes DEF Logged, LogEntry, Results, TypeOK, NoReq
  <2> HIDE DEF e
  <2>2. e.mode \in OwnModes'
    BY <1>1, <1>4, <2>1 DEF SendLog, handlerVars, StoredFirst, LogMode, OwnModes, clientMode
  <2>3. ASSUME send'.pc = "sending"
        PROVE  (e.mode = "FAIL_CLOSE" => result = "stored") /\ send'.resp = send.resp
    BY <2>1, <2>3 DEF IdleSend, TypeOK, Results
  <2>4. \E i \in Idx' : log'[i] = e
    BY <2>1, LogGrows DEF TypeOK
  <2>5. \A m : send'.pc = "sending" /\ m = send'.resp => Stored(m, OwnModes)'
    BY <2>1, <2>2, <2>3, <2>4 DEF Stored, Kept
  <2>6. sent' = sent
    BY <1>4 DEF SendLog
  <2> QED
    BY <1>1, <1>2, <1>3, <2>5, <2>6 DEF StoredFirst
<1>5. CASE SendWire
  BY <1>1, <1>2, <1>3, <1>5 DEF SendWire, IdleSend, StoredFirst
<1>6. CASE ~ SendLog /\ ~ SendWire
  <2>1. sent' = sent /\ (send'.pc = "sending" => send' = send)
    <3>1. CASE popLastReq
      BY <3>1 DEF popLastReq, TypeOK
    <3>2. CASE SendCall \/ SendConvertFails
      BY <3>2 DEF SendCall, SendConvertFails, IdleSend
    <3> QED
      BY <1>6, <3>1, <3>2 DEF Next, vars, NoRule, handleReturnStream, CallHandler, Fill,
         SetMode, RecvCall, RecvArrives, RecvFails, swapLastReq, RecvLog, RecvConvertFails,
         HandlerReturn
  <2> QED
    BY <1>1, <1>2, <1>3, <2>1 DEF StoredFirst
<1> QED
  BY <1>4, <1>5, <1>6

(* Where request k is, under a rule that logs requests.                    *)
Located(k) ==
  \/ InLog(k)
  \/ k \in abandoned
  \/ recv.pc = "arrived" /\ recv.msg = k
  \/ recv.pc = "logging" /\ recv.old = k
  \/ send.pc = "logging" /\ send.req = k
  \/ lastReq = k

LEMMA LocatedStep ==
  TypeOK /\ NoRequestForgotten /\ [Next]_vars => NoRequestForgotten'
<1> SUFFICES ASSUME TypeOK, NoRequestForgotten, [Next]_vars, shouldLogReq',
                    NEW k \in 1..received'
             PROVE  Located(k)'
  BY DEF NoRequestForgotten, Located
<1>1. shouldLogReq
  BY DEF Next, vars, Wrapper, NoRule, handleReturnStream, CallHandler, Fill, SetMode, RecvCall,
     RecvArrives, RecvFails, swapLastReq, RecvLog, RecvConvertFails, SendCall,
     popLastReq, SendLog, SendConvertFails, SendWire, HandlerReturn, shouldLogReq
<1>2. k # 0 /\ (k \in 1..received => Located(k))
  BY <1>1, NumberTypes DEF NoRequestForgotten, Located, TypeOK
<1>3. CASE RecvArrives
  <2>1. k \in 1..received \/ k = received + 1
    BY <1>3, NumberTypes DEF RecvArrives, TypeOK
  <2> QED
    BY <1>2, <1>3, <2>1, LogSame DEF RecvArrives, Located, TypeOK
<1>4. ASSUME received' = received PROVE Located(k)
  BY <1>2, <1>4
<1>5. CASE NoRule \/ handleReturnStream \/ CallHandler \/ Fill
  BY <1>4, <1>5, LogSame DEF NoRule, handleReturnStream, CallHandler, Fill, Located, Wrapper
<1>16. ASSUME NEW mode \in HandlerModes, SetMode(mode) PROVE Located(k)'
  BY <1>4, <1>16, LogSame DEF SetMode, Located, Wrapper
<1>6. CASE RecvCall \/ RecvFails
  BY <1>4, <1>6, LogSame DEF RecvCall, RecvFails, IdleRecv, Located
<1>7. CASE swapLastReq
  <2>1. CASE lastReq # NoReq
    BY <1>1, <1>4, <1>7, <2>1, LogSame DEF swapLastReq, Located, TypeOK
  <2>2. CASE lastReq = NoReq
    BY <1>2, <1>4, <1>7, <2>2, LogSame DEF swapLastReq, RecvReturn, IdleRecv, Located, TypeOK, NoReq
  <2> QED
    BY <2>1, <2>2
<1>8. CASE RecvConvertFails
  BY <1>4, <1>8, LogSame DEF RecvConvertFails, RecvReturn, IdleRecv, Located
<1>9. CASE SendCall \/ SendWire
  BY <1>4, <1>9, LogSame DEF SendCall, SendWire, IdleSend, Located
<1>10. CASE popLastReq
  BY <1>4, <1>10, LogSame DEF popLastReq, Located, TypeOK
<1>11. CASE SendConvertFails
  BY <1>2, <1>4, <1>11, LogSame DEF SendConvertFails, IdleSend, Located, NoReq
<1>12. CASE RecvLog
  <2>1. PICK result \in Results(recv.mode) :
          Logged(recv.old, 0, recv.base, 0, recv.mode, FALSE, result)
    BY <1>12 DEF RecvLog
  <2> DEFINE e == [req |-> recv.old, resp |-> 0, base |-> recv.base, of |-> 0,
                   mode |-> LogMode(recv.mode), status |-> FALSE, result |-> result]
  <2>2. e \in LogEntry /\ log' = Append(log, e) /\ e.req = recv.old
    BY <2>1, NumberTypes, ModeTypes DEF Logged, LogEntry, Results, TypeOK
  <2> HIDE DEF e
  <2>3. InLog(k)' <=> InLog(k) \/ recv.old = k
    BY <2>2, LogGrows DEF TypeOK
  <2> QED
    BY <1>4, <1>12, <2>3 DEF RecvLog, RecvReturn, IdleRecv, Located
<1>13. CASE SendLog
  <2>1. PICK result \in Results(send.mode) :
          Logged(IF shouldLogReq THEN send.req ELSE NoReq,
                 IF shouldLogResp THEN send.resp ELSE 0,
                 send.base, send.resp, send.mode, FALSE, result)
    BY <1>13 DEF SendLog
  <2> DEFINE e == [req |-> send.req,
                   resp |-> IF shouldLogResp THEN send.resp ELSE 0,
                   base |-> send.base, of |-> send.resp,
                   mode |-> LogMode(send.mode), status |-> FALSE, result |-> result]
  <2>2. e \in LogEntry /\ log' = Append(log, e) /\ e.req = send.req
    BY <1>1, <2>1, NumberTypes, ModeTypes DEF Logged, LogEntry, Results, TypeOK
  <2> HIDE DEF e
  <2>3. InLog(k)' <=> InLog(k) \/ send.req = k
    BY <2>2, LogGrows DEF TypeOK
  <2> QED
    BY <1>4, <1>13, <2>3 DEF SendLog, Located
<1>14. CASE HandlerReturn
  <2>1. InLog(k) => InLog(k)'
    <3>1. ASSUME NEW e \in LogEntry, log' = Append(log, e)
          PROVE  InLog(k) => InLog(k)'
      BY <3>1, LogGrows DEF TypeOK
    <3> QED
      BY <3>1, LogStep, LogSame
  <2> QED
    BY <1>4, <1>14, <2>1 DEF HandlerReturn, Located
<1>15. CASE UNCHANGED vars
  BY <1>4, <1>15, LogSame DEF vars, Located
<1> QED
  BY <1>3, <1>5, <1>6, <1>7, <1>8, <1>9, <1>10, <1>11, <1>12, <1>13, <1>14, <1>15,
     <1>16      DEF Next

-----------------------------------------------------------------------------

LEMMA InitInv == Init => IInv
<1> SUFFICES ASSUME Init PROVE IInv
  OBVIOUS
<1>1. TypeOK
  BY TypeInit
<1>2. Idx = {} /\ received = 0 /\ 1..received = {}
  BY DEF Init, Idx
<1>3. HeldOnce /\ InBounds
  BY <1>2 DEF Init, HeldOnce, InBounds, IdleRecv, IdleSend, NoReq
<1>4. LoggedOnce /\ NoRequestForgotten
  BY <1>2 DEF LoggedOnce, NoRequestForgotten, Idx
<1>5. StoredFirst
  BY DEF Init, StoredFirst, IdleSend
<1> QED
  BY <1>1, <1>3, <1>4, <1>5 DEF IInv

LEMMA StepInv == IInv /\ [Next]_vars => IInv'
BY TypeStep, HeldStep, LocatedStep, StoredStep DEF IInv, HeldInv

(* The wrapper's fields and its log keep to their types, whatever the      *)
(* handler, the peer and the backends do.                                  *)
THEOREM TypeCorrect == Spec => []TypeOK
BY TypeInit, TypeStep, PTL DEF Spec

(* serverStreamWrapper logs no request and no response twice: swapLastReq  *)
(* and popLastReq hand each request to one of the two goroutines only, for *)
(* streams of any length and any interleaving of RecvMsg and SendMsg.      *)
THEOREM LoggedOnceCorrect == Spec => []LoggedOnce
<1>1. IInv => LoggedOnce
  BY DEF IInv
<1> QED
  BY <1>1, InitInv, StepInv, PTL DEF Spec

(* Between RecvMsg, SendMsg and the lastReq field no request is lost.      *)
THEOREM NoRequestForgottenCorrect == Spec => []NoRequestForgotten
<1>1. IInv => NoRequestForgotten
  BY DEF IInv
<1> QED
  BY <1>1, InitInv, StepInv, PTL DEF Spec

(* SendMsg writes a response to the stream only after the entry made for   *)
(* it was stored, if that entry is fail close: by the client's mode, or by *)
(* one that the handler has set in LogReqFromCtx.                          *)
THEOREM SentAfterStoredCorrect == Spec => []SentAfterStored
<1>1. IInv => SentAfterStored
  BY DEF IInv, TypeOK, StoredFirst, SentAfterStored, Stored, Kept, OwnModes, Idx
<1> QED
  BY <1>1, InitInv, StepInv, PTL DEF Spec


-----------------------------------------------------------------------------
(* The description of a request.                                           *)

(* The handler that makes one call at a time: the baseline describes the   *)
(* last request, if that is described at all, and so does the copy of it   *)
(* that a call has taken, until the call takes the request.                *)
ContextInv ==
  /\ send.pc = "idle" \/ recv.pc = "idle"
  /\ \A k \in filled : k <= received
  /\ lastReq \in filled \ {NoReq} => baseline = lastReq
  /\ recv.pc \in {"waiting", "arrived"} => recv.base = baseline
  /\ recv.pc = "arrived" => received \notin filled
  /\ recv.pc = "logging" /\ recv.old \in filled \ {NoReq} => recv.base = recv.old
  /\ send.pc = "cloned" => send.base = baseline
  /\ send.pc = "logging" /\ send.req \in filled \ {NoReq} => send.base = send.req
  /\ \A i \in Idx : log[i].req \in filled \ {NoReq} => log[i].base = log[i].req

(* A new entry whose request, if it is described, its baseline describes.  *)
LEMMA NewEntryContext ==
  ASSUME log \in Seq(LogEntry), NEW e \in LogEntry, log' = Append(log, e), filled' = filled,
         \A i \in Idx : log[i].req \in filled \ {NoReq} => log[i].base = log[i].req,
         e.req \in filled \ {NoReq} => e.base = e.req
  PROVE  \A i \in Idx' : log'[i].req \in filled' \ {NoReq} => log'[i].base = log'[i].req
<1> TAKE i \in Idx'
<1>1. (i \in Idx /\ log'[i] = log[i]) \/ log'[i] = e
  BY LogGrows
<1> QED
  BY <1>1

LEMMA ContextStep ==
  ASSUME IInv, sequential, ContextInv, [Next]_vars
  PROVE  ContextInv'
<1>0. TypeOK /\ HeldOnce /\ InBounds
  BY DEF IInv
<1> USE <1>0, NumberTypes, LogSame DEF ContextInv, NoReq, handlerVars
<1>1. CASE NoRule \/ handleReturnStream \/ CallHandler
  BY <1>1 DEF NoRule, handleReturnStream, CallHandler
<1>2. CASE Fill
  <2>1. /\ recv.pc = "idle" /\ send.pc = "idle" /\ lastReq = recv.msg /\ lastReq # 0
        /\ baseline' = lastReq /\ filled' = filled \cup {lastReq}
        /\ UNCHANGED <<lastReq, received, recv, send, log>>
    BY <1>2 DEF Fill, MayCall
  <2>2. ~ InLog(lastReq) /\ lastReq <= received
    BY <2>1 DEF HeldOnce, InBounds
  <2>3. \A i \in Idx : log[i].req # lastReq
    BY <2>2 DEF InLog, Idx
  <2> QED
    BY <2>1, <2>2, <2>3
<1>16. ASSUME NEW mode \in HandlerModes, SetMode(mode) PROVE ContextInv'
  BY <1>16 DEF SetMode
<1>3. CASE RecvCall
  <2>1. send.pc = "idle" /\ recv' = [pc |-> "waiting", base |-> baseline, msg |-> recv.msg,
                                    old |-> 0, mode |-> baseMode]
        /\ UNCHANGED <<baseline, filled, lastReq, received, send, log>>
    BY <1>3 DEF RecvCall, MayCall
  <2> QED
    BY <2>1
<1>4. CASE RecvArrives
  <2>1. /\ recv.pc = "waiting" /\ recv'.pc = "arrived" /\ recv'.base = recv.base
        /\ received' = received + 1 /\ received \in Nat
        /\ UNCHANGED <<baseline, filled, lastReq, send, log>>
    BY <1>4 DEF RecvArrives, TypeOK
  <2>2. filled \subseteq Nat
    BY DEF TypeOK
  <2>3. (\A k \in filled : k <= received + 1) /\ received + 1 \notin filled
    BY <2>1, <2>2
  <2> QED
    BY <2>1, <2>3
<1>5. CASE RecvFails
  BY <1>5 DEF RecvFails, IdleRecv
<1>6. CASE swapLastReq
  <2>1. /\ recv.pc = "arrived" /\ recv.msg = received /\ lastReq' = received
        /\ UNCHANGED <<baseline, filled, received, send, log>>
    BY <1>6 DEF swapLastReq, HeldOnce
  <2>2. \/ recv'.pc = "idle"
        \/ recv'.pc = "logging" /\ recv'.old = lastReq /\ recv'.base = recv.base
    <3>1. CASE lastReq # NoReq /\ shouldLogReq
      BY <1>6, <3>1 DEF swapLastReq, TypeOK
    <3>2. CASE ~ (lastReq # NoReq /\ shouldLogReq)
      BY <1>6, <3>2 DEF swapLastReq, RecvReturn, IdleRecv
    <3> QED
      BY <3>1, <3>2
  <2> QED
    BY <2>1, <2>2
<1>7. CASE RecvLog
  <2> PICK result \in Results(recv.mode) :
        /\ Logged(recv.old, 0, recv.base, 0, recv.mode, FALSE, result)
        /\ RecvReturn(IF result = "failed" THEN NoReq ELSE recv.msg)
    BY <1>7 DEF RecvLog
  <2> DEFINE e == [req |-> recv.old, resp |-> 0, base |-> recv.base, of |-> 0,
                   mode |-> LogMode(recv.mode), status |-> FALSE, result |-> result]
  <2>1. e \in LogEntry /\ log' = Append(log, e) /\ e.req = recv.old /\ e.base = recv.base
    BY ModeTypes DEF Logged, LogEntry, Results, TypeOK
  <2> HIDE DEF e
  <2>2. /\ recv.pc = "logging" /\ recv'.pc = "idle"
        /\ UNCHANGED <<baseline, filled, lastReq, received, send>>
    BY <1>7 DEF RecvLog, RecvReturn, IdleRecv
  <2>3. \A i \in Idx' : log'[i].req \in filled' \ {0} => log'[i].base = log'[i].req
    BY <2>1, <2>2, NewEntryContext DEF TypeOK
  <2> QED
    BY <2>2, <2>3
<1>8. CASE RecvConvertFails
  BY <1>8 DEF RecvConvertFails, RecvReturn, IdleRecv
<1>9. CASE SendCall
  <2>1. recv.pc = "idle" /\ send'.pc = "cloned" /\ send'.base = baseline
        /\ UNCHANGED <<baseline, filled, lastReq, received, recv, log>>
    BY <1>9 DEF SendCall, MayCall
  <2> QED
    BY <2>1
<1>10. CASE popLastReq
  <2>1. /\ send.pc = "cloned" /\ send'.pc = "logging" /\ send'.req = lastReq
        /\ send'.base = send.base /\ lastReq' = 0
        /\ UNCHANGED <<baseline, filled, received, recv, log>>
    BY <1>10 DEF popLastReq, TypeOK
  <2> QED
    BY <2>1
<1>11. CASE SendLog
  <2> PICK result \in Results(send.mode) :
        /\ Logged(IF shouldLogReq THEN send.req ELSE NoReq,
                  IF shouldLogResp THEN send.resp ELSE 0,
                  send.base, send.resp, send.mode, FALSE, result)
        /\ send' = IF result = "failed" THEN IdleSend ELSE [send EXCEPT !.pc = "sending"]
    BY <1>11 DEF SendLog
  <2> DEFINE e == [req |-> IF shouldLogReq THEN send.req ELSE NoReq,
                   resp |-> IF shouldLogResp THEN send.resp ELSE 0,
                   base |-> send.base, of |-> send.resp,
                   mode |-> LogMode(send.mode), status |-> FALSE, result |-> result]
  <2>1. e \in LogEntry /\ log' = Append(log, e) /\ e.req \in {send.req, 0} /\ e.base = send.base
    BY ModeTypes DEF Logged, LogEntry, Results, TypeOK
  <2> HIDE DEF e
  <2>2. /\ send.pc = "logging" /\ send'.pc \in {"idle", "sending"}
        /\ UNCHANGED <<baseline, filled, lastReq, received, recv>>
    BY <1>11 DEF SendLog, IdleSend, TypeOK
  <2>3. \A i \in Idx' : log'[i].req \in filled' \ {0} => log'[i].base = log'[i].req
    BY <2>1, <2>2, NewEntryContext DEF TypeOK
  <2> QED
    BY <2>2, <2>3
<1>12. CASE SendConvertFails
  BY <1>12 DEF SendConvertFails, IdleSend
<1>13. CASE SendWire
  BY <1>13 DEF SendWire, IdleSend
<1>14. CASE HandlerReturn
  <2>1. UNCHANGED <<baseline, filled, lastReq, received, recv, send>>
    BY <1>14 DEF HandlerReturn
  <2>2. CASE log' = log
    BY <2>1, <2>2
  <2>3. ASSUME NEW result \in Results(baseMode),
               Logged(NoReq, 0, baseline, 0, baseMode, TRUE, result)
        PROVE  ContextInv'
    <3> DEFINE e == [req |-> NoReq, resp |-> 0, base |-> baseline, of |-> 0,
                     mode |-> LogMode(baseMode), status |-> TRUE, result |-> result]
    <3>1. e \in LogEntry /\ log' = Append(log, e) /\ e.req = 0
      BY <2>3, ModeTypes DEF Logged, LogEntry, Results, TypeOK
    <3> HIDE DEF e
    <3>2. \A i \in Idx' : log'[i].req \in filled' \ {0} => log'[i].base = log'[i].req
      BY <2>1, <3>1, NewEntryContext DEF TypeOK
    <3> QED
      BY <2>1, <3>2
  <2> QED
    BY <1>14, <2>2, <2>3 DEF HandlerReturn
<1>15. CASE UNCHANGED vars
  BY <1>15 DEF vars
<1> QED
  BY <1>1, <1>2, <1>3, <1>4, <1>5, <1>6, <1>7, <1>8, <1>9, <1>10, <1>11, <1>12, <1>13,
     <1>14, <1>15, <1>16 DEF Next

(* A handler of a stream that makes one call at a time finds, in the entry *)
(* of a request that it described in LogReqFromCtx, that description: the  *)
(* copies that RecvMsg and SendMsg take of it are never those of another   *)
(* request.                                                                *)
THEOREM OwnContextCorrect == Spec => []OwnContext
<1> DEFINE J == IInv /\ (sequential => ContextInv)
<1>1. Init => J
  BY InitInv DEF Init, ContextInv, Idx, IdleRecv, IdleSend, NoReq
<1>2. J /\ [Next]_vars => J'
  <2> SUFFICES ASSUME J, [Next]_vars PROVE J'
    OBVIOUS
  <2>1. sequential' = sequential
    BY DEF Next, vars, Wrapper, NoRule, handleReturnStream, CallHandler, Fill, SetMode, RecvCall,
       RecvArrives, RecvFails, swapLastReq, RecvLog, RecvConvertFails, SendCall,
       popLastReq, SendLog, SendConvertFails, SendWire, HandlerReturn
  <2>2. IInv'
    BY StepInv
  <2> QED
    BY <2>1, <2>2, ContextStep
<1>3. J => OwnContext
  BY DEF ContextInv, OwnContext, Idx
<1> QED
  BY <1>1, <1>2, <1>3, PTL DEF Spec

=============================================================================
