-------------------------- MODULE JavaInterceptor --------------------------
(***************************************************************************)
(* AuditLoggingServerInterceptor of the Java client: calls that share the  *)
(* memo of selectors, a HashMap, and within each call two threads that     *)
(* share the deque of unlogged requests: gRPC's callbacks, one after the   *)
(* other ("listener"), and whatever thread of the application sends        *)
(* responses and closes the call ("sender").  Each access to the memo or   *)
(* to the deque is a step.                                                 *)
(*                                                                         *)
(* LoggingClient.log is taken at its word: an entry is stored, filtered    *)
(* out, or fails, which throws in fail-close mode only.  An exception that *)
(* leaves the interceptor in a callback makes gRPC close the call.         *)
(***************************************************************************)
EXTENDS SecurityContext, FiniteSets

CONSTANTS
  Calls,          \* concurrent calls
  Rules,          \* selectors of the configuration, in order
  Specs,          \* its JWT specifications, in order
  Inputs,         \* what can come with each call
  Earlier,        \* methods that were called before
  MaxMessages,    \* bound: request messages of each call
  MaxResponses    \* bound: response messages of each call

Threads == {"listener", "sender"}
Directives == {"AUDIT", "AUDIT_REQUEST_ONLY", "AUDIT_REQUEST_AND_RESPONSE"}

(* Names are words; a wildcard at the end of a selector is kept apart.     *)
Selector == [name : Seq(STRING), wild : BOOLEAN, directive : Directives]

(* convertible: the call's messages can be converted to a Struct.          *)
Input == [method : Seq(STRING), headers : [HeaderKeys -> Seq(HeaderValue)],
          justified : BOOLEAN, convertible : BOOLEAN]

ASSUME JavaAssumption ==
  /\ Rules \in Seq(Selector)
  /\ Specs \in Seq(JwtRule)
  /\ Inputs \in [Calls -> SUBSET Input]
  /\ Earlier \subseteq Seq(STRING)
  /\ MaxMessages \in [Calls -> Nat]
  /\ MaxResponses \in [Calls -> Nat]

VARIABLES
  mode,       \* log mode of the configuration, with its default
  input,      \* what came with each call
  stage,      \* where interceptCall is
  choice,     \* the selector of the call, by its number; 0 is none
  memo,       \* method -> number of its selector
  starts,     \* number of times the handler was started
  unloggedRequests,
  at,         \* where each of the two threads is
  hand,       \* the request each thread has polled; 0 is null
  received,   \* number of requests that arrived
  audited,    \* request -> number of times it was given to auditLog
  responses,  \* number of responses the handler wanted to send
  filed,      \* responses whose entry was stored or filtered out
  sent,       \* responses that were sent
  closed      \* the call is closed

lookupVars == <<choice, memo>>
callVars == <<unloggedRequests, at, hand, received, audited, responses, filed,
              sent, closed>>
vars == <<mode, input, stage, starts, lookupVars, callVars>>

TypeOK ==
  /\ mode \in {"FAIL_CLOSE", "BEST_EFFORT"}
  /\ \A c \in Calls : input[c] \in Inputs[c]
  /\ stage \in [Calls -> {"lookup", "get", "compute", "putting", "select",
                          "start", "running", "unaudited", "failed"}]
  /\ choice \in [Calls -> 0..Len(Rules)]
  /\ starts \in [Calls -> Nat]
  /\ received \in [Calls -> Nat]
  /\ responses \in [Calls -> Nat]
  /\ closed \in [Calls -> BOOLEAN]
  /\ \A c \in Calls :
       /\ unloggedRequests[c] \in Seq(1..MaxMessages[c])
       /\ at[c] \in [Threads -> {"idle", "check", "poll", "log", "add", "handle",
                                 "send log", "send", "close poll", "close log",
                                 "close", "dead"}]
       /\ hand[c] \in [Threads -> 0..MaxMessages[c]]
       /\ \A t \in Threads : at[c][t] \in {"log", "close log"} => hand[c][t] # 0
       /\ filed[c] \cup sent[c] \subseteq 1..MaxResponses[c]

shouldFailClose == mode = "FAIL_CLOSE"
shouldLogRequest(d) == d \in {"AUDIT_REQUEST_AND_RESPONSE", "AUDIT_REQUEST_ONLY"}
shouldLogResponse(d) == d = "AUDIT_REQUEST_AND_RESPONSE"

-----------------------------------------------------------------------------
(* The selector of a call.                                                 *)

getLength(s) == Len(s.name) + (IF s.wild THEN 1 ELSE 0)

(* A selector without a wildcard matches a prefix, too.                    *)
isApplicable(s, method) ==
  Len(s.name) <= Len(method) /\ SubSeq(method, 1, Len(s.name)) = s.name

(* Mutant: the first selector that applies.                                *)
returnFirst(method) ==
  LET applicable == {i \in DOMAIN Rules : isApplicable(Rules[i], method)}
  IN  IF applicable = {} THEN 0
      ELSE CHOOSE i \in applicable : \A j \in applicable : i <= j

(* The loop over the selectors: a longer one replaces a shorter one until  *)
(* one is as long as the method.                                           *)
returnMostRelevant(method) ==
  LET most[k \in 0..Len(Rules)] ==
        IF k = 0 THEN 0
        ELSE LET best == most[k - 1]
                 longest == IF best = 0 THEN 0 ELSE getLength(Rules[best])
             IN  IF /\ best = 0 \/ longest # Len(method)
                    /\ isApplicable(Rules[k], method)
                    /\ getLength(Rules[k]) > longest
                 THEN k ELSE best
  IN  most[Len(Rules)]

(* Earlier calls may have left their selectors in the memo.                *)
Init ==
  /\ mode \in {"FAIL_CLOSE", "BEST_EFFORT"}
  /\ input \in {f \in [Calls -> UNION {Inputs[c] : c \in Calls}] :
                 \A c \in Calls : f[c] \in Inputs[c]}
  /\ stage = [c \in Calls |-> "lookup"]
  /\ choice = [c \in Calls |-> 0]
  /\ \E called \in SUBSET Earlier : memo = [m \in called |-> returnMostRelevant(m)]
  /\ starts = [c \in Calls |-> 0]
  /\ unloggedRequests = [c \in Calls |-> <<>>]
  /\ at = [c \in Calls |-> [t \in Threads |-> "idle"]]
  /\ hand = [c \in Calls |-> [t \in Threads |-> 0]]
  /\ received = [c \in Calls |-> 0]
  /\ audited = [c \in Calls |-> [r \in 1..MaxMessages[c] |-> 0]]
  /\ responses = [c \in Calls |-> 0]
  /\ filed = [c \in Calls |-> {}]
  /\ sent = [c \in Calls |-> {}]
  /\ closed = [c \in Calls |-> FALSE]

(* Another thread is in putIfAbsent, perhaps moving the table: a HashMap   *)
(* then promises nothing.                                                  *)
Racing(c) == \E d \in Calls \ {c} : stage[d] = "putting"

ContainsKey(c) ==
  /\ stage[c] = "lookup"
  /\ \/ /\ input[c].method \in DOMAIN memo
        /\ stage' = [stage EXCEPT ![c] = "get"]
     \/ /\ input[c].method \notin DOMAIN memo \/ Racing(c)
        /\ stage' = [stage EXCEPT ![c] = "compute"]
  /\ UNCHANGED <<mode, input, starts, lookupVars, callVars>>

(* A null, seen while the table moves, is dereferenced: the call fails.    *)
Get(c) ==
  /\ stage[c] = "get"
  /\ \/ /\ input[c].method \in DOMAIN memo
        /\ choice' = [choice EXCEPT ![c] = memo[input[c].method]]
        /\ stage' = [stage EXCEPT ![c] = "select"]
     \/ /\ input[c].method \notin DOMAIN memo \/ Racing(c)
        /\ stage' = [stage EXCEPT ![c] = "failed"]
        /\ UNCHANGED choice
  /\ UNCHANGED <<mode, input, memo, starts, callVars>>

Compute(c) ==
  /\ stage[c] = "compute"
  /\ choice' = [choice EXCEPT ![c] = returnMostRelevant(input[c].method)]
  /\ stage' = [stage EXCEPT ![c] = "putting"]
  /\ UNCHANGED <<mode, input, memo, starts, callVars>>

(* putIfAbsent; two at once can lose what either put, or had been put.     *)
PutIfAbsent(c) ==
  /\ stage[c] = "putting"
  /\ LET m == input[c].method
         put == [k \in DOMAIN memo \cup {m} |->
                   IF k \in DOMAIN memo THEN memo[k] ELSE choice[c]]
     IN  \E kept \in (IF Racing(c) THEN SUBSET DOMAIN put ELSE {DOMAIN put}) :
           memo' = [k \in kept |-> put[k]]
  /\ stage' = [stage EXCEPT ![c] = "select"]
  /\ UNCHANGED <<mode, input, choice, starts, callVars>>

-----------------------------------------------------------------------------
(* The principal, and the start of the handler.                            *)

(* What one specification says of the headers: nothing, a principal (a     *)
(* blank one, too), or an exception: AuthorizationException for a token    *)
(* that cannot be decoded, NullPointerException for a claim that is not a  *)
(* string.  Tokens are decoded, not verified.  The last value of a header  *)
(* counts, and a prefix that is not there is not cut off.                  *)
PrincipalOf(headers, spec) ==
  LET values == headers[spec.key]
      value == values[Len(values)]
  IN  IF values = <<>> THEN NoPrincipal
      ELSE IF value.scheme \notin {"", spec.prefix} THEN "unparsable"
      ELSE IF value.token = "no email" THEN NoPrincipal
      ELSE value.token

getPrincipal(headers) ==
  LET found == {i \in DOMAIN Specs : PrincipalOf(headers, Specs[i]) # NoPrincipal}
  IN  IF found = {} THEN NoPrincipal
      ELSE PrincipalOf(headers, Specs[CHOOSE i \in found : \A j \in found : i <= j])

HasPrincipal(c) ==
  getPrincipal(input[c].headers) \notin {NoPrincipal, "unparsable", "no string"}

NoSelector(c) ==
  /\ stage[c] = "select"
  /\ choice[c] = 0
  /\ stage' = [stage EXCEPT ![c] = "unaudited"]
  /\ starts' = [starts EXCEPT ![c] = @ + 1]
  /\ UNCHANGED <<mode, input, lookupVars, callVars>>

(* Without a principal the handler is started here, after an exception     *)
(* twice, and interceptCall goes on nevertheless.                          *)
FindPrincipal(c) ==
  LET p == getPrincipal(input[c].headers)
  IN  /\ stage[c] = "select"
      /\ choice[c] # 0
      /\ IF p = "no string" \/ (p = "unparsable" /\ shouldFailClose)
         THEN stage' = [stage EXCEPT ![c] = "failed"] /\ UNCHANGED starts
         ELSE /\ stage' = [stage EXCEPT ![c] = "start"]
              /\ starts' = [starts EXCEPT ![c] = @ + CASE p = NoPrincipal  -> 1
                                                       [] p = "unparsable" -> 2
                                                       [] OTHER            -> 0]
      /\ UNCHANGED <<mode, input, lookupVars, callVars>>

(* Contexts.interceptCall starts the handler with the wrapped call.        *)
Start(c) ==
  /\ stage[c] = "start"
  /\ stage' = [stage EXCEPT ![c] = "running"]
  /\ starts' = [starts EXCEPT ![c] = @ + 1]
  /\ UNCHANGED <<mode, input, lookupVars, callVars>>

-----------------------------------------------------------------------------
(* Messages of a call.                                                     *)

(* Thread t of call c goes on at place p with request r in its hand.       *)
Goto(c, t, p, r) ==
  /\ at' = [at EXCEPT ![c][t] = p]
  /\ hand' = [hand EXCEPT ![c][t] = r]
  /\ UNCHANGED <<mode, input, stage, starts, lookupVars>>

(* What pollFirst and pollLast return, and what they leave.                *)
pollFirst(c) == IF unloggedRequests[c] = <<>> THEN 0 ELSE Head(unloggedRequests[c])
pollLast(c) ==
  IF unloggedRequests[c] = <<>> THEN 0 ELSE unloggedRequests[c][Len(unloggedRequests[c])]

TakeFirst(c) ==
  unloggedRequests' = [unloggedRequests EXCEPT ![c] = IF @ = <<>> THEN @ ELSE Tail(@)]
TakeLast(c) ==
  unloggedRequests' = [unloggedRequests EXCEPT ![c] =
                         IF @ = <<>> THEN @ ELSE SubSeq(@, 1, Len(@) - 1)]

(* What auditLog can make of request r, with a response or without.  A     *)
(* message that cannot be converted and a justification header that is not *)
(* there throw in either mode; so does whatever client.log reports in      *)
(* fail-close mode, which for an entry without a principal is certain.     *)
Unconverted(c, r, withResponse) ==
  LET d == Rules[choice[c]].directive
  IN  /\ ~ input[c].convertible
      /\ (shouldLogResponse(d) /\ withResponse) \/ (shouldLogRequest(d) /\ r # 0)

auditLog(c, r, withResponse) ==
  IF Unconverted(c, r, withResponse) \/ ~ input[c].justified THEN {"thrown"}
  ELSE {IF shouldFailClose THEN "thrown" ELSE "lost"}
         \cup (IF HasPrincipal(c) THEN {"stored", "dropped"} ELSE {})

(* Request r was given to auditLog.                                        *)
Given(c, r) ==
  audited' = IF r = 0 THEN audited ELSE [audited EXCEPT ![c][r] = @ + 1]

Idle(c, t) == stage[c] = "running" /\ at[c][t] = "idle"

(* onMessage, while the call is open.                                      *)
OnMessage(c) ==
  /\ Idle(c, "listener")
  /\ ~ closed[c]
  /\ received[c] < MaxMessages[c]
  /\ received' = [received EXCEPT ![c] = @ + 1]
  /\ Goto(c, "listener", "check", 0)
  /\ UNCHANGED <<unloggedRequests, audited, responses, filed, sent, closed>>

(* Mutant: the loop is gone.                                               *)
IsEmptyNoDrain(c) ==
  /\ at[c]["listener"] = "check"
  /\ Goto(c, "listener", "add", 0)
  /\ UNCHANGED <<unloggedRequests, received, audited, responses, filed, sent, closed>>

(* The condition of the while loop.                                        *)
IsEmpty(c) ==
  /\ at[c]["listener"] = "check"
  /\ Goto(c, "listener", IF unloggedRequests[c] = <<>> THEN "add" ELSE "poll", 0)
  /\ UNCHANGED <<unloggedRequests, received, audited, responses, filed, sent, closed>>

(* Mutants: what was polled is not checked; it stays in the deque; polling *)
(* is repeated until it gives a request.                                   *)
PollOldestUnchecked(c) ==
  /\ at[c]["listener"] = "poll"
  /\ TakeFirst(c)
  /\ Goto(c, "listener", "log", pollFirst(c))
  /\ UNCHANGED <<received, audited, responses, filed, sent, closed>>

PollOldestPeek(c) ==
  /\ at[c]["listener"] = "poll"
  /\ Goto(c, "listener", IF pollFirst(c) = 0 THEN "check" ELSE "log", pollFirst(c))
  /\ UNCHANGED <<unloggedRequests, received, audited, responses, filed, sent, closed>>

PollOldestSpin(c) ==
  /\ at[c]["listener"] = "poll"
  /\ TakeFirst(c)
  /\ Goto(c, "listener", IF pollFirst(c) = 0 THEN "poll" ELSE "log", pollFirst(c))
  /\ UNCHANGED <<received, audited, responses, filed, sent, closed>>

(* The body: the sender can have taken the request in between.             *)
PollOldest(c) ==
  /\ at[c]["listener"] = "poll"
  /\ TakeFirst(c)
  /\ Goto(c, "listener", IF pollFirst(c) = 0 THEN "check" ELSE "log", pollFirst(c))
  /\ UNCHANGED <<received, audited, responses, filed, sent, closed>>

(* An exception of auditLog leaves onMessage: the new message is not added *)
(* and does not reach the handler.  (The deque is then empty, so that the  *)
(* callbacks that may still come have nothing to log.)                     *)
LogWaiting(c) ==
  /\ at[c]["listener"] = "log"
  /\ Given(c, hand[c]["listener"])
  /\ \E result \in auditLog(c, hand[c]["listener"], FALSE) :
       IF result = "thrown"
       THEN Goto(c, "listener", "dead", 0) /\ closed' = [closed EXCEPT ![c] = TRUE]
       ELSE Goto(c, "listener", "check", 0) /\ UNCHANGED closed
  /\ UNCHANGED <<unloggedRequests, received, responses, filed, sent>>

AddMessage(c) ==
  /\ at[c]["listener"] = "add"
  /\ unloggedRequests' = [unloggedRequests EXCEPT ![c] = Append(@, received[c])]
  /\ Goto(c, "listener", "handle", 0)
  /\ UNCHANGED <<received, audited, responses, filed, sent, closed>>

(* The handler returns.                                                    *)
HandlerReturns(c) ==
  /\ at[c]["listener"] = "handle"
  /\ Goto(c, "listener", "idle", 0)
  /\ UNCHANGED <<unloggedRequests, received, audited, responses, filed, sent, closed>>

(* An exception in the handler, in onMessage, onHalfClose, onComplete or   *)
(* onCancel: closeWithException.  A status that is OK itself is closed     *)
(* without a log.                                                          *)
closeWithException(c) ==
  /\ Idle(c, "listener") \/ at[c]["listener"] = "handle"
  /\ \E p \in {"close poll", "close"} : Goto(c, "listener", p, 0)
  /\ UNCHANGED <<unloggedRequests, received, audited, responses, filed, sent, closed>>

(* sendMessage polls the newest request.                                   *)
SendMessage(c) ==
  /\ Idle(c, "sender")
  /\ responses[c] < MaxResponses[c]
  /\ responses' = [responses EXCEPT ![c] = @ + 1]
  /\ TakeLast(c)
  /\ Goto(c, "sender", "send log", pollLast(c))
  /\ UNCHANGED <<received, audited, filed, sent, closed>>

(* Mutant: an exception of the log does not keep the response back.        *)
SendLogSwallowed(c) ==
  /\ at[c]["sender"] = "send log"
  /\ Given(c, hand[c]["sender"])
  /\ \E result \in auditLog(c, hand[c]["sender"], TRUE) :
       /\ Goto(c, "sender", "send", 0)
       /\ filed' = [filed EXCEPT ![c] = IF result \in {"stored", "dropped"}
                                        THEN @ \cup {responses[c]} ELSE @]
  /\ UNCHANGED <<unloggedRequests, received, responses, sent, closed>>

(* An exception goes to the application, which need not stop for it.       *)
SendLog(c) ==
  /\ at[c]["sender"] = "send log"
  /\ Given(c, hand[c]["sender"])
  /\ \E result \in auditLog(c, hand[c]["sender"], TRUE) :
       /\ Goto(c, "sender", IF result = "thrown" THEN "idle" ELSE "send", 0)
       /\ filed' = [filed EXCEPT ![c] = IF result \in {"stored", "dropped"}
                                        THEN @ \cup {responses[c]} ELSE @]
  /\ UNCHANGED <<unloggedRequests, received, responses, sent, closed>>

(* super.sendMessage fails on a closed call.                               *)
SuperSend(c) ==
  /\ at[c]["sender"] = "send"
  /\ sent' = [sent EXCEPT ![c] = IF closed[c] THEN @ ELSE @ \cup {responses[c]}]
  /\ Goto(c, "sender", "idle", 0)
  /\ UNCHANGED <<unloggedRequests, received, audited, responses, filed, closed>>

(* The application closes the call, with OK or another status.             *)
Close(c) ==
  /\ Idle(c, "sender")
  /\ ~ closed[c]
  /\ \E p \in {"close poll", "close"} : Goto(c, "sender", p, 0)
  /\ UNCHANGED <<unloggedRequests, received, audited, responses, filed, sent, closed>>

ClosePoll(c, t) ==
  /\ at[c][t] = "close poll"
  /\ TakeFirst(c)
  /\ Goto(c, t, IF pollFirst(c) = 0 THEN "close" ELSE "close log", pollFirst(c))
  /\ UNCHANGED <<received, audited, responses, filed, sent, closed>>

(* Mutant: super.close is skipped whenever the entry is not stored.        *)
CloseLogSkip(c, t) ==
  /\ at[c][t] = "close log"
  /\ Given(c, hand[c][t])
  /\ \E result \in auditLog(c, hand[c][t], FALSE) :
       Goto(c, t, IF result = "stored" THEN "close" ELSE "idle", 0)
  /\ UNCHANGED <<unloggedRequests, received, responses, filed, sent, closed>>

(* An exception skips super.close; out of a callback gRPC closes the call. *)
CloseLog(c, t) ==
  /\ at[c][t] = "close log"
  /\ Given(c, hand[c][t])
  /\ \E result \in auditLog(c, hand[c][t], FALSE) :
       IF result # "thrown" THEN Goto(c, t, "close", 0) /\ UNCHANGED closed
       ELSE /\ Goto(c, t, "idle", 0)
            /\ closed' = IF t = "sender" THEN closed ELSE [closed EXCEPT ![c] = TRUE]
  /\ UNCHANGED <<unloggedRequests, received, responses, filed, sent>>

(* super.close fails on a call that is closed, which leaves it closed.     *)
SuperClose(c, t) ==
  /\ at[c][t] = "close"
  /\ closed' = [closed EXCEPT ![c] = TRUE]
  /\ Goto(c, t, "idle", 0)
  /\ UNCHANGED <<unloggedRequests, received, audited, responses, filed, sent>>

-----------------------------------------------------------------------------

interceptCall(c) ==
  \/ ContainsKey(c) \/ Get(c) \/ Compute(c) \/ PutIfAbsent(c)
  \/ NoSelector(c) \/ FindPrincipal(c) \/ Start(c)

(* What a thread does once gRPC or the application has called it.          *)
Drain(c) == IsEmpty(c) \/ PollOldest(c) \/ LogWaiting(c) \/ AddMessage(c)
Closing(c, t) == ClosePoll(c, t) \/ CloseLog(c, t) \/ SuperClose(c, t)
Sending(c) == SendLog(c) \/ SuperSend(c)

Next ==
  \E c \in Calls :
    \/ interceptCall(c)
    \/ OnMessage(c) \/ Drain(c) \/ HandlerReturns(c) \/ closeWithException(c)
    \/ SendMessage(c) \/ Sending(c) \/ Close(c)
    \/ \E t \in Threads : Closing(c, t)

(* Threads run.  Nobody has to send, close or return.                      *)
Fairness ==
  \A c \in Calls :
    /\ WF_vars(Drain(c))
    /\ WF_vars(Sending(c))
    /\ \A t \in Threads : WF_vars(Closing(c, t))

Spec == Init /\ [][Next]_vars /\ Fairness

-----------------------------------------------------------------------------
(* Properties.                                                             *)

(* The two threads of a call neither lose nor repeat a request between     *)
(* them: one that onMessage has added is in the deque, in the hand of one  *)
(* thread, or was given to auditLog, once; in one of these places only.    *)
RequestsConserved ==
  \A c \in Calls : \A r \in 1..received[c] :
    LET waiting == {k \in DOMAIN unloggedRequests[c] : unloggedRequests[c][k] = r}
        held == {t \in Threads : hand[c][t] = r}
        added == r # received[c] \/ at[c]["listener"] \notin {"check", "poll", "log",
                                                             "add", "dead"}
    IN  Cardinality(waiting) + Cardinality(held) + audited[c][r] = IF added THEN 1 ELSE 0

(* "If the case occurs where multiple requests come in before a response   *)
(* occurs, we log all but the last request, then log the last request with *)
(* the response": whichever thread has taken a request to log it, with a   *)
(* response or without, the ones before it are logged, or the other thread *)
(* is about to.  None is left behind in the deque, though onMessage takes  *)
(* the oldest and sendMessage the newest.                                  *)
AllButTheLast ==
  \A c \in Calls, t \in Threads :
    \A r \in 1..(hand[c][t] - 1) :
      audited[c][r] = 1 \/ \E u \in Threads : hand[c][u] = r

(* "In FAIL_CLOSE mode, the log request must be persisted in the system    *)
(* before return": a response leaves the wrapped call of a fail-close      *)
(* server only once its entry was stored, or filtered out.                 *)
SentAfterStored ==
  shouldFailClose => \A c \in Calls : sent[c] \subseteq filed[c]

(* Whatever the unsynchronised memo goes through, a call that gets as far  *)
(* as its handler has the selector that is the most relevant for its own   *)
(* method: the longest one, or the first as long as the method.            *)
RightSelector ==
  \A c \in Calls :
    LET m == input[c].method
        applicable == {i \in DOMAIN Rules : /\ isApplicable(Rules[i], m)
                                            /\ getLength(Rules[i]) > 0}
        n(i) == getLength(Rules[i])
    IN  stage[c] \in {"start", "running", "unaudited"} =>
          IF choice[c] = 0 THEN applicable = {}
          ELSE /\ choice[c] \in applicable
               /\ \A i \in applicable :
                    /\ i < choice[c] => n(i) < n(choice[c])
                    /\ i > choice[c] => n(i) <= n(choice[c]) \/ n(choice[c]) = Len(m)

(* The loop in onMessage ends, though the sender takes requests away from  *)
(* under it: a message that arrived reaches the handler, or the call ends. *)
MessageHandled ==
  \A c \in Calls :
    (at[c]["listener"] \in {"check", "poll", "log", "add"})
      ~> (at[c]["listener"] \in {"handle", "dead"})

(* When nothing but the store can fail, and is not allowed to, closing the *)
(* call, on either thread, closes it.                                      *)
CloseHappens ==
  \A c \in Calls : \A t \in Threads :
    (/\ at[c][t] \in {"close poll", "close log", "close"}
     /\ ~ shouldFailClose /\ input[c].justified /\ input[c].convertible)
      ~> closed[c]

(* "Principal was unable to be determined, continuing without audit        *)
(* logging": the handler is started once, to run without audit.            *)
StartedOnce == \A c \in Calls : starts[c] <= 1

=============================================================================
