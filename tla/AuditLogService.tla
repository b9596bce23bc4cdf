--------------------------- MODULE AuditLogService ---------------------------
(***************************************************************************)
(* What an application is promised about a log request, as the protocol    *)
(* states it for LogMode: a fail-close request is persisted before its     *)
(* call returns, or the call returns an error; a call in any other mode    *)
(* never returns an error and its request is persisted with best effort.   *)
(* A request may also be filtered out, by its principal, and then needs    *)
(* not be persisted at all.                                                *)
(***************************************************************************)
CONSTANTS Reqs

VARIABLES
  mode,      \* the log mode of each request, once submitted
  status,    \* what its caller knows of it
  durable    \* the requests that are persisted

svars == <<mode, status, durable>>

Modes == {"UNSPECIFIED", "FAIL_CLOSE", "BEST_EFFORT"}

Init ==
  /\ mode = [r \in Reqs |-> "UNSPECIFIED"]
  /\ status = [r \in Reqs |-> "idle"]
  /\ durable = {}

Submit(r) ==
  /\ status[r] = "idle"
  /\ status' = [status EXCEPT ![r] = "pending"]
  /\ \E m \in Modes : mode' = [mode EXCEPT ![r] = m]
  /\ durable' = durable

(* Persisting a request can precede or follow the answer to its caller.    *)
Persist(r) ==
  /\ status[r] \notin {"idle", "filtered", "aborted"}
  /\ durable' = durable \cup {r}
  /\ UNCHANGED <<mode, status>>

(* The answer: the last write of the request may come with it.             *)
Answer(r, a) ==
  /\ status[r] = "pending"
  /\ status' = [status EXCEPT ![r] = a]
  /\ durable' \in {durable, durable \cup {r}}
  /\ mode' = mode

Ack(r) == Answer(r, "acked") /\ (mode[r] = "FAIL_CLOSE" => r \in durable')

Fail(r) == Answer(r, "failed") /\ mode[r] = "FAIL_CLOSE"

(* Filtered out by the client: nothing of it has been persisted.           *)
Filter(r) == Answer(r, "filtered") /\ r \notin durable'

(* The caller is taken down by its request instead of getting an answer.   *)
Abort(r) ==
  /\ status[r] \in {"idle", "pending"}
  /\ status' = [status EXCEPT ![r] = "aborted"]
  /\ UNCHANGED <<mode, durable>>

Next == \E r \in Reqs :
  Submit(r) \/ Persist(r) \/ Ack(r) \/ Fail(r) \/ Filter(r) \/ Abort(r)

Spec == Init /\ [][Next]_svars

=============================================================================
