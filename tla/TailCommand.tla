---------------------------- MODULE TailCommand ----------------------------
(***************************************************************************)
(* lumberctl tail.  Run lists the newest log entries with Puller.Pull, or  *)
(* follows them as they show up (-follow) with Puller.StreamPull and       *)
(* TailCommand.stream.  Both use one puller, with one budget of retries,   *)
(* and one context, which an interrupt cancels.                            *)
(*                                                                         *)
(* Left out: the other flags, which select a filter or are checked before  *)
(* anything happens, and the validation of what is printed, which does not *)
(* decide what the command does next.                                      *)
(***************************************************************************)
EXTENDS Naturals, Sequences, Functions

CONSTANTS
  Entries,      \* entries that match the filter, or that the service sends
  MaxBatch,     \* entries in one response of the service at most
  MaxNums,      \* values of -max-num to consider
  Limit,        \* greatest -max-num that Run accepts (1000 in the code)
  MaxRetries    \* retries that the puller's budget allows (5 in the code)

ASSUME TailAssumption ==
  /\ Entries \in Nat
  /\ MaxBatch \in Nat \ {0}
  /\ MaxNums \subseteq Nat
  /\ Limit \in Nat
  /\ MaxRetries \in Nat

VARIABLES
  follow,       \* flagFollow
  maxNum,       \* flagMaxNum
  code,         \* "start", "running", then what Run returned: "ok", "failed"
  retries, cancelled,                                        \* shared
  pc, maxCount, it, ls, err,                                 \* of Pull
  stream, received, puller, batch, perr, closed,             \* of StreamPull
  command, out                                               \* of list, stream

pullVars == <<pc, maxCount, it, ls, err>>
streamVars == <<stream, received, puller, batch, perr, closed>>
vars == <<follow, maxNum, code, retries, cancelled, pullVars, streamVars, command, out>>

P == INSTANCE LogPuller WITH MaxCounts <- MaxNums, done <- cancelled
S == INSTANCE TailStream WITH MaxEntries <- Entries

TypeOK ==
  /\ follow \in BOOLEAN
  /\ maxNum \in MaxNums
  /\ code \in {"start", "running", "ok", "failed"}
  /\ P!TypeOK
  /\ S!TypeOK

Init ==
  /\ follow \in BOOLEAN
  /\ maxNum \in MaxNums
  /\ code = "start"
  /\ P!Init
  /\ S!Init

-----------------------------------------------------------------------------
(* Run checks -max-num in either mode, creates a log client, which may     *)
(* fail, and calls list or stream.                                         *)
Run ==
  /\ code = "start"
  /\ \/ code' = "failed" /\ UNCHANGED <<retries, cancelled, pullVars>>
     \/ /\ maxNum > 0 /\ maxNum <= Limit
        /\ code' = "running"
        /\ IF follow THEN UNCHANGED <<retries, cancelled, pullVars>> ELSE P!Pull(maxNum)
  /\ UNCHANGED <<follow, maxNum, streamVars, command, out>>

ListPull ==
  /\ code = "running" /\ ~ follow
  /\ P!PullStep
  /\ UNCHANGED <<follow, maxNum, code, streamVars, command, out>>

(* list after Pull has returned.                                           *)
ListOutput ==
  /\ code = "running" /\ ~ follow
  /\ pc = "returned" /\ command = "ranging"
  /\ command' = IF err THEN "failed" ELSE "ok"
  /\ out' = ls
  /\ UNCHANGED <<follow, maxNum, code, retries, cancelled, pullVars, streamVars>>

StreamStep ==
  /\ code = "running" /\ follow
  /\ S!PullerStep
  /\ UNCHANGED <<follow, maxNum, code, pullVars>>

Received ==
  /\ code = "running" /\ follow
  /\ S!Received
  /\ UNCHANGED <<follow, maxNum, code, pullVars>>

StreamReturns ==
  /\ code = "running" /\ follow
  /\ S!CommandReturns
  /\ UNCHANGED <<follow, maxNum, code, pullVars>>

StreamEnds ==
  /\ code = "running" /\ follow
  /\ S!StreamEnds
  /\ UNCHANGED <<follow, maxNum, code, pullVars>>

(* Run closes the log client, whose error is its error too, and returns.   *)
RunReturns ==
  /\ code = "running"
  /\ command # "ranging"
  /\ code' \in {command, "failed"}
  /\ UNCHANGED <<follow, maxNum, retries, cancelled, pullVars, streamVars, command, out>>

(* The interrupt.                                                          *)
Interrupt ==
  /\ code = "running"
  /\ \/ follow /\ S!Cancel /\ UNCHANGED pullVars
     \/ ~ follow /\ P!Cancel /\ UNCHANGED <<streamVars, command, out>>
  /\ UNCHANGED <<follow, maxNum, code>>

CommandStep == Run \/ ListPull \/ ListOutput \/ StreamReturns \/ RunReturns

Next ==
  \/ CommandStep
  \/ StreamStep
  \/ Received
  \/ StreamEnds
  \/ Interrupt

Spec == Init /\ [][Next]_vars

(* Both goroutines run; the service need not send or end anything.         *)
FairSpec == Spec /\ WF_vars(CommandStep) /\ WF_vars(StreamStep)

-----------------------------------------------------------------------------
Returned == code \in {"ok", "failed"}

(* A list that succeeds has printed the newest entries: "Pull pulls up to  *)
(* maxCount of log entries", however many attempts it took, so it prints   *)
(* no more than -max-num, no entry without all newer ones, and fewer only  *)
(* if there are no more.                                                   *)
NewestWithoutGaps ==
  code = "ok" /\ ~ follow =>
    /\ Len(out) <= maxNum
    /\ \A n \in Range(out) : 1..n \subseteq Range(out)
    /\ Len(out) < maxNum => Range(out) = 1..Entries

(* With -follow every entry that was received is printed once and in       *)
(* order, also those whose response was received before the stream broke   *)
(* or the command was interrupted, and Run does not return before it has   *)
(* printed them.                                                           *)
PrintedInOrder ==
  follow =>
    /\ out \o batch = [i \in 1..received |-> i]
    /\ Returned => batch = <<>>

(* Run returns no error only if the listing succeeded, or if following was *)
(* interrupted: StreamPull's error is set before stream looks at it, and   *)
(* no failure of the stream passes for an interruption.                    *)
ErrorReported ==
  code = "ok" =>
    /\ maxNum \in 1..Limit
    /\ ~ follow => pc = "returned" /\ ~ err
    /\ follow => closed /\ perr = "canceled" /\ cancelled

(* Run returns: a list always, however often the listing fails, and with   *)
(* -follow after an interrupt, unless the service has ended the stream     *)
(* before.                                                                 *)
RunEnds ==
  /\ ~ follow ~> Returned
  /\ cancelled ~> Returned \/ stream = "ended"

(* "Pull pulls up to maxCount of log entries for the given log filter":    *)
(* no entry is printed twice.                                              *)
NoDuplicates ==
  \A i, j \in DOMAIN out : i # j => out[i] # out[j]

(* StreamPull "won't stop until a cancel signal happens", and then it      *)
(* does, and the command returns.                                          *)
StopsOnCancel == cancelled ~> Returned

=============================================================================
