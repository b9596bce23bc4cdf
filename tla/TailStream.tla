----------------------------- MODULE TailStream -----------------------------
(***************************************************************************)
(* lumberctl tail -follow: TailCommand.stream reads from an unbuffered     *)
(* channel what Puller.StreamPull, in a goroutine of its own, receives     *)
(* from a gRPC stream of tailed log entries.                               *)
(*                                                                         *)
(* External: the stream (entries numbered in the order the service sends   *)
(* them, in responses of any number of entries; it may break, be ended by  *)
(* the service, and breaks when the context is cancelled, unless it has    *)
(* ended; an ended stream reports its end for ever) and package retry.     *)
(***************************************************************************)
EXTENDS Naturals, Sequences

CONSTANTS
  MaxEntries,   \* bound on the entries that the service sends
  MaxBatch,     \* entries in one response at most
  MaxRetries    \* retries that p.retry allows

VARIABLES
  stream,      \* "none", "open", "ended" by the service, "broken"
  received,    \* number of entries received on it
  puller,      \* where StreamPull is
  batch,       \* entries of the last response not yet passed on
  retries,     \* what is left of the budget
  cancelled,   \* the context is cancelled
  perr,        \* error of StreamPull: "nil", "canceled" or "error"
  closed,      \* the channel is closed
  command,     \* "ranging" over the channel, "ok" or "failed" after return
  out          \* entries the command has written, in order, on stdout or
               \* as an error if they cannot be converted to JSON

vars == <<stream, received, puller, batch, retries, cancelled, perr, closed, command, out>>

TypeOK ==
  /\ stream \in {"none", "open", "ended", "broken"}
  /\ received \in 0..MaxEntries
  /\ puller \in {"start", "send", "recv", "backoff", "done"}
  /\ batch \in Seq(1..MaxEntries)
  /\ retries \in 0..MaxRetries
  /\ cancelled \in BOOLEAN
  /\ perr \in {"nil", "canceled", "error"}
  /\ closed \in BOOLEAN
  /\ command \in {"ranging", "ok", "failed"}
  /\ out \in Seq(1..MaxEntries)

Init ==
  /\ stream = "none"
  /\ received = 0
  /\ puller = "start"
  /\ batch = <<>>
  /\ retries = MaxRetries
  /\ cancelled = FALSE
  /\ perr = "nil"
  /\ closed = FALSE
  /\ command = "ranging"
  /\ out = <<>>

-----------------------------------------------------------------------------
(* StreamPull.                                                             *)

(* Mutant: the channel is closed and the error is lost.                    *)
PullerReturnsSilently(e) ==
  /\ puller' = "done"
  /\ perr' = perr
  /\ closed' = TRUE

(* It returns e; the goroutine notes the error and closes the channel.     *)
PullerReturns(e) ==
  /\ puller' = "done"
  /\ perr' = e
  /\ closed' = TRUE

(* Mutant: the budget has no end.                                          *)
RetryableErrorAlways ==
  puller' = "backoff" /\ retries' = retries - 1 /\ UNCHANGED <<perr, closed>>

(* An error that may be retried, inside retry.Do.                          *)
RetryableError ==
  IF retries > 0
  THEN puller' = "backoff" /\ retries' = retries - 1 /\ UNCHANGED <<perr, closed>>
  ELSE PullerReturns("error") /\ retries' = retries

(* TailLogEntries opens the stream, or fails.                              *)
OpenStream ==
  /\ puller = "start"
  /\ \/ /\ ~ cancelled
        /\ stream' = "open"
        /\ puller' = "send"
        /\ UNCHANGED <<perr, closed>>
     \/ PullerReturns("error") /\ stream' = stream
  /\ UNCHANGED <<received, batch, retries, cancelled, command, out>>

(* An attempt begins: retry.Do makes none once the context is done.        *)
Send ==
  /\ puller = "send"
  /\ \/ cancelled /\ PullerReturns("canceled") /\ retries' = retries
     \/ stream = "open" /\ puller' = "recv" /\ UNCHANGED <<perr, closed, retries>>
     \/ stream # "open" /\ RetryableError
  /\ UNCHANGED <<stream, received, batch, cancelled, command, out>>

(* A response.  Recv is called again once its entries are passed on.       *)
RecvEntries(n) ==
  /\ puller = "recv"
  /\ batch = <<>>
  /\ stream = "open"
  /\ received + n <= MaxEntries
  /\ received' = received + n
  /\ batch' = [i \in 1..n |-> received + i]
  /\ UNCHANGED <<stream, puller, retries, cancelled, perr, closed, command, out>>

(* io.EOF: the loop continues and receives again.                          *)
RecvEOF ==
  /\ puller = "recv"
  /\ batch = <<>>
  /\ stream = "ended"
  /\ UNCHANGED vars

(* Mutant: every error is taken for io.EOF.                                *)
RecvFailsContinue ==
  /\ puller = "recv"
  /\ batch = <<>>
  /\ stream = "broken"
  /\ UNCHANGED vars

RecvFails ==
  /\ puller = "recv"
  /\ batch = <<>>
  /\ stream = "broken"
  /\ RetryableError
  /\ UNCHANGED <<stream, received, batch, cancelled, command, out>>

(* Mutant: one entry of a response is passed on.                           *)
ForwardOne ==
  /\ puller = "recv"
  /\ batch # <<>>
  /\ command = "ranging"
  /\ batch' = <<>>
  /\ out' = Append(out, Head(batch))
  /\ UNCHANGED <<stream, received, puller, retries, cancelled, perr, closed, command>>

(* The entry at the head of the batch goes through the channel, to the     *)
(* command, which writes it.                                               *)
Forward ==
  /\ puller = "recv"
  /\ batch # <<>>
  /\ command = "ranging"
  /\ batch' = Tail(batch)
  /\ out' = Append(out, Head(batch))
  /\ UNCHANGED <<stream, received, puller, retries, cancelled, perr, closed, command>>

(* The end of the wait between two attempts: the next one sends its        *)
(* request on the same stream.                                             *)
Backoff ==
  /\ puller = "backoff"
  /\ IF cancelled
     THEN PullerReturns("canceled")
     ELSE puller' = "send" /\ UNCHANGED <<perr, closed>>
  /\ UNCHANGED <<stream, received, batch, retries, cancelled, command, out>>

-----------------------------------------------------------------------------
(* The command returns when the channel is closed; it returns no error if  *)
(* StreamPull was cancelled.                                               *)
CommandReturns ==
  /\ command = "ranging"
  /\ closed
  /\ command' = IF perr = "error" THEN "failed" ELSE "ok"
  /\ UNCHANGED <<stream, received, puller, batch, retries, cancelled, perr, closed, out>>

Cancel ==
  /\ ~ cancelled
  /\ cancelled' = TRUE
  /\ stream' = IF stream = "open" THEN "broken" ELSE stream
  /\ UNCHANGED <<received, puller, batch, retries, perr, closed, command, out>>

(* The service ends the stream, or the stream breaks.                      *)
StreamEnds ==
  /\ stream = "open"
  /\ stream' \in {"ended", "broken"}
  /\ UNCHANGED <<received, puller, batch, retries, cancelled, perr, closed, command, out>>

PullerStep ==
  \/ OpenStream \/ Send \/ RecvFails \/ RecvEOF \/ Forward \/ Backoff

Received == \E n \in 1..MaxBatch : RecvEntries(n)

Next ==
  \/ PullerStep
  \/ Received
  \/ CommandReturns
  \/ Cancel
  \/ StreamEnds

Spec == Init /\ [][Next]_vars

=============================================================================
