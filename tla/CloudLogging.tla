---------------------------- MODULE CloudLogging ----------------------------
(***************************************************************************)
(* The Cloud Logging processor of one process and the part of the Cloud    *)
(* Logging library it uses.  There is one logger per log type; a best-     *)
(* effort entry goes to its logger's buffer and is written in the          *)
(* background, any other entry is written before Process returns.  Stop    *)
(* flushes the loggers one after the other, in no fixed order.             *)
(*                                                                         *)
(* The library is external: Flush waits for the entries that its logger    *)
(* held when it was called, and then reports whether any write failed,     *)
(* on any logger of the client, since errors were last reported.           *)
(***************************************************************************)
CONSTANTS
  LogTypes,   \* one logger per log type
  Entry       \* log entries: records with a field type \in LogTypes, the logger

ASSUME EntryAssumption == \A e \in Entry : e.type \in LogTypes

VARIABLES
  buffer,     \* entries handed to a logger and not yet written
  errs,       \* a background write failed since the last Flush
  stored,     \* entries Cloud Logging has persisted
  accepted,   \* history: every entry Process took as best effort
  stop        \* the goroutine in Stop: see Stopping

clvars == <<buffer, errs, stored, accepted, stop>>

(* pc: "running" before Stop, "loop" between loggers, "flush" inside one   *)
(* Flush, "stopped" after Stop returned.  left: loggers the loop has still *)
(* to visit.  wait: what the Flush under way waits for.  err: merr is set. *)
(* due: what had been accepted when Stop was called.                       *)
Stopping ==
  [pc : {"running", "loop", "flush", "stopped"}, left : SUBSET LogTypes,
   wait : SUBSET Entry, err : BOOLEAN, due : SUBSET Entry]

TypeOK ==
  /\ buffer \subseteq Entry
  /\ errs \in BOOLEAN
  /\ stored \subseteq Entry
  /\ accepted \subseteq Entry
  /\ stop \in Stopping

(* A new process: nothing buffered, no error, the loggers running.         *)
Fresh(b, e, a, s) ==
  /\ b = {}
  /\ e = FALSE
  /\ a = {}
  /\ s = [pc |-> "running", left |-> {}, wait |-> {}, err |-> FALSE, due |-> {}]

Init == Fresh(buffer, errs, accepted, stop) /\ stored = {}

-----------------------------------------------------------------------------

(* Mutant: the mode of the request is not looked at.                       *)
BestEffortDefault(default, mode) == default

(* The mode of the request decides; without one, the processor's default.  *)
BestEffort(default, mode) ==
  IF mode = "UNSPECIFIED" THEN default ELSE mode = "BEST_EFFORT"

(* logger.Log: buffers the entry; a full buffer drops it and records an    *)
(* error instead.                                                          *)
LogAsync(e) ==
  /\ accepted' = accepted \cup {e}
  /\ \/ buffer' = buffer \cup {e} /\ errs' = errs
     \/ buffer' = buffer /\ errs' = TRUE
  /\ UNCHANGED <<stored, stop>>

(* logger.LogSync: a write that is reported as failed may have reached     *)
(* Cloud Logging all the same (the deadline passed on the way back).       *)
LogSync(e, err) ==
  /\ \/ err = "nil" /\ stored' = stored \cup {e}
     \/ err = "error" /\ stored' \in {stored, stored \cup {e}}
  /\ UNCHANGED <<buffer, errs, accepted, stop>>

(* Mutant: every entry is written with the default log type.               *)
ProcessUntyped(default, mode, e, err) ==
  IF BestEffort(default, mode)
  THEN err = "nil" /\ LogAsync(e)
  ELSE LogSync([e EXCEPT !.type = "UNSPECIFIED"], err)

Process(default, mode, e, err) ==
  IF BestEffort(default, mode)
  THEN err = "nil" /\ LogAsync(e)
  ELSE LogSync(e, err)

(* The background writer of the loggers.                                   *)
Write(e) ==
  /\ e \in buffer
  /\ buffer' = buffer \ {e}
  /\ \/ stored' = stored \cup {e} /\ errs' = errs
     \/ stored' \in {stored, stored \cup {e}} /\ errs' = TRUE
  /\ UNCHANGED <<accepted, stop>>

-----------------------------------------------------------------------------
(* Stop.                                                                   *)

StopCall ==
  /\ stop.pc = "running"
  /\ stop' = [stop EXCEPT !.pc = "loop", !.left = LogTypes, !.due = accepted]
  /\ UNCHANGED <<buffer, errs, stored, accepted>>

(* Mutant: the loop does not advance.                                      *)
FlushCallAgain(t) ==
  /\ stop.pc = "loop"
  /\ t \in stop.left
  /\ stop' = [stop EXCEPT !.pc = "flush", !.wait = {e \in buffer : e.type = t}]
  /\ UNCHANGED <<buffer, errs, stored, accepted>>

FlushCall(t) ==
  /\ stop.pc = "loop"
  /\ t \in stop.left
  /\ stop' = [stop EXCEPT !.pc = "flush", !.left = @ \ {t},
                          !.wait = {e \in buffer : e.type = t}]
  /\ UNCHANGED <<buffer, errs, stored, accepted>>

(* Mutant: the error of a Flush replaces the errors before it.             *)
FlushReturnLast ==
  /\ stop.pc = "flush"
  /\ stop.wait \cap buffer = {}
  /\ stop' = [stop EXCEPT !.pc = "loop", !.wait = {}, !.err = errs]
  /\ errs' = FALSE
  /\ UNCHANGED <<buffer, stored, accepted>>

FlushReturn ==
  /\ stop.pc = "flush"
  /\ stop.wait \cap buffer = {}
  /\ stop' = [stop EXCEPT !.pc = "loop", !.wait = {}, !.err = @ \/ errs]
  /\ errs' = FALSE
  /\ UNCHANGED <<buffer, stored, accepted>>

StopReturn ==
  /\ stop.pc = "loop"
  /\ stop.left = {}
  /\ stop' = [stop EXCEPT !.pc = "stopped"]
  /\ UNCHANGED <<buffer, errs, stored, accepted>>

StopNext ==
  \/ \E t \in LogTypes : FlushCall(t)
  \/ FlushReturn
  \/ StopReturn

(* The process is killed: what was buffered is gone, what was stored is    *)
(* not.                                                                    *)
Crash == Fresh(buffer', errs', accepted', stop') /\ stored' = stored

-----------------------------------------------------------------------------
(* The processor on its own: any caller may process any entry it has not   *)
(* handed over before, in any mode.                                        *)

Modes == {"UNSPECIFIED", "FAIL_CLOSE", "BEST_EFFORT"}

ProcessAny(e) ==
  /\ e \notin accepted \cup stored
  /\ \E default \in BOOLEAN, mode \in Modes, err \in {"nil", "error"} :
       Process(default, mode, e, err)

Next ==
  \/ \E e \in Entry : ProcessAny(e) \/ Write(e)
  \/ StopCall
  \/ StopNext
  \/ Crash

Spec == Init /\ [][Next]_clvars

(* The goroutine in Stop runs, and the loggers write what they hold.       *)
FairSpec ==
  /\ Spec
  /\ WF_clvars(StopNext)
  /\ \A e \in Entry : WF_clvars(Write(e))

(* "Calling Stop() flushes the logs and returns all previously encountered *)
(* errors."  If Stop returned nil, no entry that a caller had logged as    *)
(* best effort before Stop was called is lost, though its logger's buffer  *)
(* may have been full, its background write may have failed long before,   *)
(* and the errors of all loggers are collected by whichever Flush comes    *)
(* first.                                                                  *)
StopReportsLoss ==
  stop.pc = "stopped" /\ ~ stop.err => stop.due \subseteq stored

(* Stop ends even if callers keep logging: a Flush waits only for what its *)
(* logger held when it was called.                                         *)
StopTerminates ==
  stop.pc = "loop" ~> stop.pc \in {"stopped", "running"}

=============================================================================
