-------------------------- MODULE AuditProcessors --------------------------
(***************************************************************************)
(* The log processors of the Go client as functions on log requests: what  *)
(* the validators (request validator, principal filter) and the mutators   *)
(* (runtime info, default labels, justification) return and how they       *)
(* change the request they are given.                                      *)
(*                                                                         *)
(* A processor maps a request to [err, req]: the error class it returns    *)
(* ("nil" for none) and the request as it leaves it.  "panic" is a run-time *)
(* panic of the goroutine that called Log.                                 *)
(***************************************************************************)
EXTENDS Sequences

CONSTANTS
  Emails,       \* principal emails a regular expression can tell apart
  LogTypes,     \* AuditLogRequest.LogType values
  LabelKeys,    \* label keys in play
  LabelValues   \* label values in play

(* A principal email is one of Emails, or one validateEmail refuses.       *)
NoAuthInfo == "no authentication info"
Malformed == {"", "malformed"}

Modes == {"UNSPECIFIED", "FAIL_CLOSE", "BEST_EFFORT"}

(* What is left of the payload: whether the request and its payload exist  *)
(* and the method, service and resource names are all set.                 *)
Shapes == {"nil request", "nil payload", "incomplete", "complete"}

(* Payload.Metadata: a nil Struct, a Struct whose Fields map is nil, or a  *)
(* Struct with a map holding some of the keys the processors write.        *)
MetadataKeys == {"originating_resource", "justification"}

NoLabel == "no label"

Request ==
  [mode     : Modes,
   type     : LogTypes,
   shape    : Shapes,
   email    : Emails \cup Malformed \cup {NoAuthInfo},
   token    : {"missing", "invalid", "no reason", "valid"},
   labels   : [LabelKeys -> LabelValues \cup {NoLabel}],
   metadata : [map : {"nil struct", "nil fields", "fields"},
               keys : SUBSET MetadataKeys],
   reason   : BOOLEAN]

(* The part of a client's configuration its processors hold: the regular   *)
(* expressions of the filter (each one as the set of emails it matches),   *)
(* whether a monitored resource was detected, the default labels, whether  *)
(* justification is on, the client's log mode, the Cloud Logging           *)
(* processor's own default, and the backends.                              *)
Configuration ==
  [includes    : Seq(SUBSET Emails),
   excludes    : Seq(SUBSET Emails),
   onGCP       : BOOLEAN,
   labels      : [LabelKeys -> LabelValues \cup {NoLabel}],
   justification : BOOLEAN,
   mode        : Modes,
   bestEffort  : BOOLEAN,
   backends    : SUBSET {"remote", "cloudlogging"}]

Errors == {"nil", "ErrInvalidRequest", "ErrPreconditionFailed",
           "ErrJustificationMissing", "ErrJustificationInvalid",
           "error", "panic"}

ShouldFailClose(mode) == mode = "FAIL_CLOSE"

Pass(q) == [err |-> "nil", req |-> q]
Refuse(e, q) == [err |-> e, req |-> q]

-----------------------------------------------------------------------------
(* Validators.                                                             *)

validateEmail(email) == email \notin Malformed

ValidateAuditLog(q) ==
  /\ q.shape = "complete"
  /\ q.email # NoAuthInfo
  /\ validateEmail(q.email)

RequestValidator(q) ==
  IF ValidateAuditLog(q) THEN Pass(q) ELSE Refuse("ErrInvalidRequest", q)

MatchesAny(regexps, email) ==
  \E i \in DOMAIN regexps : email \in regexps[i]

(* The request is dropped when no include matches it and it is excluded,   *)
(* or there is no exclude list to fall through to.                         *)
Dropped(c, q) ==
  /\ ~ MatchesAny(c.includes, q.email)
  /\ c.excludes = <<>> \/ MatchesAny(c.excludes, q.email)

PrincipalEmailMatcher(c, q) ==
  IF c.includes = <<>> /\ c.excludes = <<>>
  THEN Pass(q)
  ELSE IF q.shape \in {"nil request", "nil payload"} \/ q.email = NoAuthInfo
  THEN Refuse("ErrInvalidRequest", q)
  ELSE IF Dropped(c, q)
  THEN Refuse("ErrPreconditionFailed", q)
  ELSE Pass(q)

-----------------------------------------------------------------------------
(* Mutators.                                                               *)

(* Mutant: the wrong metadata key.                                         *)
RuntimeInfoKey(c, q) ==
  IF c.onGCP
  THEN Pass([q EXCEPT !.metadata =
               [map |-> "fields", keys |-> @.keys \cup {"resource"}]])
  ELSE Pass(q)

(* runtimeInfo.Process: allocates what is nil, then sets one key.          *)
RuntimeInfo(c, q) ==
  IF c.onGCP
  THEN Pass([q EXCEPT !.metadata =
               [map |-> "fields", keys |-> @.keys \cup {"originating_resource"}]])
  ELSE Pass(q)

(* LabelProcessor.Process: a default label never replaces a label that the *)
(* request already has.                                                    *)
LabelProcessor(c, q) ==
  Pass([q EXCEPT !.labels =
          [k \in LabelKeys |-> IF @[k] = NoLabel THEN c.labels[k] ELSE @[k]]])

(* justification.Processor.Process: only a nil Struct gets a new map, so a *)
(* Struct that has no map makes the assignment to it panic.  The key is    *)
(* set before the justifications of the token are read; a token without    *)
(* justifications leaves the reason alone.                                 *)
JustificationProcessor(c, q) ==
  LET noted == [q EXCEPT !.metadata =
                  [map |-> "fields", keys |-> @.keys \cup {"justification"}]]
  IN  IF ~ c.justification        THEN Pass(q)
      ELSE IF q.token = "missing" THEN Refuse("ErrJustificationMissing", q)
      ELSE IF q.token = "invalid" THEN Refuse("ErrJustificationInvalid", q)
      ELSE IF q.shape \in {"nil request", "nil payload"}
                                  THEN Refuse("error", q)
      ELSE IF q.metadata.map = "nil fields" THEN Refuse("panic", q)
      ELSE IF q.token = "no reason" THEN Pass(noted)
      ELSE Pass([noted EXCEPT !.reason = TRUE])

-----------------------------------------------------------------------------
(* Client.Log runs each list in order and stops at the first error.        *)

Then(res, P(_)) == IF res.err = "nil" THEN P(res.req) ELSE res

(* NewClient puts the request validator first; clientFromConfig adds the   *)
(* filter.                                                                 *)
Validators(c, q) ==
  Then(RequestValidator(q), LAMBDA x : PrincipalEmailMatcher(c, x))

(* The order in which clientFromConfig applies its options.                *)
Mutators(c, q) ==
  Then(Then(RuntimeInfo(c, q), LAMBDA x : LabelProcessor(c, x)),
       LAMBDA x : JustificationProcessor(c, x))

=============================================================================
