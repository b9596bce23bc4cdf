---------------------------- MODULE MCAuditClient ----------------------------
(* Small instances of AuditClient for TLC.                                 *)
EXTENDS AuditClient

Unlabelled == [k \in LabelKeys |-> NoLabel]

Plain ==
  [mode |-> "UNSPECIFIED", type |-> "DATA_ACCESS", shape |-> "complete",
   email |-> "alice", token |-> "valid", labels |-> Unlabelled,
   metadata |-> [map |-> "nil struct", keys |-> {}], reason |-> FALSE]

FailClose == [Plain EXCEPT !.mode = "FAIL_CLOSE"]
BestEffort == [Plain EXCEPT !.mode = "BEST_EFFORT", !.type = "UNSPECIFIED"]

(* Requests of every mode, and two that a processor stops.                 *)
MCInputs ==
  <<FailClose, BestEffort, Plain,
    [FailClose EXCEPT !.email = "robot"],
    [BestEffort EXCEPT !.token = "missing"]>>

BadInputs ==
  {FailClose,
   [FailClose EXCEPT !.shape = "nil payload"],
   [Plain EXCEPT !.shape = "incomplete"],
   [FailClose EXCEPT !.email = NoAuthInfo],
   [BestEffort EXCEPT !.email = ""],
   [FailClose EXCEPT !.token = "invalid"],
   [Plain EXCEPT !.token = "no reason", !.metadata.map = "fields"],
   [FailClose EXCEPT !.metadata.map = "nil fields"]}

RemoteFile ==
  [read |-> "ok", versionOK |-> TRUE, logMode |-> "UNSPECIFIED", remote |-> "set",
   auth |-> "default", cloudlogging |-> "absent", includes |-> <<>>,
   excludes |-> <<{"robot"}>>, compiles |-> TRUE, security |-> <<>>, rules |-> <<>>,
   labels |-> Unlabelled, justification |-> "on", onGCP |-> TRUE]

CloudFile == [RemoteFile EXCEPT !.remote = "absent", !.cloudlogging = "empty"]

MCFiles ==
  {RemoteFile,
   [CloudFile EXCEPT !.logMode = "BEST_EFFORT", !.justification = "off"],
   [CloudFile EXCEPT !.cloudlogging = "project"]}

(* Clients with other filters and with both backends.                      *)
OtherFiles ==
  {[RemoteFile EXCEPT !.cloudlogging = "project"],
   RemoteFile,
   [CloudFile EXCEPT !.excludes = <<>>, !.onGCP = FALSE],
   [RemoteFile EXCEPT !.includes = <<{"alice"}>>, !.excludes = <<{"alice", "robot"}>>,
                      !.justification = "off"]}

(* NewClient(WithValidator, WithBackend, WithMutator) as in docs/clients.md. *)
InCode ==
  {[includes |-> <<{"alice"}>>, excludes |-> <<>>, onGCP |-> FALSE,
    labels |-> [k \in LabelKeys |-> "default"], justification |-> TRUE,
    mode |-> "UNSPECIFIED", bestEffort |-> FALSE, backends |-> {"cloudlogging"}]}

FirstReq == CHOOSE r \in Reqs : TRUE

(* Two calls of Log: one that asks for a mode and gets to the backends,    *)
(* and one of any input.  The calls are alike: a pair comes in one order.  *)
Pairs(inputs) ==
  {[r \in Reqs |-> inputs[IF r = FirstReq THEN p[1] ELSE p[2]]] :
     p \in {q \in (1..2) \X DOMAIN inputs : q[1] <= q[2]}}

(* One call, next to one that passes nil, which a client does not survive. *)
Nil == [Plain EXCEPT !.shape = "nil request"]
Single(inputs) == {[r \in Reqs |-> IF r = FirstReq THEN i ELSE Nil] : i \in inputs}

MCWorkloads ==
  [client : ClientsFrom(MCFiles), requests : {Pairs(MCInputs)}]
    \cup [client : ClientsFrom(OtherFiles) \cup InCode, requests : {Single(BadInputs)}]

=============================================================================
