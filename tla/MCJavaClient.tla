---------------------------- MODULE MCJavaClient ----------------------------
(* Small instances of JavaClient for TLC.                                  *)
EXTENDS JavaClient, TLC

Unlabelled == [k \in LabelKeys |-> NoLabel]
AllDefault == [k \in LabelKeys |-> "default"]

Plain ==
  [mode |-> "UNSPECIFIED", type |-> "DATA_ACCESS", shape |-> "complete",
   email |-> "alice", token |-> "valid", labels |-> Unlabelled,
   metadata |-> [map |-> "nil struct", keys |-> {}], reason |-> FALSE]

FailClose == [Plain EXCEPT !.mode = "FAIL_CLOSE", !.token = "no reason"]
BestEffort == [Plain EXCEPT !.mode = "BEST_EFFORT"]

(* Requests that need not be persisted, and all of them: a blank principal *)
(* is refused by the agent alone, and null by nobody.                      *)
Relaxed ==
  {Plain, BestEffort,
   [Plain EXCEPT !.email = "robot"],
   [BestEffort EXCEPT !.token = "missing"],
   [Plain EXCEPT !.shape = "nil request"],
   [Plain EXCEPT !.shape = "nil payload"]}
All == Relaxed \cup {FailClose, [FailClose EXCEPT !.email = ""]}

Everywhere ==
  [includes |-> <<>>, excludes |-> <<{"robot"}>>, onGCP |-> TRUE, labels |-> Unlabelled,
   justification |-> TRUE, mode |-> "UNSPECIFIED", backend |-> <<Backends>>]

NoBlock == [Everywhere EXCEPT !.backend = <<>>, !.includes = <<{"alice"}>>,
                              !.excludes = <<>>, !.justification = FALSE]
RemoteOnly == [Everywhere EXCEPT !.mode = "BEST_EFFORT", !.backend = <<{"remote"}>>]
CloudOnly == [RemoteOnly EXCEPT !.backend = <<{"cloudlogging"}>>]

Strict == [client : {Everywhere, NoBlock, RemoteOnly}, requests : {[Reqs -> All]}]
MCWorkloads == Strict \cup {[client |-> CloudOnly, requests |-> [Reqs -> Relaxed]]}

(* A request that is stricter than its client.                             *)
StricterRequest == {[client |-> CloudOnly, requests |-> [Reqs -> All]]}

Symmetry == Permutations(Reqs)

=============================================================================
