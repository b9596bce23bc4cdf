--------------------------- MODULE MCCloudLogging ---------------------------
(* Three entries on two loggers.                                           *)
EXTENDS CloudLogging

MCEntry ==
  {[id |-> 1, type |-> "DATA_ACCESS"], [id |-> 2, type |-> "DATA_ACCESS"],
   [id |-> 3, type |-> "ADMIN_ACTIVITY"]}

=============================================================================
