---------------------------- MODULE ClientConfig ----------------------------
(***************************************************************************)
(* From a config file to the processors of a Go client: api.Config with    *)
(* its defaults and its validation, and auditopt.clientFromConfig.         *)
(* Environment variables overwrite the fields of a file before either is   *)
(* applied, so a file stands for both.                                     *)
(***************************************************************************)
EXTENDS AuditProcessors, AuditRules

(* read is what reading the file gives, onGCP whether newRuntimeInfo finds *)
(* a monitored resource; compiles says that the regular expressions are    *)
(* valid.  security is <<>>, or one list of JWT specifications.  A file    *)
(* that does not exist leaves the fields that environment variables set.   *)
ConfigFile ==
  [read          : {"ok", "missing", "unreadable"},
   versionOK     : BOOLEAN,
   logMode       : Modes \cup {"invalid"},
   remote        : {"absent", "no address", "set"},
   auth          : {"default", "impersonate", "insecure"},
   cloudlogging  : {"absent", "empty", "default project", "project", "both"},
   includes      : {<<>>} \cup {<<re>> : re \in SUBSET Emails},
   excludes      : {<<>>} \cup {<<re>> : re \in SUBSET Emails},
   compiles      : BOOLEAN,
   security      : Seq(Seq([key : STRING, prefix : STRING])),
   rules         : Seq(Rule),
   labels        : [LabelKeys -> LabelValues \cup {NoLabel}],
   justification : {"off", "no endpoint", "on"},
   onGCP         : BOOLEAN]

(* Config.SetDefault with what it calls: CloudLogging.SetDefault and       *)
(* AuditRule.SetDefault.                                                   *)
SetDefault(f) ==
  [f EXCEPT !.logMode = IF @ = "UNSPECIFIED" THEN "FAIL_CLOSE" ELSE @,
            !.cloudlogging = IF @ = "empty" THEN "default project" ELSE @,
            !.rules = [i \in DOMAIN @ |-> SetRuleDefault(@[i])]]

(* SecurityContext.Validate and FromRawJWT.Validate.                       *)
ValidateSecurity(f) ==
  \A i \in DOMAIN f.security :
    /\ f.security[i] # <<>>
    /\ \A j \in DOMAIN f.security[i] : f.security[i][j].key # ""

(* Backend.Validate, Remote.Validate and CloudLogging.Validate.            *)
ValidateBackend(f) ==
  /\ f.remote # "absent" \/ f.cloudlogging # "absent"
  /\ f.remote # "no address"
  /\ f.cloudlogging \notin {"empty", "both"}

(* Config.Validate, on a file that has its defaults.                       *)
Validate(f) ==
  /\ f.versionOK
  /\ ValidateBackend(f)
  /\ ValidateSecurity(f)
  /\ \A i \in DOMAIN f.rules : ValidateRule(f.rules[i])
  /\ f.logMode # "invalid"
  /\ f.justification # "no endpoint"

(* fromConfigFile goes on without a file, and loadConfig validates.        *)
loadConfig(f) == f.read # "unreadable" /\ Validate(SetDefault(f))

backendsFromConfig(f) ==
  {b \in {"remote", "cloudlogging"} : f[b] # "absent"}

(* The configuration of the client.                                        *)
clientFromConfig(f) ==
  LET d == SetDefault(f)
  IN  [includes |-> d.includes, excludes |-> d.excludes, onGCP |-> d.onGCP,
       labels |-> d.labels, justification |-> d.justification = "on",
       mode |-> d.logMode, bestEffort |-> d.logMode = "BEST_EFFORT",
       backends |-> backendsFromConfig(d)]

(* NewClient with FromConfigFile fails, and there is no client, on a file  *)
(* that is not valid or has a regular expression that does not compile.    *)
(* ClientSetup has the steps in between.                                   *)
ClientsFrom(files) ==
  {clientFromConfig(f) : f \in {g \in files : loadConfig(g) /\ g.compiles}}

=============================================================================
