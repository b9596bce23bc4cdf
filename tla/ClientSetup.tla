---------------------------- MODULE ClientSetup ----------------------------
(***************************************************************************)
(* How a Go client, or an interceptor with its client, is made from a      *)
(* config file: NewClient with auditopt.FromConfigFile, NewInterceptor     *)
(* with auditopt.InterceptorFromConfigFile.  clientFromConfig collects     *)
(* options one after the other, connecting to backends on the way, and     *)
(* applies them at the end; every step can fail, and then there is no      *)
(* client.                                                                 *)
(***************************************************************************)
EXTENDS ClientConfig, RuntimeDetection

CONSTANT Setups   \* what is made: [file, target, platform]

Setup == [file : ConfigFile, target : {"client", "interceptor"}, platform : Platforms]

VARIABLES
  setup,         \* what is made, of which file and where
  step,          \* what comes next
  opts,          \* options collected so far
  remoteAuth,    \* credentials of the connection to the remote backend
  resource,      \* monitored resource that was found
  clusterRead,   \* history: the read that tells a cluster's node did not fail
  client,        \* the client
  interceptor    \* the interceptor

setupVars == <<setup, step, opts, remoteAuth, resource, clusterRead,
              client, interceptor>>

file == setup.file
config == SetDefault(file)

(* A client and an interceptor before any option is applied.               *)
EmptyClient ==
  [includes |-> <<>>, excludes |-> <<>>, onGCP |-> FALSE,
   labels |-> [k \in LabelKeys |-> NoLabel], justification |-> FALSE,
   mode |-> "UNSPECIFIED", bestEffort |-> FALSE, backends |-> {}]

NoInterceptor ==
  [logMode |-> "UNSPECIFIED", client |-> "none", justifiesFirst |-> FALSE,
   rules |-> <<>>, security |-> <<>>]

TypeOK ==
  /\ setup \in Setups
  /\ step \in {"load", "security", "filter", "remote", "cloudlogging",
               "justification", "apply", "ready", "failed"}
  /\ opts \subseteq {"filter", "remote", "cloudlogging", "justification"}
  /\ remoteAuth \in {"none", "default", "impersonate", "insecure"}
  /\ resource \in {ResourceOf[p] : p \in Platforms}
  /\ clusterRead \in BOOLEAN

Init ==
  /\ setup \in Setups
  /\ step = "load"
  /\ opts = {}
  /\ remoteAuth = "none"
  /\ resource = "none"
  /\ clusterRead = TRUE
  /\ client = EmptyClient
  /\ interceptor = NoInterceptor

(* The option is added, or the step has nothing to add; or it fails.       *)
Goto(next, added) ==
  /\ step' = next
  /\ opts' = opts \cup added
  /\ UNCHANGED <<setup, resource, clusterRead, client, interceptor>>

-----------------------------------------------------------------------------

LoadConfig ==
  /\ step = "load"
  /\ Goto(IF ~ loadConfig(file) THEN "failed"
          ELSE IF setup.target = "interceptor" THEN "security" ELSE "filter", {})
  /\ UNCHANGED remoteAuth

(* Mutant: an interceptor is made without a security context.              *)
RequireSecurityNot ==
  /\ step = "security"
  /\ Goto("filter", {})
  /\ UNCHANGED remoteAuth

(* "Interceptor requires security context."                                *)
RequireSecurity ==
  /\ step = "security"
  /\ Goto(IF file.security = <<>> THEN "failed" ELSE "filter", {})
  /\ UNCHANGED remoteAuth

(* The regular expressions of WithIncludes and WithExcludes are compiled.  *)
NewPrincipalEmailMatcher == config.compiles

principalFilterFromConfig ==
  /\ step = "filter"
  /\ Goto(IF NewPrincipalEmailMatcher THEN "remote" ELSE "failed",
          IF config.includes = <<>> /\ config.excludes = <<>> THEN {} ELSE {"filter"})
  /\ UNCHANGED remoteAuth

(* Mutant: a connection whose credentials cannot be had is made without.   *)
RemoteProcessorFallback ==
  /\ step = "remote"
  /\ config.remote # "absent"
  /\ \E token \in BOOLEAN :
       /\ Goto("cloudlogging", {"remote"})
       /\ remoteAuth' = IF token THEN config.auth ELSE "insecure"

(* WithIDTokenAuth and WithImpersonatedIDTokenAuth fail when there is no   *)
(* source of tokens; an insecure connection has neither option.            *)
IDTokenAuth(tokenSource) == config.auth = "insecure" \/ tokenSource

(* remote.NewProcessor: its option can fail, and so can the connection.    *)
(* Only a processor without an option connects without credentials.        *)
RemoteProcessor ==
  /\ step = "remote"
  /\ config.remote # "absent"
  /\ \E tokenSource, connected \in BOOLEAN :
       IF IDTokenAuth(tokenSource) /\ connected
       THEN Goto("cloudlogging", {"remote"}) /\ remoteAuth' = config.auth
       ELSE Goto("failed", {}) /\ remoteAuth' = remoteAuth

NoRemote ==
  /\ step = "remote"
  /\ config.remote = "absent"
  /\ Goto("cloudlogging", {})
  /\ UNCHANGED remoteAuth

(* logging.NewClient can fail, for the default project or another.         *)
CloudProcessor ==
  /\ step = "cloudlogging"
  /\ \/ config.cloudlogging = "absent" /\ Goto("justification", {})
     \/ config.cloudlogging # "absent" /\ Goto("justification", {"cloudlogging"})
     \/ config.cloudlogging # "absent" /\ Goto("failed", {})
  /\ UNCHANGED remoteAuth

(* Mutant: a client that cannot reach the JVS does without justification.  *)
justificationSwallowed ==
  /\ step = "justification"
  /\ \/ config.justification # "on" /\ Goto("apply", {})
     \/ config.justification = "on" /\ Goto("apply", {"justification"})
     \/ config.justification = "on" /\ Goto("apply", {})
  /\ UNCHANGED remoteAuth

(* The JVS config or the JVS client can fail.                              *)
justificationFromConfig ==
  /\ step = "justification"
  /\ \/ config.justification # "on" /\ Goto("apply", {})
     \/ config.justification = "on" /\ Goto("apply", {"justification"})
     \/ config.justification = "on" /\ Goto("failed", {})
  /\ UNCHANGED remoteAuth

(* What the collected options make of an empty client: runtime info,       *)
(* filter, backends, labels, log mode, justification.                      *)
Applied(found) ==
  [client EXCEPT
     !.onGCP = found # "none",
     !.includes = IF "filter" \in opts THEN config.includes ELSE @,
     !.excludes = IF "filter" \in opts THEN config.excludes ELSE @,
     !.backends = opts \cap {"remote", "cloudlogging"},
     !.bestEffort = config.logMode = "BEST_EFFORT",
     !.labels = config.labels,
     !.mode = config.logMode,
     !.justification = "justification" \in opts]

(* Mutant: the interceptor is not given the log mode of its client.        *)
interceptorWithoutMode(found) ==
  [logMode |-> "UNSPECIFIED", client |-> config.logMode,
   justifiesFirst |-> config.justification = "on" /\ found = "none",
   rules |-> config.rules, security |-> config.security]

(* The options of an interceptor.                                          *)
interceptorFromConfigFile(found) ==
  [logMode |-> config.logMode, client |-> config.logMode,
   justifiesFirst |-> config.justification = "on" /\ found = "none",
   rules |-> config.rules, security |-> config.security]

(* Runtime info comes first: it asks the platform now, and fails only if   *)
(* the resource cannot be converted.  The interceptor gets its client and  *)
(* its options last.                                                       *)
ApplyOptions ==
  /\ step = "apply"
  /\ \E failing \in SUBSET Reads :
       /\ resource' = newRuntimeInfo(setup.platform, failing)
       /\ clusterRead' = ("cluster" \notin failing)
       /\ \/ /\ step' = "ready"
             /\ client' = Applied(resource')
             /\ interceptor' =
                  IF setup.target = "client" THEN interceptor
                  ELSE interceptorFromConfigFile(resource')
          \/ /\ resource' # "none"
             /\ step' = "failed"
             /\ UNCHANGED <<client, interceptor>>
  /\ UNCHANGED <<setup, opts, remoteAuth>>

Next ==
  \/ LoadConfig \/ RequireSecurity \/ principalFilterFromConfig
  \/ RemoteProcessor \/ NoRemote \/ CloudProcessor
  \/ justificationFromConfig \/ ApplyOptions

Spec == Init /\ [][Next]_setupVars

-----------------------------------------------------------------------------
(* Properties.                                                             *)

(* A client that NewClient hands out is the one that AuditClient assumes:  *)
(* everything that a valid file asks for is there, whichever steps could   *)
(* have failed on the way.                                                 *)
ClientAsConfigured ==
  step = "ready" =>
    /\ loadConfig(file)
    /\ client = clientFromConfig([file EXCEPT !.onGCP = resource # "none"])

(* Entries name the platform they come from or none, however the reads of  *)
(* metadata fail, "as metadata.OnGCE() erroneously returns true on these   *)
(* runtimes"; only on Kubernetes, where a failed read of the cluster name  *)
(* looks like an instance that is in no cluster, the instance is named.    *)
RuntimeAttribution ==
  \/ resource \in {"none", ResourceOf[setup.platform]}
  \/ setup.platform = "kubernetes" /\ resource = "gce_instance" /\ ~ clusterRead

(* No failure turns a connection to the remote backend into one without    *)
(* credentials: only a file that says so does.                             *)
RemoteStaysSecure ==
  remoteAuth = "insecure" => file.auth = "insecure"

=============================================================================
