------------------------- MODULE InterceptedService -------------------------
(***************************************************************************)
(* A Go service whose unary calls are audited, from its start: the         *)
(* interceptor is made from a config file, or put together in code, and    *)
(* then takes a call.  Composes ClientSetup and UnaryInterceptor.          *)
(***************************************************************************)
EXTENDS UnaryInterceptor

CONSTANTS
  Setups, LogTypes, LabelKeys, LabelValues   \* of ClientSetup

VARIABLES setup, step, opts, remoteAuth, resource, clusterRead, client

S == INSTANCE ClientSetup

(* The header keys and schemes of the model are those that valid files     *)
(* name.                                                                   *)
ASSUME ServiceAssumption ==
  /\ Setups \subseteq S!Setup
  /\ \A s \in Setups :
       S!loadConfig(s.file) => s.file.security \in Seq(Seq(JwtRule))

callVars == <<call, pc, logReq, calls, outcome, entry, reply>>
setupOnly == <<setup, step, opts, remoteAuth, resource, clusterRead, client>>
serviceVars == <<vars, setupOnly>>

(* An interceptor of the application's own: no file was read for it.       *)
InitInCode ==
  /\ interceptor \in Interceptors
  /\ setup = [target |-> "code"]
  /\ step = "ready"
  /\ opts = {}
  /\ remoteAuth = "none"
  /\ resource = "none"
  /\ clusterRead = TRUE
  /\ client = {}

InitService == InitCall /\ (S!Init \/ InitInCode)

SetUp ==
  /\ setup.target # "code"
  /\ S!Next
  /\ UNCHANGED callVars

(* The service listens once its interceptor is made.                       *)
Serve ==
  /\ step = "ready"
  /\ setup.target # "client"
  /\ Next
  /\ UNCHANGED setupOnly

NextService == SetUp \/ Serve

ServiceSpec == InitService /\ [][NextService]_serviceVars

-----------------------------------------------------------------------------
(* Properties.                                                             *)

FromFile == setup.target # "code"

(* Types of both parts: the interceptor that the options of a file make is *)
(* one that the calls can work with.                                       *)
ServiceTypeOK == TypeOK /\ (FromFile => S!TypeOK)

(* The client that NewClient hands out has everything the file asks for:   *)
(* no failure of a step of clientFromConfig is swallowed.                  *)
ClientAsConfigured == FromFile => S!ClientAsConfigured

(* newRuntimeInfo names the platform that the service runs on, or none,    *)
(* except for a Kubernetes node whose cluster name cannot be read.         *)
RuntimeAttribution == FromFile => S!RuntimeAttribution

(* remote.NewProcessor goes without credentials only if the file says so,  *)
(* not because they could not be had.                                      *)
RemoteStaysSecure == FromFile => S!RemoteStaysSecure

(* An interceptor made from a file has all it needs: what makes the        *)
(* service panic is only a handler that leaves a Metadata Struct without a *)
(* map, where the file asks for a justification and the platform is not    *)
(* known, so that the justification processor is the first to write to it. *)
(* (NewInterceptor itself asks for nothing.)                               *)
PanicsOnlyWithoutMap ==
  FromFile /\ pc = "panicked" =>
    logReq.mapless /\ setup.file.justification = "on" /\ resource = "none"

(* The log mode that a file asks for is the one its calls get, from the    *)
(* file through client and interceptor to the answer.  Fail close: a call  *)
(* that some rule of the file applies to is answered without an error only *)
(* after its entry was stored or filtered out, unless the handler itself   *)
(* made the entry best effort.  Best effort: no call is answered with an   *)
(* error of the interceptor.                                               *)
FileModeHonoured ==
  FromFile /\ Answered =>
    /\ /\ setup.file.logMode = "FAIL_CLOSE"
       /\ \E i \in DOMAIN setup.file.rules : isRuleApplicable(setup.file.rules[i], method)
       /\ reply = [resp |-> TRUE, err |-> "nil"]
       => entry.result \in {"stored", "dropped"} \/ logReq.mode = "BEST_EFFORT"
    /\ setup.file.logMode = "BEST_EFFORT" => reply.err # "interceptor"

(* docs/config.md: "By default, the client won't return error when logging *)
(* is failed to avoid breaking the application."  A service whose file     *)
(* names no log mode gives no error of the interceptor after Client.Log.   *)
NoErrorByDefault ==
  FromFile /\ Answered /\ setup.file.logMode = "UNSPECIFIED" /\ entry.result # "none"
    => reply.err # "interceptor"

=============================================================================
