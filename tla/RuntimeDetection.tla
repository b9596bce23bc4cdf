-------------------------- MODULE RuntimeDetection --------------------------
(***************************************************************************)
(* Which monitored resource newRuntimeInfo of the Go client finds: the     *)
(* platform's environment variables and its metadata server are asked once *)
(* each, when the client is made, and every read of metadata can fail.     *)
(***************************************************************************)
EXTENDS Naturals

(* The platforms, with the monitored resource that stands for each.        *)
ResourceOf ==
  [appengine |-> "gae_app", oldfunction |-> "cloud_function",
   function |-> "cloud_function", run |-> "cloud_run_revision",
   kubernetes |-> "k8s_container", gce |-> "gce_instance", other |-> "none"]

Platforms == DOMAIN ResourceOf

(* Environment variables, one for each group that is set together.         *)
EnvVars(p) ==
  CASE p = "appengine"   -> {"GAE_SERVICE"}
    [] p = "oldfunction" -> {"FUNCTION_NAME"}
    [] p = "function"    -> {"FUNCTION_TARGET", "K_SERVICE", "K_REVISION"}
    [] p = "run"         -> {"K_SERVICE", "K_REVISION"}
    [] OTHER             -> {}

(* Reads of metadata.  The cluster name is read twice, "cluster" to detect *)
(* Kubernetes and "cluster label" to describe it; "instance" is read for   *)
(* its id and its name.                                                    *)
Reads == {"cluster", "onGCE", "project", "zone", "cluster label", "instance"}

(* metadata.OnGCE: every platform of Google has a metadata server.         *)
OnGCE(p, failing) == p # "other" /\ "onGCE" \notin failing

isAppEngine(p) == "GAE_SERVICE" \in EnvVars(p)
isCloudFunction(p) ==
  \/ "FUNCTION_NAME" \in EnvVars(p)
  \/ {"FUNCTION_TARGET", "K_SERVICE"} \subseteq EnvVars(p)
isCloudRun(p) == {"K_SERVICE", "K_REVISION"} \subseteq EnvVars(p)
isKubernetesEngine(p, failing) == p = "kubernetes" /\ "cluster" \notin failing

(* A resource is described completely or not at all.                       *)
Described(type, needs, failing) == IF needs \cap failing = {} THEN type ELSE "none"

detectAppEngineResource(failing) == Described("gae_app", {"project", "zone"}, failing)
detectCloudFunction(failing) == Described("cloud_function", {"project", "zone"}, failing)
detectCloudRunResource(failing) ==
  Described("cloud_run_revision", {"project", "zone"}, failing)
detectKubernetesResource(failing) ==
  Described("k8s_container", {"project", "zone", "cluster label"}, failing)
detectGCEResource(failing) ==
  Described("gce_instance", {"project", "instance", "zone"}, failing)

(* Mutant: OnGCE is asked before Kubernetes.                               *)
newRuntimeInfoGCEFirst(p, failing) ==
  IF EnvVars(p) = {} /\ OnGCE(p, failing) THEN detectGCEResource(failing) ELSE "none"

(* The switch of newRuntimeInfo: the first case that holds.                *)
newRuntimeInfo(p, failing) ==
  IF isAppEngine(p) THEN detectAppEngineResource(failing)
  ELSE IF isCloudFunction(p) THEN detectCloudFunction(failing)
  ELSE IF isCloudRun(p) THEN detectCloudRunResource(failing)
  ELSE IF isKubernetesEngine(p, failing) THEN detectKubernetesResource(failing)
  ELSE IF OnGCE(p, failing) THEN detectGCEResource(failing)
  ELSE "none"

=============================================================================
