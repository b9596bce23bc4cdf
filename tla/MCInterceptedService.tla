------------------------ MODULE MCInterceptedService ------------------------
(* Small instances of InterceptedService for TLC.                          *)
EXTENDS InterceptedService, RuntimeDetection

Sel(n, w, star) == [slashes |-> n, name |-> w, wild |-> star]
RuleFor(s, d, t) == [selector |-> s, directive |-> d, logType |-> t]

Hello == <<"s", "/", "h", "h">>

(* A service's methods: "/s/hh", "/s/hhx", "/t/h", and names without the   *)
(* slash in front, with two, and without a service.                        *)
MCMethods ==
  {[slashes |-> 1, name |-> Hello],
   [slashes |-> 1, name |-> Append(Hello, "x")],
   [slashes |-> 1, name |-> <<"t", "/", "h">>],
   [slashes |-> 0, name |-> Hello],
   [slashes |-> 2, name |-> Hello],
   [slashes |-> 1, name |-> <<"h">>]}

(* "*", "/s/*", "/s/hh": lengths tell which is relevant.                   *)
Layered ==
  <<RuleFor(Sel(0, <<>>, TRUE), "AUDIT", "DATA_ACCESS"),
    RuleFor(Sel(1, <<"s", "/">>, TRUE), "AUDIT_REQUEST_ONLY", "ADMIN_ACTIVITY"),
    RuleFor(Sel(1, Hello, FALSE), "AUDIT_REQUEST_AND_RESPONSE", "DATA_ACCESS")>>

(* "s/hh", "/s/hh*", "//s/hh", "/s/hh": ties, and selectors that are       *)
(* longer than the method.                                                 *)
Ties ==
  <<RuleFor(Sel(0, Hello, FALSE), "AUDIT", "DATA_ACCESS"),
    RuleFor(Sel(1, Hello, TRUE), "AUDIT_REQUEST_AND_RESPONSE", "DATA_ACCESS"),
    RuleFor(Sel(2, Hello, FALSE), "AUDIT_REQUEST_ONLY", "ADMIN_ACTIVITY"),
    RuleFor(Sel(1, Hello, FALSE), "AUDIT_REQUEST_AND_RESPONSE", "ADMIN_ACTIVITY")>>

(* "/s/*" with nothing but its selector.                                   *)
Sparse == <<RuleFor(Sel(1, <<"s", "/">>, TRUE), "", "")>>

Jwts == <<[key |-> "authorization", prefix |-> "bearer "], [key |-> "x-jwt", prefix |-> ""]>>

HeadersFor(a, x) == <<[k \in HeaderKeys |-> IF k = "authorization" THEN a ELSE x]>>
Bearer(t) == [scheme |-> "bearer ", token |-> t]
Bare(t) == [scheme |-> "", token |-> t]

(* No metadata, no token, a token for the first rule, for the second only, *)
(* a bad one for the first that hides a good one for the second, and one   *)
(* whose scheme is left in place.                                          *)
MCMetadata ==
  {<<>>,
   HeadersFor(<<>>, <<>>),
   HeadersFor(<<Bearer("alice"), Bearer("no email")>>, <<>>),
   HeadersFor(<<Bare("alice")>>, <<Bare("robot")>>),
   HeadersFor(<<Bearer("blank")>>, <<Bare("robot")>>),
   HeadersFor(<<>>, <<Bearer("alice")>>)}

Signed == HeadersFor(<<Bearer("alice")>>, <<>>)

MCRequests ==
  {[metadata |-> md, justified |-> TRUE, message |-> "object"] : md \in MCMetadata}
    \cup {[metadata |-> Signed, justified |-> FALSE, message |-> m] : m \in MessageKinds}

InCode(modes, rules) ==
  [logMode |-> modes[1], client |-> modes[2], justifiesFirst |-> FALSE,
   rules |-> rules, security |-> <<Jwts>>]

FailClose == <<"FAIL_CLOSE", "FAIL_CLOSE">>

MCInterceptors ==
  {InCode(m, Layered) : m \in Modes \X Modes}
    \cup {InCode(FailClose, <<Layered[3], Layered[1], Layered[2]>>),
          InCode(FailClose, Ties),
          InCode(<<"BEST_EFFORT", "BEST_EFFORT">>,
                 <<RuleFor(Sel(0, <<>>, TRUE), "AUDIT", "")>>),
          InCode(<<"FAIL_CLOSE", "none">>, Layered),
          [InCode(FailClose, Layered) EXCEPT !.security = <<>>]}

-----------------------------------------------------------------------------
(* Files.                                                                  *)

BaseFile ==
  [read |-> "ok", versionOK |-> TRUE, logMode |-> "UNSPECIFIED", remote |-> "set",
   auth |-> "default", cloudlogging |-> "empty", includes |-> <<>>,
   excludes |-> <<{"robot"}>>, compiles |-> TRUE, security |-> <<Jwts>>,
   rules |-> Layered, labels |-> [k \in LabelKeys |-> "default"],
   justification |-> "on", onGCP |-> FALSE]

SparseFile ==
  [BaseFile EXCEPT !.rules = Sparse, !.remote = "absent", !.excludes = <<>>,
                   !.justification = "off"]

Missing == [SparseFile EXCEPT !.read = "missing", !.security = <<>>, !.rules = <<>>,
                              !.labels = [k \in LabelKeys |-> "no label"]]

GoodFiles ==
  {BaseFile, SparseFile, Missing,
   [BaseFile EXCEPT !.logMode = "BEST_EFFORT", !.auth = "insecure"],
   [BaseFile EXCEPT !.logMode = "FAIL_CLOSE", !.auth = "impersonate",
                    !.cloudlogging = "project"],
   [BaseFile EXCEPT !.cloudlogging = "absent"],
   [SparseFile EXCEPT !.security = <<>>]}

BadFiles ==
  {[BaseFile EXCEPT !.read = "unreadable"],
   [BaseFile EXCEPT !.compiles = FALSE],
   [BaseFile EXCEPT !.security = <<<<>>>>],
   [BaseFile EXCEPT !.security[1][2].key = ""],
   [BaseFile EXCEPT !.rules[2].directive = "invalid"],
   [BaseFile EXCEPT !.rules[2].logType = "invalid"],
   [BaseFile EXCEPT !.rules[1].selector.wild = FALSE],
   [Missing EXCEPT !.cloudlogging = "absent"],
   [BaseFile EXCEPT !.versionOK = FALSE],
   [BaseFile EXCEPT !.remote = "no address"],
   [BaseFile EXCEPT !.cloudlogging = "both"],
   [BaseFile EXCEPT !.logMode = "invalid"],
   [BaseFile EXCEPT !.justification = "no endpoint"]}

MCSetups ==
  [file : GoodFiles \cup BadFiles, target : {"interceptor"}, platform : {"other"}]
    \cup [file : {BaseFile, SparseFile, Missing}, target : {"client"},
          platform : Platforms]

=============================================================================
