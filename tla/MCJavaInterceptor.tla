------------------------- MODULE MCJavaInterceptor -------------------------
(* Small instances of JavaInterceptor for TLC.                             *)
EXTENDS JavaInterceptor, TLC

Sel(w, star, d) == [name |-> w, wild |-> star, directive |-> d]

(* "t/*", "s/", "s/h", "s/h*".                                             *)
MCRules ==
  <<Sel(<<"t", "/">>, TRUE, "AUDIT"),
    Sel(<<"s", "/">>, FALSE, "AUDIT"),
    Sel(<<"s", "/", "h">>, FALSE, "AUDIT_REQUEST_AND_RESPONSE"),
    Sel(<<"s", "/", "h">>, TRUE, "AUDIT_REQUEST_ONLY")>>

MCSpecs == <<[key |-> "authorization", prefix |-> "bearer "], [key |-> "x-jwt", prefix |-> ""]>>

HeadersFor(a, x) == [k \in HeaderKeys |-> IF k = "authorization" THEN a ELSE x]
Bearer(t) == <<[scheme |-> "bearer ", token |-> t]>>
Bare(t) == <<[scheme |-> "", token |-> t]>>

InputFor(m, h, j, v) == [method |-> m, headers |-> h, justified |-> j, convertible |-> v]

Hello == <<"s", "/", "h">>
Signed == HeadersFor(Bearer("alice"), <<>>)

(* A token in the second header only, after one that says nothing; one     *)
(* with its scheme left in place; none; one whose claim is not a string.   *)
FullInputs ==
  {InputFor(Hello, Signed, j, TRUE) : j \in BOOLEAN}
    \cup {InputFor(Hello, Signed, TRUE, FALSE),
          InputFor(Append(Hello, "x"), HeadersFor(Bearer("no email"), Bare("alice")), TRUE, TRUE),
          InputFor(Hello, HeadersFor(<<>>, Bearer("alice")), TRUE, TRUE),
          InputFor(Hello, HeadersFor(<<>>, <<>>), TRUE, TRUE),
          InputFor(<<"u">>, Signed, TRUE, TRUE)}

(* The second call is there for the memo: it has no principal that can be  *)
(* had, and ends in interceptCall.                                         *)
Unsigned == HeadersFor(<<>>, Bare("no string"))
ShortInputs == {InputFor(<<"t", "/", "h">>, Unsigned, TRUE, TRUE)}
MCEarlier == {Hello}

MCInputs == "a" :> FullInputs @@ "b" :> ShortInputs
MCMessages == "a" :> 2 @@ "b" :> 0
MCResponses == "a" :> 1 @@ "b" :> 0

=============================================================================
