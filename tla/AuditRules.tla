----------------------------- MODULE AuditRules -----------------------------
(***************************************************************************)
(* Audit rules of the Go client: which rule an interceptor applies to a    *)
(* method (rules.go), the name of the method's service, and the defaults   *)
(* and the validation of a rule of a config file (api.AuditRule).          *)
(*                                                                         *)
(* A method name or a selector is a number of leading slashes, a word over *)
(* Symbols that does not begin with a slash, and for a selector whether a  *)
(* wildcard ends it.  Each symbol counts as one character.                 *)
(***************************************************************************)
EXTENDS Naturals, Sequences

CONSTANT Symbols   \* what names are made of, "/" among them

Directives == {"AUDIT", "AUDIT_REQUEST_ONLY", "AUDIT_REQUEST_AND_RESPONSE"}
LogTypeNames == {"ADMIN_ACTIVITY", "DATA_ACCESS"}

Name == {w \in Seq(Symbols) : w = <<>> \/ w[1] # "/"}
Method == [slashes : Nat, name : Name]
Selector == [slashes : Nat, name : Name, wild : BOOLEAN]

(* "" is a field that is not set, "invalid" any other value.               *)
Rule == [selector  : Selector,
         directive : Directives \cup {"", "invalid"},
         logType   : LogTypeNames \cup {"", "invalid"}]

SelectorLength(s) == s.slashes + Len(s.name) + (IF s.wild THEN 1 ELSE 0)
MethodLength(m) == m.slashes + Len(m.name)

-----------------------------------------------------------------------------
(* Matching.                                                               *)

(* Leading slashes are ignored on both sides.                              *)
isRuleApplicable(r, method) ==
  LET s == r.selector
  IN  IF s.wild
      THEN Len(s.name) <= Len(method.name)
             /\ SubSeq(method.name, 1, Len(s.name)) = s.name
      ELSE s.name = method.name

(* Mutant: the first rule that applies is taken.                           *)
mostRelevantRuleFirst(method, rules) ==
  LET found[k \in 0..Len(rules)] ==
        IF k = 0 THEN 0
        ELSE IF found[k - 1] = 0 /\ isRuleApplicable(rules[k], method) THEN k
        ELSE found[k - 1]
  IN  found[Len(rules)]

(* The loop over the rules, as the number of the rule it returns, 0 for    *)
(* nil: a longer selector replaces a shorter one, unless the shorter one   *)
(* is as long as the method, where the loop ends.                          *)
mostRelevantRule(method, rules) ==
  LET longest[k \in 0..Len(rules)] ==
        IF k = 0 THEN 0
        ELSE LET best == longest[k - 1]
                 length(i) == IF i = 0 THEN 0 ELSE SelectorLength(rules[i].selector)
             IN  IF /\ best = 0 \/ length(best) # MethodLength(method)
                    /\ isRuleApplicable(rules[k], method)
                    /\ length(k) > length(best)
                 THEN k ELSE best
  IN  longest[Len(rules)]

shouldLogReq(r) == r.directive \in {"AUDIT_REQUEST_AND_RESPONSE", "AUDIT_REQUEST_ONLY"}
shouldLogResp(r) == r.directive = "AUDIT_REQUEST_AND_RESPONSE"

(* The service name is what stands between one or two slashes and the next *)
(* one; <<>> if there is no such name.                                     *)
serviceName(method) ==
  LET ends == {i \in 1..Len(method.name) : method.name[i] = "/"}
  IN  IF method.slashes \in {1, 2} /\ ends # {}
      THEN SubSeq(method.name, 1, (CHOOSE i \in ends : \A j \in ends : i <= j) - 1)
      ELSE <<>>

-----------------------------------------------------------------------------
(* Rules of a config file.                                                 *)

SetRuleDefault(r) ==
  [r EXCEPT !.directive = IF @ = "" THEN "AUDIT" ELSE @,
            !.logType = IF @ = "" THEN "DATA_ACCESS" ELSE @]

ValidateRule(r) ==
  /\ SelectorLength(r.selector) > 0
  /\ r.directive \in Directives
  /\ r.logType \in LogTypeNames

-----------------------------------------------------------------------------

(* "The selector relevance is: "com.example.Hello" > "com.example.*" >     *)
(* "*"": the name of the method itself comes before a wildcard, and a      *)
(* wildcard after a longer prefix before one after a shorter prefix.       *)
MoreRelevant(s, t) ==
  \/ ~ s.wild /\ t.wild
  \/ s.wild /\ t.wild /\ Len(s.name) > Len(t.name)

Applicable(method, rules) ==
  {k \in DOMAIN rules : /\ isRuleApplicable(rules[k], method)
                        /\ SelectorLength(rules[k].selector) > 0}

(* Lengths say what is relevant: a selector that applies is "*", or has    *)
(* the slashes of the method, and no wildcard is as long as the method or  *)
(* longer, as "/s/h*" is for the method "/s/h", and "/s/*" too.            *)
LengthsTell(method, rules) ==
  \A k \in Applicable(method, rules) :
    LET s == rules[k].selector
    IN  /\ s.slashes = method.slashes \/ s = [slashes |-> 0, name |-> <<>>, wild |-> TRUE]
        /\ s.wild => SelectorLength(s) < MethodLength(method)

(* What mostRelevantRule promises of rule i: it applies, and where lengths *)
(* tell, no rule that applies is more relevant, whatever the order of the  *)
(* rules.  When i is 0 no rule applies.                                    *)
IsMostRelevant(i, method, rules) ==
  IF i = 0 THEN Applicable(method, rules) = {}
  ELSE /\ i \in Applicable(method, rules)
       /\ LengthsTell(method, rules) =>
            \A k \in Applicable(method, rules) :
              ~ MoreRelevant(rules[k].selector, rules[i].selector)

=============================================================================
