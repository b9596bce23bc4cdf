---------------------- MODULE InterceptedServiceProofs ----------------------
(***************************************************************************)
(* The unary interceptor and its setup, for every interceptor, every file, *)
(* every list of rules and every call.                                     *)
(***************************************************************************)
EXTENDS InterceptedService, WellFoundedInduction, TLAPS

-----------------------------------------------------------------------------
(* The rule of a call.                                                     *)

(* Induction by the least counterexample.                                  *)
LEMMA LeastElement ==
  ASSUME NEW T, T \subseteq Nat, T # {}
  PROVE  \E x \in T : \A y \in T : x <= y
<1> DEFINE R == OpToRel(<, Nat)
<1>1. \A x, y \in Nat : <<y, x>> \in R <=> y < x
  BY DEF OpToRel
<1>2. IsWellFoundedOn(R, Nat)
  BY NatLessThanWellFounded
<1> HIDE DEF R
<1>3. PICK x \in T : \A y \in T : ~ (<<y, x>> \in R)
  BY <1>2, WFMin
<1>4. ASSUME NEW y \in T PROVE x <= y
  <2>1. x \in Nat /\ y \in Nat
    OBVIOUS
  <2>2. ~ (y < x)
    BY <1>1, <1>3, <2>1
  <2> QED
    BY <2>1, <2>2
<1> QED
  BY <1>4

(* One round of the loop of mostRelevantRule, with the best rule so far.   *)
LengthOf(rules, i) == IF i = 0 THEN 0 ELSE SelectorLength(rules[i].selector)

Round(m, rules, k, best) ==
  IF /\ best = 0 \/ LengthOf(rules, best) # MethodLength(m)
     /\ isRuleApplicable(rules[k], m)
     /\ LengthOf(rules, k) > LengthOf(rules, best)
  THEN k ELSE best

Rounds(m, rules, n, f) ==
  f = [k \in 0..n |-> IF k = 0 THEN 0 ELSE Round(m, rules, k, f[k - 1])]

(* The loop can be run to any round.                                       *)
LEMMA RoundsExist ==
  ASSUME NEW m, NEW rules, NEW n \in Nat
  PROVE  \E f : Rounds(m, rules, n, f)
<1> DEFINE T == {k \in Nat : ~ \E f : Rounds(m, rules, k, f)}
<1> SUFFICES ASSUME T # {} PROVE FALSE
  OBVIOUS
<1>1. PICK x \in T : \A y \in T : x <= y
  BY LeastElement
<1>2. x \in Nat /\ ~ \E f : Rounds(m, rules, x, f)
  OBVIOUS
<1>3. CASE x = 0
  <2> DEFINE f == [k \in 0..0 |-> 0]
  <2>1. f = [k \in 0..0 |-> IF k = 0 THEN 0 ELSE Round(m, rules, k, f[k - 1])]
    OBVIOUS
  <2> QED
    BY <1>2, <1>3, <2>1 DEF Rounds
<1>4. CASE x # 0
  <2>1. x - 1 \in Nat /\ ~ (x <= x - 1)
    BY <1>2, <1>4
  <2>2. PICK f : Rounds(m, rules, x - 1, f)
    BY <1>1, <2>1
  <2> DEFINE g == [k \in 0..x |-> IF k = x THEN Round(m, rules, x, f[x - 1]) ELSE f[k]]
  <2>3. ASSUME NEW k \in 0..x
        PROVE  g[k] = IF k = 0 THEN 0 ELSE Round(m, rules, k, g[k - 1])
    <3>1. CASE k = x
      BY <1>2, <1>4, <3>1
    <3>2. CASE k # x
      <4>1. k \in 0..(x - 1) /\ (k # 0 => k - 1 \in 0..(x - 1) /\ k - 1 # x /\ k - 1 \in 0..x)
        BY <1>2, <3>2
      <4>2. f[k] = IF k = 0 THEN 0 ELSE Round(m, rules, k, f[k - 1])
        BY <2>2, <4>1 DEF Rounds
      <4> QED
        BY <3>2, <4>1, <4>2
    <3> QED
      BY <3>1, <3>2
  <2>4. g = [k \in 0..x |-> IF k = 0 THEN 0 ELSE Round(m, rules, k, g[k - 1])]
    BY <2>3
  <2> QED
    BY <1>2, <2>4 DEF Rounds
<1> QED
  BY <1>3, <1>4

(* What the loop has found after k rounds.                                 *)
Found(m, rules, k, best) ==
  LET applies(i) == isRuleApplicable(rules[i], m) /\ SelectorLength(rules[i].selector) > 0
      length(i) == SelectorLength(rules[i].selector)
  IN  /\ best \in 0..k
      /\ best = 0 => \A i \in 1..k : ~ applies(i)
      /\ best # 0 =>
           /\ applies(best)
           /\ \A i \in 1..k : applies(i) =>
                /\ i < best => length(i) < length(best)
                /\ i > best => length(i) <= length(best) \/ length(best) = MethodLength(m)

LEMMA RoundFinds ==
  ASSUME NEW m \in Method, NEW rules \in Seq(Rule), NEW k \in 1..Len(rules),
         NEW best, Found(m, rules, k - 1, best)
  PROVE  Found(m, rules, k, Round(m, rules, k, best))
<1> DEFINE length(i) == SelectorLength(rules[i].selector)
           a(i) == isRuleApplicable(rules[i], m)
<1>1. ASSUME NEW i \in 1..Len(rules) PROVE length(i) \in Nat
  <2>0. rules[i] \in Rule
    OBVIOUS
  <2>1. rules[i].selector \in Selector
    BY <2>0 DEF Rule
  <2> DEFINE s == rules[i].selector
  <2>2. s.slashes \in Nat /\ s.name \in Seq(Symbols)
    BY <2>1 DEF Selector, Name
  <2>3. Len(s.name) \in Nat
    BY <2>2
  <2> QED
    BY <2>2, <2>3 DEF SelectorLength
<1>2. MethodLength(m) \in Nat /\ k \in Nat /\ k # 0 /\ Len(rules) \in Nat
  BY DEF MethodLength, Method, Name
<1>3. /\ best \in 0..(k - 1)
      /\ best = 0 => \A i \in 1..(k - 1) : ~ (a(i) /\ length(i) > 0)
      /\ best # 0 =>
           /\ a(best) /\ length(best) > 0
           /\ \A i \in 1..(k - 1) : a(i) /\ length(i) > 0 =>
                /\ i < best => length(i) < length(best)
                /\ i > best => length(i) <= length(best) \/ length(best) = MethodLength(m)
  BY DEF Found
<1>4. Round(m, rules, k, best) =
        IF /\ best = 0 \/ length(best) # MethodLength(m)
           /\ a(k)
           /\ length(k) > IF best = 0 THEN 0 ELSE length(best)
        THEN k ELSE best
  BY <1>2, <1>3 DEF Round, LengthOf
<1> DEFINE r == Round(m, rules, k, best)
<1> SUFFICES /\ r \in 0..k
             /\ r = 0 => \A i \in 1..k : ~ (a(i) /\ length(i) > 0)
             /\ r # 0 =>
                  /\ a(r) /\ length(r) > 0
                  /\ \A i \in 1..k : a(i) /\ length(i) > 0 =>
                       /\ i < r => length(i) < length(r)
                       /\ i > r => length(i) <= length(r) \/ length(r) = MethodLength(m)
  BY DEF Found
<1>5. \A i \in 1..k : i = k \/ i \in 1..(k - 1)
  BY <1>2
<1>6. 1..k \subseteq 1..Len(rules)
  BY <1>2
<1> HIDE DEF length, a
<1>7. CASE best = 0
  BY <1>1, <1>2, <1>3, <1>4, <1>5, <1>6, <1>7
<1>8. CASE best # 0
  BY <1>1, <1>2, <1>3, <1>4, <1>5, <1>6, <1>8
<1> QED
  BY <1>7, <1>8

(* What the loop has found in the end is as relevant as any rule that      *)
(* applies, where lengths tell.                                            *)
LEMMA FoundIsMostRelevant ==
  ASSUME NEW m \in Method, NEW rules \in Seq(Rule), NEW best,
         Found(m, rules, Len(rules), best)
  PROVE  IsMostRelevant(best, m, rules)
<1> DEFINE A == Applicable(m, rules)
           sel(i) == rules[i].selector
           length(i) == SelectorLength(sel(i))
<1>1. DOMAIN rules = 1..Len(rules) /\ Len(rules) \in Nat
  OBVIOUS
<1>2. \A i \in DOMAIN rules :
        i \in A <=> isRuleApplicable(rules[i], m) /\ length(i) > 0
  BY DEF Applicable
<1>3. CASE best = 0
  <2>1. \A i \in DOMAIN rules : i \notin A
    BY <1>1, <1>2, <1>3 DEF Found
  <2>2. A \subseteq DOMAIN rules
    BY DEF Applicable
  <2> QED
    BY <1>3, <2>1, <2>2 DEF IsMostRelevant
<1>4. CASE best # 0
  <2>1. /\ best \in A
        /\ \A k \in A :
             /\ k < best => length(k) < length(best)
             /\ k > best => length(k) <= length(best) \/ length(best) = MethodLength(m)
    <3>1. best \in DOMAIN rules
      BY <1>1, <1>4 DEF Found
    <3> QED
      BY <1>1, <1>2, <1>4, <3>1 DEF Found, Applicable
  <2> SUFFICES ASSUME LengthsTell(m, rules), NEW k \in A,
                      MoreRelevant(sel(k), sel(best))
               PROVE  FALSE
    BY <1>4, <2>1 DEF IsMostRelevant
  <2>2. k \in DOMAIN rules /\ best \in DOMAIN rules /\ k \in Nat /\ best \in Nat
    BY <1>1, <2>1 DEF Applicable
  <2>3. ASSUME NEW i \in {k, best}
        PROVE  /\ sel(i).slashes \in Nat /\ Len(sel(i).name) \in Nat
               /\ sel(i).wild \in BOOLEAN /\ sel(i).name \in Seq(Symbols)
               /\ length(i) = sel(i).slashes + Len(sel(i).name)
                                + (IF sel(i).wild THEN 1 ELSE 0)
    <3>1. rules[i] \in Rule
      BY <2>2
    <3>2. sel(i) \in Selector
      BY <3>1 DEF Rule
    <3>3. /\ sel(i).slashes \in Nat /\ sel(i).name \in Seq(Symbols)
          /\ sel(i).wild \in BOOLEAN
      BY <3>2 DEF Selector, Name
    <3>4. Len(sel(i).name) \in Nat
      BY <3>3
    <3> QED
      BY <3>3, <3>4 DEF SelectorLength
  <2>n. \A i \in {k, best} :
           LET n == sel(i).slashes + Len(sel(i).name)
           IN  /\ sel(i).slashes \in Nat /\ Len(sel(i).name) \in Nat
               /\ length(i) \in Nat
               /\ sel(i).wild => length(i) = n + 1
               /\ ~ sel(i).wild => length(i) = n
    <3> SUFFICES ASSUME NEW i \in {k, best}
                 PROVE  LET n == sel(i).slashes + Len(sel(i).name)
                        IN  /\ sel(i).slashes \in Nat /\ Len(sel(i).name) \in Nat
                            /\ length(i) \in Nat
                            /\ sel(i).wild => length(i) = n + 1
                            /\ ~ sel(i).wild => length(i) = n
      OBVIOUS
    <3>1. /\ sel(i).slashes \in Nat /\ Len(sel(i).name) \in Nat
          /\ sel(i).wild \in BOOLEAN
          /\ length(i) = sel(i).slashes + Len(sel(i).name) + (IF sel(i).wild THEN 1 ELSE 0)
      BY <2>3
    <3> HIDE DEF length, sel
    <3>2. CASE sel(i).wild
      BY <3>1, <3>2
    <3>3. CASE ~ sel(i).wild
      BY <3>1, <3>3
    <3> QED
      BY <3>2, <3>3
  <2>4. /\ m.slashes \in Nat /\ Len(m.name) \in Nat
        /\ MethodLength(m) = m.slashes + Len(m.name)
    BY DEF Method, Name, MethodLength
  <2>5. ASSUME NEW i \in {k, best}
        PROVE  /\ \/ sel(i).slashes = m.slashes
                  \/ sel(i) = [slashes |-> 0, name |-> <<>>, wild |-> TRUE]
               /\ sel(i).wild => length(i) < MethodLength(m)
    BY <2>1 DEF LengthsTell
  <2>6. sel(best).wild /\ length(best) < MethodLength(m)
    BY <2>5 DEF MoreRelevant
  <2>7. k # best => length(k) <= length(best)
    <3>1. /\ k < best => length(k) < length(best)
          /\ k > best => length(k) <= length(best) \/ length(best) = MethodLength(m)
      BY <2>1
    <3>2. length(k) \in Nat /\ length(best) \in Nat
      BY <2>n
    <3> HIDE DEF length, sel, A
    <3> QED
      BY <2>2, <2>4, <2>6, <3>1, <3>2
  <2>8. CASE ~ sel(k).wild
    <3>1. sel(k).name = m.name
      BY <2>8 DEF Applicable, isRuleApplicable
    <3>2. sel(k).slashes = m.slashes /\ k # best
      BY <2>5, <2>6, <2>8
    <3> HIDE DEF length, sel
    <3>3. length(k) = MethodLength(m)
      BY <2>4, <2>8, <2>n, <3>1, <3>2
    <3> QED
      BY <2>4, <2>6, <2>7, <2>n, <3>2, <3>3
  <2>9. CASE sel(k).wild
    <3>1. Len(sel(k).name) > Len(sel(best).name) /\ k # best
      BY <2>3, <2>6, <2>9 DEF MoreRelevant
    <3>2. sel(k).slashes = m.slashes
      <4>1. sel(k).name # <<>>
        BY <2>3, <3>1
      <4> QED
        BY <2>5, <4>1
    <3>3. CASE sel(best).slashes = m.slashes
      <4> HIDE DEF length, sel
      <4> QED
        BY <2>4, <2>6, <2>7, <2>9, <2>n, <3>1, <3>2, <3>3
    <3>4. CASE sel(best) = [slashes |-> 0, name |-> <<>>, wild |-> TRUE]
      <4>1. sel(best).slashes = 0
        BY <3>4
      <4> HIDE DEF length, sel
      <4> QED
        BY <2>4, <2>6, <2>7, <2>9, <2>n, <3>1, <4>1
    <3> QED
      BY <2>5, <3>3, <3>4
  <2> QED
    BY <2>8, <2>9
<1> QED
  BY <1>3, <1>4

(* mostRelevantRule, in rules.go, keeps the promise that IsMostRelevant    *)
(* states, for every method and every list of rules.                       *)
LEMMA MostRelevantRule ==
  ASSUME NEW m \in Method, NEW rules \in Seq(Rule)
  PROVE  /\ mostRelevantRule(m, rules) \in 0..Len(rules)
         /\ IsMostRelevant(mostRelevantRule(m, rules), m, rules)
<1> DEFINE n == Len(rules)
           f == CHOOSE g : Rounds(m, rules, n, g)
<1>1. n \in Nat
  OBVIOUS
<1>2. Rounds(m, rules, n, f)
  BY <1>1, RoundsExist
<1>3. mostRelevantRule(m, rules) = f[n]
  BY DEF mostRelevantRule, Rounds, Round, LengthOf
<1> HIDE DEF f
<1>4. \A k \in 0..n : f[k] = IF k = 0 THEN 0 ELSE Round(m, rules, k, f[k - 1])
  BY <1>2 DEF Rounds
<1>5. \A k \in 0..n : Found(m, rules, k, f[k])
  <2> DEFINE T == {k \in 0..n : ~ Found(m, rules, k, f[k])}
  <2> SUFFICES ASSUME T # {} PROVE FALSE
    OBVIOUS
  <2>0. T \subseteq Nat
    BY <1>1
  <2>1. PICK x \in T : \A y \in T : x <= y
    <3> HIDE DEF T
    <3> QED
      BY <2>0, LeastElement
  <2>2. x \in 0..n /\ ~ Found(m, rules, x, f[x])
    OBVIOUS
  <2>3. CASE x = 0
    <3>1. f[x] = 0
      BY <1>4, <2>2, <2>3
    <3>2. 1..x = {}
      BY <2>3
    <3> QED
      BY <2>2, <2>3, <3>1, <3>2 DEF Found
  <2>4. CASE x # 0
    <3>1. x \in 1..n /\ x - 1 \in 0..n /\ ~ (x <= x - 1)
      BY <1>1, <2>2, <2>4
    <3>2. Found(m, rules, x - 1, f[x - 1])
      BY <2>1, <3>1
    <3>3. f[x] = Round(m, rules, x, f[x - 1])
      BY <1>4, <2>2, <2>4
    <3> QED
      BY <2>2, <3>1, <3>2, <3>3, RoundFinds
  <2> QED
    BY <2>3, <2>4
<1>6. Found(m, rules, n, f[n])
  BY <1>1, <1>5
<1>7. f[n] \in 0..n
  BY <1>6 DEF Found
<1> QED
  BY <1>3, <1>6, <1>7, FoundIsMostRelevant

(* The service name is a name: it begins with no slash.                    *)
LEMMA ServiceNameType ==
  ASSUME NEW m \in Method
  PROVE  serviceName(m) \in Name
<1> DEFINE w == m.name
           ends == {i \in 1..Len(w) : w[i] = "/"}
           e == CHOOSE i \in ends : \A j \in ends : i <= j
<1>1. w \in Seq(Symbols) /\ (w = <<>> \/ w[1] # "/") /\ Len(w) \in Nat
  BY DEF Method, Name
<1>2. CASE ends = {}
  BY <1>2 DEF serviceName, Name
<1>3. CASE ends # {}
  <2>1. e \in ends
    <3>1. ends \subseteq Nat
      BY <1>1
    <3>2. \E i \in ends : \A j \in ends : i <= j
      <4> HIDE DEF ends
      <4> QED
        BY <1>3, <3>1, LeastElement
    <3> HIDE DEF ends
    <3> QED
      BY <3>2
  <2>2. e \in 1..Len(w) /\ w[e] = "/"
    BY <2>1
  <2> HIDE DEF e
  <2>3. e # 1
    BY <1>1, <2>2
  <2>4. SubSeq(w, 1, e - 1) \in Seq(Symbols) /\ SubSeq(w, 1, e - 1)[1] = w[1]
    BY <1>1, <2>2, <2>3
  <2>5. w # <<>>
    BY <1>1, <2>2
  <2>6. SubSeq(w, 1, e - 1) \in Name
    BY <1>1, <2>4, <2>5 DEF Name
  <2>7. serviceName(m) \in {<<>>, SubSeq(w, 1, e - 1)}
    BY DEF serviceName, e
  <2>8. <<>> \in Name
    BY DEF Name
  <2> QED
    BY <2>6, <2>7, <2>8
<1> QED
  BY <1>2, <1>3

(* security.FromRawJWT: a principal is the claim of a token that came with *)
(* the call.                                                               *)
LEMMA PrincipalClaimed ==
  ASSUME NEW md \in Metadata, NEW rules \in Seq(JwtRule),
         RequestPrincipal(md, rules) # NoPrincipal
  PROVE  /\ RequestPrincipal(md, rules) \in Emails
         /\ md # <<>>
         /\ \E key \in HeaderKeys : \E k \in DOMAIN md[1][key] :
              md[1][key][k].token = RequestPrincipal(md, rules)
<1> DEFINE token == findJWT(md[1], rules)
           matching == {i \in DOMAIN rules : Matches(md[1], rules[i])}
           least == CHOOSE i \in matching : \A j \in matching : i <= j
<1>1. md # <<>> /\ token \in Emails /\ RequestPrincipal(md, rules) = token
  BY DEF RequestPrincipal
<1>2. token \notin BadTokens \cup {NoPrincipal}
  BY <1>1, UnaryAssumption
<1>3. matching # {} /\ token = md[1][rules[least].key][1].token
  BY <1>2 DEF findJWT, BadTokens
<1>4. least \in matching
  <2>1. matching \subseteq Nat
    OBVIOUS
  <2>2. \E i \in matching : \A j \in matching : i <= j
    <3> HIDE DEF matching
    <3> QED
      BY <1>3, <2>1, LeastElement
  <2> HIDE DEF matching
  <2> QED
    BY <2>2
<1>5. least \in DOMAIN rules /\ Matches(md[1], rules[least])
  BY <1>4
<1> HIDE DEF least
<1>6. rules[least] \in JwtRule
  BY <1>5
<1>7. rules[least].key \in HeaderKeys
  BY <1>6 DEF JwtRule
<1>8. md[1] \in [HeaderKeys -> Seq(HeaderValue)]
  BY <1>1 DEF Metadata
<1>9. md[1][rules[least].key] \in Seq(HeaderValue) /\ md[1][rules[least].key] # <<>>
  BY <1>5, <1>7, <1>8 DEF Matches
<1>10. 1 \in DOMAIN md[1][rules[least].key]
  BY <1>9
<1> QED
  BY <1>1, <1>3, <1>7, <1>10

-----------------------------------------------------------------------------
(* Setup.                                                                  *)

(* The defaults change the log mode, an empty Cloud Logging block, and the *)
(* directives and log types of rules; nothing else.                        *)
LEMMA DefaultFields ==
  ASSUME NEW f \in S!ConfigFile
  PROVE  LET d == S!SetDefault(f)
         IN  /\ d.includes = f.includes /\ d.excludes = f.excludes
             /\ d.compiles = f.compiles /\ d.security = f.security
             /\ d.remote = f.remote /\ d.auth = f.auth
             /\ d.labels = f.labels /\ d.onGCP = f.onGCP
             /\ d.justification = f.justification
             /\ d.logMode = IF f.logMode = "UNSPECIFIED" THEN "FAIL_CLOSE" ELSE f.logMode
             /\ d.cloudlogging = IF f.cloudlogging = "empty" THEN "default project"
                                 ELSE f.cloudlogging
             /\ d.rules = [i \in DOMAIN f.rules |-> S!SetRuleDefault(f.rules[i])]
BY DEF S!SetDefault, S!ConfigFile

LEMMA RuleDefault ==
  ASSUME NEW r \in Rule
  PROVE  S!SetRuleDefault(r) \in Rule /\ S!SetRuleDefault(r).selector = r.selector
BY DEF S!SetRuleDefault, Rule, Directives, LogTypeNames

LEMMA DefaultRules ==
  ASSUME NEW f \in S!ConfigFile
  PROVE  /\ S!SetDefault(f).rules \in Seq(Rule)
         /\ DOMAIN S!SetDefault(f).rules = DOMAIN f.rules
         /\ \A i \in DOMAIN f.rules :
              S!SetDefault(f).rules[i].selector = f.rules[i].selector
<1> DEFINE rules == S!SetDefault(f).rules
<1>1. f.rules \in Seq(Rule)
  BY DEF S!ConfigFile, S!Rule, Rule, S!Selector, Selector, S!Name, Name,
         S!Directives, Directives, S!LogTypeNames, LogTypeNames
<1>2. rules = [i \in DOMAIN f.rules |-> S!SetRuleDefault(f.rules[i])]
  BY DefaultFields
<1> HIDE DEF rules
<1>3. DOMAIN f.rules = 1..Len(f.rules) /\ Len(f.rules) \in Nat
  BY <1>1
<1>4. \A i \in DOMAIN f.rules : f.rules[i] \in Rule
  BY <1>1
<1>5. \A i \in DOMAIN f.rules : rules[i] \in Rule /\ rules[i].selector = f.rules[i].selector
  BY <1>2, <1>4, RuleDefault
<1>6. rules \in Seq(Rule)
  <2>1. rules \in [1..Len(f.rules) -> Rule]
    BY <1>2, <1>3, <1>5
  <2> QED
    BY <1>3, <2>1
<1> QED
  BY <1>2, <1>5, <1>6 DEF rules

(* The log mode of a valid file is one of the two, and its selectors are   *)
(* not empty.                                                              *)
LEMMA ValidFile ==
  ASSUME NEW f \in S!ConfigFile, S!loadConfig(f)
  PROVE  /\ S!SetDefault(f).logMode \in {"FAIL_CLOSE", "BEST_EFFORT"}
         /\ \A i \in DOMAIN f.rules :
              SelectorLength(S!SetDefault(f).rules[i].selector) > 0
<1> DEFINE d == S!SetDefault(f)
<1>1. d.logMode # "invalid" /\ \A i \in DOMAIN d.rules : S!ValidateRule(d.rules[i])
  BY DEF S!loadConfig, S!Validate
<1>2. f.logMode \in {"UNSPECIFIED", "FAIL_CLOSE", "BEST_EFFORT", "invalid"}
  BY DEF S!ConfigFile, S!Modes
<1>3. d.logMode = IF f.logMode = "UNSPECIFIED" THEN "FAIL_CLOSE" ELSE f.logMode
  BY DefaultFields
<1>4. DOMAIN d.rules = DOMAIN f.rules
  BY DefaultRules
<1>5. \A i \in DOMAIN f.rules : SelectorLength(d.rules[i].selector) > 0
  BY <1>1, <1>4 DEF S!ValidateRule, S!SelectorLength, SelectorLength
<1> QED
  BY <1>1, <1>2, <1>3, <1>5

(* newRuntimeInfo, whichever reads of metadata fail.                       *)
LEMMA RuntimeInfoFound ==
  ASSUME NEW p \in S!Platforms, NEW failing
  PROVE  LET found == S!newRuntimeInfo(p, failing)
         IN  /\ found \in {S!ResourceOf[q] : q \in S!Platforms}
             /\ \/ found \in {"none", S!ResourceOf[p]}
                \/ p = "kubernetes" /\ found = "gce_instance" /\ "cluster" \in failing
<1> USE DEF S!newRuntimeInfo, S!isAppEngine, S!isCloudFunction, S!isCloudRun,
            S!isKubernetesEngine, S!OnGCE, S!EnvVars, S!Described,
            S!detectAppEngineResource, S!detectCloudFunction,
            S!detectCloudRunResource, S!detectKubernetesResource, S!detectGCEResource
<1>1. /\ S!Platforms = {"appengine", "oldfunction", "function", "run", "kubernetes",
                        "gce", "other"}
      /\ S!ResourceOf["appengine"] = "gae_app"
      /\ S!ResourceOf["oldfunction"] = "cloud_function"
      /\ S!ResourceOf["function"] = "cloud_function"
      /\ S!ResourceOf["run"] = "cloud_run_revision"
      /\ S!ResourceOf["kubernetes"] = "k8s_container"
      /\ S!ResourceOf["gce"] = "gce_instance"
      /\ S!ResourceOf["other"] = "none"
  BY DEF S!Platforms, S!ResourceOf
<1>2. CASE p = "appengine"
  BY <1>1, <1>2
<1>3. CASE p = "oldfunction"
  BY <1>1, <1>3
<1>4. CASE p = "function"
  BY <1>1, <1>4
<1>5. CASE p = "run"
  BY <1>1, <1>5
<1>6. CASE p = "kubernetes"
  BY <1>1, <1>6
<1>7. CASE p = "gce"
  BY <1>1, <1>7
<1>8. CASE p = "other"
  BY <1>1, <1>8
<1> QED
  BY <1>1, <1>2, <1>3, <1>4, <1>5, <1>6, <1>7, <1>8

(* The options that the file asks for, each collected once its step is     *)
(* done.                                                                   *)
Collected ==
  /\ "filter" \in opts <=>
       /\ S!config.includes # <<>> \/ S!config.excludes # <<>>
       /\ step \in {"remote", "cloudlogging", "justification", "apply"}
  /\ "remote" \in opts <=>
       S!config.remote # "absent" /\ step \in {"cloudlogging", "justification", "apply"}
  /\ "cloudlogging" \in opts <=>
       S!config.cloudlogging # "absent" /\ step \in {"justification", "apply"}
  /\ "justification" \in opts <=> S!config.justification = "on" /\ step = "apply"

(* Nothing is made before all options are there, and then everything.      *)
Made ==
  /\ step # "ready" => client = S!EmptyClient
  /\ step # "ready" \/ setup.target = "client" => interceptor = S!NoInterceptor
  /\ step = "ready" /\ setup.target = "interceptor" =>
       interceptor = S!interceptorFromConfigFile(resource)

FileInv ==
  /\ S!TypeOK
  /\ step \notin {"load", "failed"} => S!loadConfig(S!file)
  /\ step \notin {"load", "security", "failed"} /\ setup.target = "interceptor" =>
       S!file.security # <<>>
  /\ step \notin {"ready", "failed"} => Collected
  /\ Made
  /\ S!ClientAsConfigured
  /\ S!RuntimeAttribution
  /\ S!RemoteStaysSecure

(* An interceptor made in code is as it was given.                         *)
CodeInv == interceptor \in Interceptors /\ step = "ready"

SetupInv == IF FromFile THEN FileInv ELSE CodeInv

LEMMA SetupInit == InitService => SetupInv
<1>1. ASSUME S!Init PROVE SetupInv
  <2>1. setup \in S!Setup /\ FromFile
    BY <1>1, ServiceAssumption DEF S!Init, S!Setup, FromFile
  <2>2. "none" \in {S!ResourceOf[p] : p \in S!Platforms}
    BY DEF S!ResourceOf, S!Platforms
  <2>3. S!TypeOK
    BY <1>1, <2>2 DEF S!Init, S!TypeOK
  <2>4. S!RuntimeAttribution /\ S!RemoteStaysSecure /\ S!ClientAsConfigured
    BY <1>1 DEF S!Init, S!RuntimeAttribution, S!RemoteStaysSecure, S!ClientAsConfigured
  <2> QED
    BY <1>1, <2>1, <2>3, <2>4 DEF S!Init, SetupInv, FileInv, Collected, Made
<1>2. InitInCode => SetupInv
  BY DEF InitInCode, SetupInv, CodeInv, FromFile
<1> QED
  BY <1>1, <1>2 DEF InitService

(* The file of a setup, and its fields once the defaults are there.        *)
LEMMA FileOfSetup ==
  ASSUME S!TypeOK
  PROVE  /\ setup \in S!Setup
         /\ S!file \in S!ConfigFile
         /\ setup.target \in {"client", "interceptor"}
         /\ setup.platform \in S!Platforms
BY ServiceAssumption DEF S!TypeOK, S!Setup, S!file

(* The steps that collect options leave the client and the interceptor.    *)
LEMMA CollectingStep ==
  ASSUME FileInv, FromFile,
         \/ S!LoadConfig \/ S!RequireSecurity \/ S!principalFilterFromConfig
         \/ S!RemoteProcessor \/ S!NoRemote
         \/ S!CloudProcessor \/ S!justificationFromConfig
  PROVE  FileInv'
<1>1. /\ S!TypeOK /\ step # "ready"
      /\ UNCHANGED <<setup, resource, clusterRead, client, interceptor>>
      /\ step' # "ready"
  BY DEF FileInv, S!LoadConfig, S!RequireSecurity, S!principalFilterFromConfig,
         S!RemoteProcessor, S!NoRemote, S!CloudProcessor, S!justificationFromConfig, S!Goto
<1>2. S!file' = S!file /\ S!config' = S!config
  BY <1>1 DEF S!file, S!config
<1>3. S!file \in S!ConfigFile
  BY <1>1, FileOfSetup
<1>4. S!config.auth = S!file.auth
  BY <1>3, DefaultFields DEF S!config
<1>5. S!file.auth \in {"default", "impersonate", "insecure"}
  BY <1>3 DEF S!ConfigFile
<1>6. S!TypeOK'
  BY <1>1, <1>4, <1>5
     DEF S!TypeOK, S!LoadConfig, S!RequireSecurity, S!principalFilterFromConfig,
         S!RemoteProcessor, S!NoRemote, S!CloudProcessor, S!justificationFromConfig, S!Goto
<1>7. (step \notin {"load", "failed"} => S!loadConfig(S!file))'
  BY <1>1, <1>2
     DEF FileInv, S!LoadConfig, S!RequireSecurity, S!principalFilterFromConfig,
         S!RemoteProcessor, S!NoRemote, S!CloudProcessor, S!justificationFromConfig, S!Goto
<1>8. (step \notin {"load", "security", "failed"} /\ setup.target = "interceptor"
         => S!file.security # <<>>)'
  BY <1>1, <1>2
     DEF FileInv, S!LoadConfig, S!RequireSecurity, S!principalFilterFromConfig,
         S!RemoteProcessor, S!NoRemote, S!CloudProcessor, S!justificationFromConfig, S!Goto
<1>9. (step \notin {"ready", "failed"} => Collected)'
  <2> USE <1>1, <1>2 DEF FileInv, Collected, S!Goto
  <2>1. CASE S!LoadConfig
    BY <2>1 DEF S!LoadConfig
  <2>2. CASE S!RequireSecurity
    BY <2>2 DEF S!RequireSecurity
  <2>3. CASE S!principalFilterFromConfig
    BY <2>3 DEF S!principalFilterFromConfig
  <2>4. CASE S!RemoteProcessor
    BY <2>4 DEF S!RemoteProcessor
  <2>5. CASE S!NoRemote
    BY <2>5 DEF S!NoRemote
  <2>6. CASE S!CloudProcessor
    BY <2>6 DEF S!CloudProcessor
  <2>7. CASE S!justificationFromConfig
    BY <2>7 DEF S!justificationFromConfig
  <2> QED
    BY <2>1, <2>2, <2>3, <2>4, <2>5, <2>6, <2>7
<1>10. Made'
  BY <1>1 DEF FileInv, Made, S!EmptyClient, S!NoInterceptor
<1>11. S!ClientAsConfigured'
  BY <1>1 DEF S!ClientAsConfigured
<1>12. S!RuntimeAttribution'
  BY <1>1 DEF FileInv, S!RuntimeAttribution
<1>13. S!RemoteStaysSecure'
  BY <1>1, <1>2, <1>4
     DEF FileInv, S!RemoteStaysSecure, S!LoadConfig, S!RequireSecurity,
         S!principalFilterFromConfig, S!RemoteProcessor, S!NoRemote,
         S!CloudProcessor, S!justificationFromConfig
<1> QED
  BY <1>6, <1>7, <1>8, <1>9, <1>10, <1>11, <1>12, <1>13 DEF FileInv

(* What the options make of an empty client is what the file asks for.     *)
LEMMA AppliedIsConfigured ==
  ASSUME FileInv, step = "apply", NEW found
  PROVE  S!Applied(found) = S!clientFromConfig([S!file EXCEPT !.onGCP = found # "none"])
<1> DEFINE f == [S!file EXCEPT !.onGCP = found # "none"]
           d == S!SetDefault(f)
           c == S!config
<1>1. S!file \in S!ConfigFile
  BY FileOfSetup DEF FileInv
<1>2. f \in S!ConfigFile /\ f.onGCP = (found # "none")
  BY <1>1 DEF S!ConfigFile
<1>3. /\ d.includes = c.includes /\ d.excludes = c.excludes
      /\ d.remote = c.remote /\ d.labels = c.labels
      /\ d.justification = c.justification
      /\ d.logMode = c.logMode /\ d.cloudlogging = c.cloudlogging
      /\ d.onGCP = (found # "none")
  <2>1. /\ f.includes = S!file.includes /\ f.excludes = S!file.excludes
        /\ f.remote = S!file.remote /\ f.labels = S!file.labels
        /\ f.justification = S!file.justification
        /\ f.logMode = S!file.logMode /\ f.cloudlogging = S!file.cloudlogging
    BY <1>1 DEF S!ConfigFile
  <2> HIDE DEF f
  <2> QED
    BY <1>1, <1>2, <2>1, DefaultFields DEF S!config
<1>4. client = S!EmptyClient /\ Collected
  BY DEF FileInv, Made
<1>5. /\ "filter" \in opts <=> d.includes # <<>> \/ d.excludes # <<>>
      /\ "remote" \in opts <=> d.remote # "absent"
      /\ "cloudlogging" \in opts <=> d.cloudlogging # "absent"
      /\ "justification" \in opts <=> d.justification = "on"
  BY <1>3, <1>4 DEF Collected
<1>6. S!backendsFromConfig(d) = opts \cap {"remote", "cloudlogging"}
  BY <1>5 DEF S!backendsFromConfig
<1> DEFINE u == S!Applied(found)
           v == S!clientFromConfig(f)
           Fields == {"includes", "excludes", "onGCP", "labels", "justification",
                      "mode", "bestEffort", "backends"}
<1>7. /\ v = [x \in Fields |-> v[x]]
      /\ v.includes = d.includes /\ v.excludes = d.excludes
      /\ v.labels = d.labels /\ v.mode = d.logMode
      /\ v.backends = S!backendsFromConfig(d)
      /\ v.onGCP = d.onGCP
      /\ v.justification = (d.justification = "on")
      /\ v.bestEffort = (d.logMode = "BEST_EFFORT")
  BY DEF S!clientFromConfig
<1>8. /\ u = [x \in Fields |-> u[x]]
      /\ u.includes = IF "filter" \in opts THEN c.includes ELSE <<>>
      /\ u.excludes = IF "filter" \in opts THEN c.excludes ELSE <<>>
      /\ u.labels = c.labels /\ u.mode = c.logMode
      /\ u.backends = opts \cap {"remote", "cloudlogging"}
      /\ u.onGCP = (found # "none")
      /\ u.justification = ("justification" \in opts)
      /\ u.bestEffort = (c.logMode = "BEST_EFFORT")
  BY <1>4 DEF S!Applied, S!EmptyClient
<1>9. u.onGCP = v.onGCP /\ u.justification = v.justification /\ u.bestEffort = v.bestEffort
  <2> HIDE DEF u, v, d, c
  <2> QED
    BY <1>3, <1>5, <1>7, <1>8
<1>10. /\ u.includes = v.includes /\ u.excludes = v.excludes
       /\ u.labels = v.labels /\ u.mode = v.mode /\ u.backends = v.backends
  <2> HIDE DEF u, v, d, c
  <2> QED
    BY <1>3, <1>5, <1>6, <1>7, <1>8
<1> HIDE DEF u, v
<1>11. \A x \in Fields : u[x] = v[x]
  BY <1>9, <1>10
<1> HIDE DEF Fields
<1>12. u = v
  BY <1>7, <1>8, <1>11
<1> QED
  BY <1>12 DEF u, v

LEMMA ApplyStep ==
  ASSUME FileInv, FromFile, S!ApplyOptions
  PROVE  FileInv'
<1>1. PICK failing \in SUBSET S!Reads :
        /\ resource' = S!newRuntimeInfo(setup.platform, failing)
        /\ clusterRead' = ("cluster" \notin failing)
        /\ \/ /\ step' = "ready"
              /\ client' = S!Applied(resource')
              /\ interceptor' = IF setup.target = "client" THEN interceptor
                                ELSE S!interceptorFromConfigFile(resource')
           \/ /\ step' = "failed"
              /\ UNCHANGED <<client, interceptor>>
  BY DEF S!ApplyOptions
<1>2. step = "apply" /\ UNCHANGED <<setup, opts, remoteAuth>>
  BY DEF S!ApplyOptions
<1>3. S!file' = S!file /\ S!config' = S!config
  BY <1>2 DEF S!file, S!config
<1>4. S!TypeOK /\ S!loadConfig(S!file)
      /\ (setup.target = "interceptor" => S!file.security # <<>>)
      /\ interceptor = S!NoInterceptor
      /\ client = S!EmptyClient
      /\ S!RemoteStaysSecure
  BY <1>2 DEF FileInv, Made
<1>5. setup.platform \in S!Platforms /\ setup.target \in {"client", "interceptor"}
  BY <1>4, FileOfSetup
<1>6. /\ resource' \in {S!ResourceOf[p] : p \in S!Platforms}
      /\ S!RuntimeAttribution'
  BY <1>1, <1>2, <1>5, RuntimeInfoFound DEF S!RuntimeAttribution
<1>7. S!TypeOK'
  BY <1>1, <1>2, <1>4, <1>6 DEF S!TypeOK
<1>8. Made'
  BY <1>1, <1>2, <1>3, <1>4, <1>5
     DEF Made, S!NoInterceptor, S!EmptyClient, S!interceptorFromConfigFile
<1>9. S!ClientAsConfigured'
  <2>1. CASE step' = "ready"
    <3>1. client' = S!Applied(resource')
      BY <1>1, <2>1
    <3>2. S!Applied(resource') =
            S!clientFromConfig([S!file EXCEPT !.onGCP = resource' # "none"])
      BY <1>2, AppliedIsConfigured
    <3> QED
      BY <1>3, <1>4, <3>1, <3>2 DEF S!ClientAsConfigured
  <2> QED
    BY <2>1 DEF S!ClientAsConfigured
<1>10. S!RemoteStaysSecure'
  BY <1>2, <1>3, <1>4 DEF S!RemoteStaysSecure
<1> QED
  BY <1>1, <1>2, <1>3, <1>4, <1>6, <1>7, <1>8, <1>9, <1>10 DEF FileInv

LEMMA SetupStep == SetupInv /\ [NextService]_serviceVars => SetupInv'
<1> SUFFICES ASSUME SetupInv, [NextService]_serviceVars PROVE SetupInv'
  OBVIOUS
<1>1. CASE SetUp
  <2>1. FromFile /\ FileInv /\ S!Next
    BY <1>1 DEF SetUp, FromFile, SetupInv
  <2>2. setup' = setup
    BY <2>1 DEF S!Next, S!LoadConfig, S!RequireSecurity, S!principalFilterFromConfig,
                S!RemoteProcessor, S!NoRemote, S!CloudProcessor,
                S!justificationFromConfig, S!ApplyOptions, S!Goto
  <2>3. FileInv'
    BY <2>1, CollectingStep, ApplyStep DEF S!Next
  <2> QED
    BY <2>1, <2>2, <2>3 DEF SetupInv, FromFile
<1>2. CASE Serve \/ UNCHANGED serviceVars
  <2>1. UNCHANGED <<setup, step, opts, remoteAuth, resource, clusterRead, client, interceptor>>
    BY <1>2 DEF Serve, Next, setupOnly, serviceVars, vars, Call, NoRule, handleReturnUnary,
                Prepare, RunUnaudited, RunAudited, LogError, SetRespFails, LogResponse,
                LogPanics, NilDereference
  <2>2. S!file' = S!file /\ S!config' = S!config
    BY <2>1 DEF S!file, S!config
  <2>3. FileInv => FileInv'
    BY <2>1, <2>2
       DEF FileInv, Collected, Made, S!TypeOK, S!EmptyClient, S!NoInterceptor,
           S!interceptorFromConfigFile, S!ClientAsConfigured, S!RuntimeAttribution,
           S!RemoteStaysSecure
  <2> QED
    BY <2>1, <2>3 DEF SetupInv, CodeInv, FromFile
<1> QED
  BY <1>1, <1>2 DEF NextService

(* Every interceptor is of the type that the calls need; the one that is   *)
(* made from a file has a client and a security context, and the log mode  *)
(* of its file.                                                            *)
LEMMA InterceptorType == SetupInv => interceptor \in Interceptor
<1> SUFFICES ASSUME SetupInv PROVE interceptor \in Interceptor
  OBVIOUS
<1>1. CASE ~ FromFile
  BY <1>1, UnaryAssumption DEF SetupInv, CodeInv
<1>2. CASE FromFile
  <2>1. FileInv
    BY <1>2 DEF SetupInv
  <2>2. S!file \in S!ConfigFile /\ setup.target \in {"client", "interceptor"}
    BY <2>1, FileOfSetup DEF FileInv
  <2>3. CASE step = "ready" /\ setup.target = "interceptor"
    <3>1. interceptor = S!interceptorFromConfigFile(resource) /\ S!loadConfig(S!file)
      BY <2>1, <2>3 DEF FileInv, Made
    <3>2. S!config.logMode \in Modes
      BY <2>2, <3>1, ValidFile DEF S!config, Modes
    <3>3. S!config.rules \in Seq(Rule)
      BY <2>2, DefaultRules DEF S!config
    <3>4. S!config.security \in Seq(Seq(JwtRule))
      <4>1. S!config.security = S!file.security
        BY <2>2, DefaultFields DEF S!config
      <4>2. setup \in Setups
        BY <2>1 DEF FileInv, S!TypeOK
      <4> QED
        BY <3>1, <4>1, <4>2, ServiceAssumption DEF S!file
    <3> DEFINE j == S!config.justification = "on" /\ resource = "none"
    <3>5. interceptor = [logMode |-> S!config.logMode, client |-> S!config.logMode,
                         justifiesFirst |-> j, rules |-> S!config.rules,
                         security |-> S!config.security]
      BY <3>1 DEF S!interceptorFromConfigFile
    <3>6. j \in BOOLEAN
      OBVIOUS
    <3> HIDE DEF j
    <3> QED
      BY <3>2, <3>3, <3>4, <3>5, <3>6 DEF Interceptor
  <2>4. CASE ~ (step = "ready" /\ setup.target = "interceptor")
    <3>1. interceptor = S!NoInterceptor
      BY <2>1, <2>2, <2>4 DEF FileInv, Made
    <3> QED
      BY <3>1 DEF S!NoInterceptor, Interceptor, Modes
  <2> QED
    BY <2>3, <2>4
<1> QED
  BY <1>1, <1>2

LEMMA InterceptorFromFile ==
  ASSUME SetupInv, FromFile, step = "ready", setup.target # "client"
  PROVE  /\ HasContext /\ HasClient
         /\ interceptor.justifiesFirst =>
              setup.file.justification = "on" /\ resource = "none"
         /\ setup.file.logMode # "UNSPECIFIED" =>
              /\ interceptor.logMode = setup.file.logMode
              /\ interceptor.client = setup.file.logMode
         /\ DOMAIN interceptor.rules = DOMAIN setup.file.rules
         /\ \A i \in DOMAIN setup.file.rules :
              /\ interceptor.rules[i].selector = setup.file.rules[i].selector
              /\ SelectorLength(interceptor.rules[i].selector) > 0
<1>1. FileInv
  BY DEF SetupInv
<1>2. S!file \in S!ConfigFile /\ setup.target = "interceptor" /\ S!file = setup.file
  BY <1>1, FileOfSetup DEF FileInv, S!file
<1>3. /\ interceptor = S!interceptorFromConfigFile(resource) /\ S!loadConfig(S!file)
      /\ S!file.security # <<>>
  BY <1>1, <1>2 DEF FileInv, Made
<1>4. /\ interceptor.logMode = S!config.logMode /\ interceptor.client = S!config.logMode
      /\ interceptor.rules = S!config.rules /\ interceptor.security = S!config.security
      /\ interceptor.justifiesFirst = (S!config.justification = "on" /\ resource = "none")
  BY <1>3 DEF S!interceptorFromConfigFile
<1>5. HasContext
  BY <1>2, <1>3, <1>4, DefaultFields DEF S!config, HasContext
<1>6. /\ S!config.logMode \in {"FAIL_CLOSE", "BEST_EFFORT"}
      /\ \A i \in DOMAIN S!file.rules : SelectorLength(S!config.rules[i].selector) > 0
  BY <1>2, <1>3, ValidFile DEF S!config
<1>7. /\ DOMAIN S!config.rules = DOMAIN S!file.rules
      /\ \A i \in DOMAIN S!file.rules :
           S!config.rules[i].selector = S!file.rules[i].selector
  BY <1>2, DefaultRules DEF S!config
<1>8. /\ S!config.justification = S!file.justification
      /\ S!file.logMode # "UNSPECIFIED" => S!config.logMode = S!file.logMode
  BY <1>2, DefaultFields DEF S!config
<1>9. HasClient
  BY <1>4, <1>6 DEF HasClient
<1> QED
  BY <1>2, <1>4, <1>5, <1>6, <1>7, <1>8, <1>9

-----------------------------------------------------------------------------
(* The call.                                                               *)

(* The log request of a call that is audited: its principal, its status    *)
(* and the request in it, until the response is set.                       *)
OwnLogReq ==
  /\ logReq.principal = principal
  /\ logReq.status = StatusOf(outcome)
  /\ logReq.response = FALSE
  /\ logReq.request = "none" <=> ~ shouldLogReq(rule)
  /\ logReq.request = "changed" => request.message = "struct"

CallInv ==
  /\ TypeOK
  /\ IF pc = "idle" THEN call = <<>> ELSE call # <<>>
  /\ pc \in {"idle", "called", "unaudited", "audited"} => calls = 0 /\ outcome = "none"
  /\ pc \in {"failed", "responded"} => calls = 1
  /\ pc = "failed" => outcome \in HandlerErrors
  /\ pc = "responded" => outcome \in MessageKinds
  /\ pc # "returned" => entry.result = "none"
  /\ pc = "unaudited" /\ ShouldFailClose(interceptorMode) => ruleIndex = 0
  /\ pc \in {"audited", "failed", "responded"} => Prepared /\ OwnLogReq
  /\ HandlerDecides
  /\ FailsOpen
  /\ AnsweredAfterStored
  /\ EntryOfItsCall

(* A service whose interceptor is not made has no calls.                   *)
Listening == FromFile /\ (step # "ready" \/ setup.target = "client") => pc = "idle"

ServiceInv == SetupInv /\ CallInv /\ Listening /\ PanicsOnlyWithoutMap

LEMMA NoLogReqType == NoLogReq \in LogRequest
BY DEF NoLogReq, LogRequest, Modes, Name, NoPrincipal

LEMMA ServiceInit == InitService => ServiceInv
<1> SUFFICES ASSUME InitService PROVE ServiceInv
  OBVIOUS
<1>1. SetupInv
  BY SetupInit
<1>2. TypeOK
  BY <1>1, InterceptorType, NoLogReqType DEF InitService, InitCall, TypeOK, NoReply
<1>3. CallInv
  BY <1>2 DEF InitService, InitCall, CallInv, HandlerDecides, FailsOpen, AnsweredAfterStored,
              EntryOfItsCall, Answered, HandlerErrors
<1> QED
  BY <1>1, <1>3 DEF ServiceInv, InitService, InitCall, Listening, PanicsOnlyWithoutMap

(* What a call is about.                                                   *)
LEMMA CallFacts ==
  ASSUME TypeOK, call # <<>>
  PROVE  /\ method \in Method
         /\ request \in Request
         /\ serviceName(method) \in Name
         /\ ruleIndex \in 0..Len(interceptor.rules)
         /\ IsMostRelevant(ruleIndex, method, interceptor.rules)
         /\ Prepared => /\ principal \in Emails
                        /\ \E key \in HeaderKeys : \E k \in DOMAIN request.metadata[1][key] :
                             request.metadata[1][key][k].token = principal
<1>1. call \in Methods \X Requests
  BY DEF TypeOK
<1>2. method \in Method /\ request \in Request
  BY <1>1, UnaryAssumption DEF method, request
<1>3. interceptor.rules \in Seq(Rule) /\ interceptor.security \in Seq(Seq(JwtRule))
  BY DEF TypeOK, Interceptor
<1>4. /\ ruleIndex \in 0..Len(interceptor.rules)
      /\ IsMostRelevant(ruleIndex, method, interceptor.rules)
  BY <1>2, <1>3, MostRelevantRule DEF ruleIndex
<1>5. ASSUME Prepared
      PROVE  /\ principal \in Emails
             /\ \E key \in HeaderKeys : \E k \in DOMAIN request.metadata[1][key] :
                  request.metadata[1][key][k].token = principal
  <2>1. HasContext /\ principal # NoPrincipal
    BY <1>5 DEF Prepared
  <2>2. interceptor.security[1] \in Seq(JwtRule)
    BY <1>3, <2>1 DEF HasContext
  <2>3. request.metadata \in Metadata
    BY <1>2 DEF Request
  <2> QED
    BY <2>1, <2>2, <2>3, PrincipalClaimed DEF principal
<1> QED
  BY <1>2, <1>4, <1>5, ServiceNameType

(* Steps of a call do not change what it is about.                         *)
LEMMA SameCall ==
  ASSUME UNCHANGED <<interceptor, call>>
  PROVE  /\ method' = method /\ request' = request
         /\ ruleIndex' = ruleIndex /\ rule' = rule /\ principal' = principal
         /\ interceptorMode' = interceptorMode
         /\ Prepared' <=> Prepared
BY DEF method, request, ruleIndex, rule, principal, HasContext, interceptorMode,
       Prepared, Named

(* The log request that the interceptor fills in.                          *)
LEMMA FilledFields ==
  ASSUME TypeOK, call # <<>>, Prepared
  PROVE  /\ Filled \in LogRequest
         /\ Filled.principal = principal /\ Filled.status = "none"
         /\ Filled.response = FALSE
         /\ Filled.request = IF shouldLogReq(rule) THEN "received" ELSE "none"
<1>1. /\ principal \in Emails /\ serviceName(method) \in Name /\ request \in Request
      /\ interceptorMode \in Modes
  BY CallFacts DEF TypeOK, Interceptor, interceptorMode
<1>2. request.justified \in BOOLEAN
  BY <1>1 DEF Request
<1> DEFINE t == request.metadata # <<>> /\ request.justified
           y == IF rule.logType \in LogTypeNames THEN rule.logType ELSE "UNSPECIFIED"
           r == IF shouldLogReq(rule) THEN "received" ELSE "none"
<1>3. t \in BOOLEAN /\ y \in LogTypeNames \cup {"UNSPECIFIED"} /\ r \in {"none", "received"}
  BY <1>2
<1> DEFINE Fields == {"mode", "type", "service", "principal", "token", "resource",
                      "mapless", "request", "response", "status"}
<1>4. /\ Filled = [x \in Fields |-> Filled[x]]
      /\ Filled.mode = interceptorMode /\ Filled.type = y
      /\ Filled.service = serviceName(method) /\ Filled.principal = principal
      /\ Filled.token = t /\ Filled.resource = FALSE /\ Filled.request = r
      /\ Filled.mapless = FALSE
      /\ Filled.response = FALSE /\ Filled.status = "none"
  BY DEF Filled, NoLogReq
<1> HIDE DEF t, y, r
<1>5. Filled \in LogRequest
  BY <1>1, <1>3, <1>4 DEF LogRequest
<1> QED
  BY <1>4, <1>5 DEF r

(* Before the handler.                                                     *)
LEMMA BeforeHandler ==
  ASSUME CallInv, Call \/ NoRule \/ handleReturnUnary \/ Prepare
  PROVE  CallInv'
<1> USE DEF HandlerDecides, FailsOpen, AnsweredAfterStored, EntryOfItsCall, Answered
<1>0. TypeOK
  BY DEF CallInv
<1>1. CASE Call
  <2>1. call' \in Methods \X Requests /\ call' # <<>>
    BY <1>1 DEF Call
  <2>2. TypeOK'
    BY <1>0, <1>1, <2>1 DEF TypeOK, Call
  <2> QED
    BY <1>1, <2>1, <2>2 DEF CallInv, Call, HandlerErrors
<1>2. CASE NoRule
  <2>1. UNCHANGED <<interceptor, call>> /\ TypeOK'
    BY <1>0, <1>2 DEF TypeOK, NoRule
  <2> QED
    BY <1>2, <2>1, SameCall DEF CallInv, NoRule, HandlerErrors
<1>3. CASE handleReturnUnary
  <2>0. /\ UNCHANGED <<interceptor, call, logReq, calls, outcome, entry>>
        /\ pc' \in {"returned", "unaudited"}
        /\ reply' \in {reply, [resp |-> FALSE, err |-> "interceptor"]}
    BY <1>3 DEF handleReturnUnary
  <2>1. UNCHANGED <<interceptor, call>> /\ TypeOK'
    <3>1. [resp |-> FALSE, err |-> "interceptor"]
            \in [resp : BOOLEAN, err : {"none", "nil", "handler", "interceptor"}]
      OBVIOUS
    <3> QED
      BY <1>0, <2>0, <3>1 DEF TypeOK
  <2> QED
    BY <1>3, <2>1, SameCall DEF CallInv, handleReturnUnary, HandlerErrors
<1>4. CASE Prepare
  <2>1. UNCHANGED <<interceptor, call>> /\ Prepared /\ logReq' = Filled /\ call # <<>>
        /\ pc' = "audited" /\ outcome = "none"
    BY <1>4 DEF CallInv, Prepare
  <2>2. TypeOK'
    BY <1>0, <1>4, <2>1, FilledFields DEF TypeOK, Prepare
  <2>3. OwnLogReq'
    BY <1>0, <1>4, <2>1, FilledFields, SameCall DEF OwnLogReq, Prepare, StatusOf
  <2> QED
    BY <1>4, <2>1, <2>2, <2>3, SameCall DEF CallInv, Prepare, HandlerErrors
<1> QED
  BY <1>1, <1>2, <1>3, <1>4

(* The handler.                                                            *)
LEMMA HandlerRuns ==
  ASSUME CallInv, RunUnaudited \/ RunAudited
  PROVE  CallInv'
<1> USE DEF HandlerDecides, FailsOpen, AnsweredAfterStored, EntryOfItsCall, Answered
<1>a. TypeOK /\ pc \in {"unaudited", "audited"} /\ calls = 0 /\ call # <<>>
  BY DEF CallInv, RunUnaudited, RunAudited
<1>b. UNCHANGED <<interceptor, call>> /\ calls' = calls + 1
  BY DEF RunUnaudited, RunAudited
<1>0. TypeOK /\ UNCHANGED <<interceptor, call>> /\ calls = 0 /\ calls' = 1 /\ call # <<>>
  BY <1>a, <1>b
<1>1. CASE RunUnaudited
  <2>1. TypeOK'
    <3>1. /\ outcome' \in MessageKinds \cup HandlerErrors
          /\ reply' = HandlerReply(outcome')
          /\ UNCHANGED <<logReq, entry>> /\ pc' = "returned"
      BY <1>1 DEF RunUnaudited
    <3>2. /\ reply' \in [resp : BOOLEAN, err : {"none", "nil", "handler", "interceptor"}]
          /\ reply'.err = "nil" => reply'.resp
      <4>1. CASE outcome' \in HandlerErrors
        BY <3>1, <4>1 DEF HandlerReply
      <4>2. CASE outcome' \notin HandlerErrors
        BY <3>1, <4>2 DEF HandlerReply
      <4> QED
        BY <4>1, <4>2
    <3> QED
      BY <1>0, <3>1, <3>2 DEF TypeOK
  <2>2. ShouldFailClose(interceptorMode) => IsMostRelevant(0, method, interceptor.rules)
    BY <1>0, <1>1, CallFacts DEF CallInv, RunUnaudited
  <2>3. /\ pc' = "returned" /\ reply' = HandlerReply(outcome') /\ entry' = entry
        /\ entry.result = "none" /\ reply'.err # "interceptor"
        /\ outcome' \in HandlerErrors => reply'.err = "handler"
    BY <1>1 DEF CallInv, RunUnaudited, HandlerReply
  <2> QED
    BY <1>0, <2>1, <2>2, <2>3, SameCall DEF CallInv, HandlerReply
<1>2. CASE RunAudited
  <2>1. PICK m \in Modes, described \in BOOLEAN, changed \in BOOLEAN, mapless \in BOOLEAN :
          logReq' = [logReq EXCEPT !.mode = m, !.resource = described, !.mapless = mapless,
                                   !.request = AfterHandler(changed),
                                   !.status = StatusOf(outcome')]
    BY <1>2 DEF RunAudited
  <2>2. /\ logReq \in LogRequest /\ Prepared /\ OwnLogReq
        /\ outcome' \in MessageKinds \cup HandlerErrors
        /\ pc' = IF outcome' \in HandlerErrors THEN "failed" ELSE "responded"
        /\ UNCHANGED <<entry, reply>> /\ entry.result = "none"
    BY <1>2 DEF CallInv, TypeOK, RunAudited
  <2>3. StatusOf(outcome') \in {"none", "its own", "INTERNAL"}
    BY DEF StatusOf
  <2>4. AfterHandler(changed) \in {logReq.request, "changed"}
    BY DEF AfterHandler
  <2>5. logReq' \in LogRequest
    BY <2>1, <2>2, <2>3, <2>4 DEF LogRequest
  <2>6. TypeOK'
    BY <1>0, <2>2, <2>5 DEF TypeOK
  <2>7. /\ logReq'.principal = logReq.principal /\ logReq'.response = logReq.response
        /\ logReq'.status = StatusOf(outcome') /\ logReq'.request = AfterHandler(changed)
    BY <2>1, <2>2 DEF LogRequest
  <2>8. OwnLogReq'
    BY <1>0, <2>2, <2>7, SameCall DEF OwnLogReq, AfterHandler
  <2>9. CASE outcome' \in HandlerErrors
    BY <1>0, <2>2, <2>6, <2>8, <2>9, SameCall DEF CallInv
  <2>10. CASE outcome' \notin HandlerErrors
    BY <1>0, <2>2, <2>6, <2>8, <2>10, SameCall DEF CallInv
  <2> QED
    BY <2>9, <2>10
<1> QED
  BY <1>1, <1>2

(* What Client.Log can do.                                                 *)
LEMMA OutcomesOf ==
  ASSUME NEW res \in Outcomes
  PROVE  /\ res \in {"stored", "dropped", "lost", "failed"}
         /\ res = "lost" => ~ ShouldFailClose(effectiveMode)
BY DEF Outcomes

(* After the handler.                                                      *)
LEMMA AfterTheHandler ==
  ASSUME CallInv,
         LogError \/ SetRespFails \/ LogResponse \/ LogPanics \/ NilDereference
  PROVE  CallInv'
<1> USE DEF HandlerDecides, FailsOpen, AnsweredAfterStored, EntryOfItsCall, Answered
<1>0. TypeOK /\ UNCHANGED <<interceptor, call>> /\ calls' = calls /\ call # <<>>
      /\ outcome' = outcome
  BY DEF CallInv, LogError, SetRespFails, LogResponse, LogPanics, NilDereference
<1>1. CASE LogError
  <2>1. PICK res \in Outcomes : entry' = [result |-> res, req |-> logReq]
    BY <1>1 DEF LogError
  <2>2. /\ outcome \in HandlerErrors /\ calls = 1 /\ Prepared /\ OwnLogReq
        /\ pc' = "returned" /\ reply' = HandlerReply(outcome) /\ logReq' = logReq
    BY <1>1 DEF CallInv, LogError
  <2>3. reply'.err = "handler"
    BY <2>2 DEF HandlerReply
  <2>4. TypeOK'
    BY <1>0, <2>1, <2>2, OutcomesOf DEF TypeOK, HandlerReply
  <2>5. EntryOfItsCall'
    BY <1>0, <2>1, <2>2, CallFacts, SameCall DEF OwnLogReq
  <2> QED
    BY <1>0, <2>2, <2>3, <2>4, <2>5, SameCall DEF CallInv, HandlerReply
<1>2. CASE SetRespFails
  <2>1. /\ pc' = "returned" /\ entry' = entry /\ entry.result = "none" /\ calls = 1
        /\ outcome \in MessageKinds /\ logReq' = logReq
        /\ reply' = [resp |-> TRUE, err |-> IF ShouldFailClose(interceptorMode)
                                           THEN "interceptor" ELSE "nil"]
    BY <1>2 DEF CallInv, SetRespFails, handleReturnWithResponse
  <2>2. TypeOK'
    BY <1>0, <2>1 DEF TypeOK
  <2> QED
    BY <1>0, <2>1, <2>2, SameCall DEF CallInv, HandlerReply, HandlerErrors, MessageKinds
<1>3. CASE LogResponse
  <2>1. PICK res \in Outcomes : entry' = [result |-> res, req |-> logReq']
    BY <1>3 DEF LogResponse
  <2>2. /\ outcome \in MessageKinds /\ outcome \notin HandlerErrors /\ calls = 1
        /\ Prepared /\ OwnLogReq /\ pc' = "returned" /\ logReq \in LogRequest
        /\ logReq' = [logReq EXCEPT !.response = shouldLogResp(rule)]
        /\ reply' = [resp |-> TRUE,
                     err |-> IF res = "failed" /\ ShouldFailClose(interceptorMode)
                             THEN "interceptor" ELSE "nil"]
    BY <1>3, <2>1
       DEF CallInv, TypeOK, LogResponse, handleReturnWithResponse, HandlerErrors, MessageKinds
  <2>3. /\ logReq'.mode = logReq.mode /\ logReq'.principal = logReq.principal
        /\ logReq'.status = logReq.status /\ logReq'.request = logReq.request
        /\ logReq'.response = shouldLogResp(rule)
        /\ logReq' \in LogRequest
    BY <2>2 DEF LogRequest, shouldLogResp
  <2>4. effectiveMode' = effectiveMode
    BY <1>0, <2>3 DEF effectiveMode
  <2>5. TypeOK'
    BY <1>0, <2>1, <2>2, <2>3, OutcomesOf DEF TypeOK
  <2>6. EntryOfItsCall'
    BY <1>0, <2>1, <2>2, <2>3, CallFacts, SameCall DEF OwnLogReq
  <2>7. AnsweredAfterStored'
    BY <1>0, <2>1, <2>2, <2>4, OutcomesOf, SameCall
  <2> QED
    BY <1>0, <2>2, <2>5, <2>6, <2>7, SameCall DEF CallInv, HandlerReply
<1>4. CASE LogPanics \/ NilDereference
  <2>1. pc' = "panicked" /\ UNCHANGED <<logReq, entry, reply>>
    BY <1>4 DEF LogPanics, NilDereference
  <2>2. calls <= 1 /\ entry.result = "none"
    BY <1>4 DEF CallInv, LogPanics, NilDereference
  <2>3. TypeOK'
    BY <1>0, <2>1 DEF TypeOK
  <2> QED
    BY <1>0, <2>1, <2>2, <2>3, SameCall DEF CallInv
<1> QED
  BY <1>1, <1>2, <1>3, <1>4

LEMMA ServiceStep == ServiceInv /\ [NextService]_serviceVars => ServiceInv'
<1> SUFFICES ASSUME ServiceInv, [NextService]_serviceVars PROVE ServiceInv'
  OBVIOUS
<1>1. SetupInv /\ SetupInv' /\ CallInv /\ Listening /\ PanicsOnlyWithoutMap
  BY SetupStep DEF ServiceInv
<1>2. CASE SetUp
  <2>1. FromFile /\ FileInv /\ S!Next /\ UNCHANGED callVars
    BY <1>1, <1>2 DEF SetUp, FromFile, SetupInv
  <2>2. step # "ready" /\ setup' = setup
    BY <2>1 DEF S!Next, S!LoadConfig, S!RequireSecurity, S!principalFilterFromConfig,
                S!RemoteProcessor, S!NoRemote, S!CloudProcessor,
                S!justificationFromConfig, S!ApplyOptions, S!Goto
  <2>3. pc = "idle" /\ pc' = "idle" /\ call' = <<>>
    BY <1>1, <2>1, <2>2 DEF Listening, callVars, CallInv
  <2>4. (SetupInv => interceptor \in Interceptor)'
    BY InterceptorType, PTL
  <2>6. TypeOK'
    BY <1>1, <2>1, <2>4 DEF CallInv, TypeOK, callVars
  <2>5. CallInv'
    BY <1>1, <2>1, <2>3, <2>6
       DEF CallInv, callVars, HandlerDecides, FailsOpen, AnsweredAfterStored, EntryOfItsCall,
           Answered, HandlerErrors
  <2> QED
    BY <1>1, <2>3, <2>5 DEF ServiceInv, Listening, PanicsOnlyWithoutMap
<1>3. CASE Serve
  <2>1. step = "ready" /\ setup.target # "client" /\ Next /\ UNCHANGED setupOnly
    BY <1>3 DEF Serve
  <2>2. CallInv'
    BY <1>1, <2>1, BeforeHandler, HandlerRuns, AfterTheHandler DEF Next
  <2>3. Listening'
    BY <2>1 DEF Listening, setupOnly
  <2>4. PanicsOnlyWithoutMap'
    <3>1. (FromFile' <=> FromFile) /\ UNCHANGED <<setup, resource>>
      BY <2>1 DEF FromFile, setupOnly
    <3>2. ASSUME FromFile PROVE ~ NilDereference
      BY <1>1, <2>1, <3>2, InterceptorFromFile DEF NilDereference
    <3>3. ASSUME FromFile, LogPanics
          PROVE  logReq'.mapless /\ setup.file.justification = "on" /\ resource = "none"
      BY <1>1, <2>1, <3>3, InterceptorFromFile DEF LogPanics, Mapless
    <3>4. pc' = "panicked" => LogPanics \/ NilDereference
      BY <2>1
         DEF Next, Call, NoRule, handleReturnUnary, Prepare, RunUnaudited, RunAudited,
             LogError, SetRespFails, LogResponse
    <3> QED
      BY <3>1, <3>2, <3>3, <3>4 DEF PanicsOnlyWithoutMap
  <2> QED
    BY <1>1, <2>2, <2>3, <2>4 DEF ServiceInv
<1>4. CASE UNCHANGED serviceVars
  <2>1. CallInv'
    BY <1>1, <1>4, SameCall
       DEF serviceVars, vars, CallInv, TypeOK, OwnLogReq, HandlerDecides, FailsOpen,
           AnsweredAfterStored, EntryOfItsCall, Answered, effectiveMode
  <2> QED
    BY <1>1, <1>4, <2>1
       DEF ServiceInv, Listening, PanicsOnlyWithoutMap, FromFile, serviceVars, setupOnly, vars
<1> QED
  BY <1>2, <1>3, <1>4 DEF NextService

LEMMA ServiceInvariant == ServiceSpec => []ServiceInv
BY ServiceInit, ServiceStep, PTL DEF ServiceSpec

-----------------------------------------------------------------------------
(* Theorems.                                                               *)

(* Types of both parts, in whatever state a file, valid or not, or the     *)
(* application has brought the interceptor.                                *)
THEOREM ServiceTypeCorrect == ServiceSpec => []ServiceTypeOK
<1>1. ServiceInv => ServiceTypeOK
  BY DEF ServiceInv, SetupInv, FileInv, CallInv, ServiceTypeOK
<1> QED
  BY <1>1, ServiceInvariant, PTL

(* However UnaryInterceptor's own steps fail, the handler never runs       *)
(* twice, and an answer that is not an error of the interceptor is the     *)
(* handler's.                                                              *)
THEOREM HandlerDecidesCorrect == ServiceSpec => []HandlerDecides
<1>1. ServiceInv => HandlerDecides
  BY DEF ServiceInv, CallInv
<1> QED
  BY <1>1, ServiceInvariant, PTL

(* Only a fail-close interceptor answers a call with an error of its own:  *)
(* handleReturnUnary and handleReturnWithResponse go by no other mode.     *)
THEOREM FailsOpenCorrect == ServiceSpec => []FailsOpen
<1>1. ServiceInv => FailsOpen
  BY DEF ServiceInv, CallInv
<1> QED
  BY <1>1, ServiceInvariant, PTL

(* A fail-close UnaryInterceptor answers with a response only after the    *)
(* entry of the call was stored or filtered out, unless no rule applies or *)
(* the handler chose another mode.  That no rule applies is what           *)
(* mostRelevantRule found, by MostRelevantRule.                            *)
THEOREM AnsweredAfterStoredCorrect == ServiceSpec => []AnsweredAfterStored
<1>1. ServiceInv => AnsweredAfterStored
  BY DEF ServiceInv, CallInv
<1> QED
  BY <1>1, ServiceInvariant, PTL

(* The entry that UnaryInterceptor stores is the one of its call: the      *)
(* directive of its rule, a principal claimed by a token of the call, the  *)
(* status of the handler's answer, and the request as the caller sent it.  *)
THEOREM EntryOfItsCallCorrect == ServiceSpec => []EntryOfItsCall
<1>1. ServiceInv => EntryOfItsCall
  BY DEF ServiceInv, CallInv
<1> QED
  BY <1>1, ServiceInvariant, PTL

(* The rule that mostRelevantRule chooses applies to the method of the     *)
(* call, if any rule does, and where the lengths of selectors tell what is *)
(* relevant no rule is more relevant, for every list of rules in whatever  *)
(* order and every method: the loop over the rules is proved by induction  *)
(* on the rounds it has run.                                               *)
THEOREM RuleIsMostRelevantCorrect == ServiceSpec => []RuleIsMostRelevant
<1>1. ServiceInv => RuleIsMostRelevant
  BY CallFacts DEF ServiceInv, CallInv, RuleIsMostRelevant
<1> QED
  BY <1>1, ServiceInvariant, PTL

(* The client that clientFromConfig makes has everything that a valid file *)
(* asks for, and a file that is not valid makes none, whichever of the     *)
(* steps on the way fail.                                                  *)
THEOREM ClientAsConfiguredCorrect == ServiceSpec => []ClientAsConfigured
<1>1. ServiceInv => ClientAsConfigured
  BY DEF ServiceInv, SetupInv, FileInv, ClientAsConfigured
<1> QED
  BY <1>1, ServiceInvariant, PTL

(* newRuntimeInfo names the platform it runs on or none, whichever reads   *)
(* of metadata fail, but for a Kubernetes node whose cluster name could    *)
(* not be read.                                                            *)
THEOREM RuntimeAttributionCorrect == ServiceSpec => []RuntimeAttribution
<1>1. ServiceInv => RuntimeAttribution
  BY DEF ServiceInv, SetupInv, FileInv, RuntimeAttribution
<1> QED
  BY <1>1, ServiceInvariant, PTL

(* remote.NewProcessor connects without credentials only for a file that   *)
(* says so.                                                                *)
THEOREM RemoteStaysSecureCorrect == ServiceSpec => []RemoteStaysSecure
<1>1. ServiceInv => RemoteStaysSecure
  BY DEF ServiceInv, SetupInv, FileInv, RemoteStaysSecure
<1> QED
  BY <1>1, ServiceInvariant, PTL

(* An interceptor made by InterceptorFromConfigFile never dereferences a   *)
(* client or a security context that is not there: only the justification  *)
(* processor panics, on a Metadata Struct that the handler left without a  *)
(* map and that no runtime info was written to before.                     *)
THEOREM PanicsOnlyWithoutMapCorrect == ServiceSpec => []PanicsOnlyWithoutMap
<1>1. ServiceInv => PanicsOnlyWithoutMap
  BY DEF ServiceInv
<1> QED
  BY <1>1, ServiceInvariant, PTL

(* From the file to the answer: the log mode that a file asks for decides  *)
(* whether a call can be answered without its entry, or be refused because *)
(* of the log.                                                             *)
THEOREM FileModeHonouredCorrect == ServiceSpec => []FileModeHonoured
<1>1. ASSUME ServiceInv PROVE FileModeHonoured
  <2> SUFFICES ASSUME FromFile, Answered
               PROVE  /\ /\ setup.file.logMode = "FAIL_CLOSE"
                         /\ \E i \in DOMAIN setup.file.rules :
                              isRuleApplicable(setup.file.rules[i], method)
                         /\ reply = [resp |-> TRUE, err |-> "nil"]
                         => \/ entry.result \in {"stored", "dropped"}
                            \/ logReq.mode = "BEST_EFFORT"
                      /\ setup.file.logMode = "BEST_EFFORT" => reply.err # "interceptor"
    BY DEF FileModeHonoured
  <2>1. SetupInv /\ step = "ready" /\ setup.target # "client"
    BY <1>1 DEF ServiceInv, Listening, Answered
  <2>2. ASSUME setup.file.logMode = "FAIL_CLOSE",
               NEW i \in DOMAIN setup.file.rules,
               isRuleApplicable(setup.file.rules[i], method),
               reply = [resp |-> TRUE, err |-> "nil"],
               entry.result \notin {"stored", "dropped"}
        PROVE  logReq.mode = "BEST_EFFORT"
    <3>1. /\ interceptor.logMode = "FAIL_CLOSE" /\ interceptor.client = "FAIL_CLOSE"
          /\ DOMAIN interceptor.rules = DOMAIN setup.file.rules
          /\ interceptor.rules[i].selector = setup.file.rules[i].selector
          /\ SelectorLength(interceptor.rules[i].selector) > 0
      BY <2>1, <2>2, InterceptorFromFile
    <3>2. isRuleApplicable(interceptor.rules[i], method)
      BY <2>2, <3>1 DEF isRuleApplicable
    <3>3. ~ IsMostRelevant(0, method, interceptor.rules)
      BY <3>1, <3>2 DEF IsMostRelevant, Applicable
    <3>4. ~ ShouldFailClose(effectiveMode)
      BY <1>1, <2>2, <3>1, <3>3
         DEF ServiceInv, CallInv, AnsweredAfterStored, ShouldFailClose, interceptorMode
    <3>5. logReq.mode \in Modes
      BY <1>1 DEF ServiceInv, CallInv, TypeOK, LogRequest
    <3> QED
      BY <3>1, <3>4, <3>5 DEF effectiveMode, ShouldFailClose, Modes
  <2>3. ASSUME setup.file.logMode = "BEST_EFFORT" PROVE reply.err # "interceptor"
    <3>1. interceptor.logMode = "BEST_EFFORT"
      BY <2>1, <2>3, InterceptorFromFile
    <3> QED
      BY <1>1, <3>1 DEF ServiceInv, CallInv, FailsOpen, ShouldFailClose, interceptorMode
  <2> QED
    BY <2>2, <2>3
<1> QED
  BY <1>1, ServiceInvariant, PTL

=============================================================================
