-------------------------- MODULE SecurityContext --------------------------
(***************************************************************************)
(* security.FromRawJWT of the Go client: the principal of a call, from the *)
(* tokens in the call's gRPC metadata.                                     *)
(*                                                                         *)
(* Metadata maps the header keys in play to the list of their values; a    *)
(* value is a scheme, such as "bearer ", and a token.  Keys are lower case *)
(* and prefixes are compared regardless of case, so each stands for all of *)
(* its spellings.                                                          *)
(***************************************************************************)
EXTENDS Sequences, Naturals

CONSTANTS
  Emails,      \* principals
  HeaderKeys   \* keys of metadata that rules name

Schemes == {"", "bearer "}

(* A token is what its email claim says, or one that does not parse (an    *)
(* expired one included), has no email claim, or one that is not a string, *)
(* or is blank.                                                            *)
BadTokens == {"unparsable", "no email", "no string", "blank"}
Token == Emails \cup BadTokens

HeaderValue == [scheme : Schemes, token : Token]
JwtRule == [key : HeaderKeys, prefix : Schemes]

(* No metadata in the context is <<>>, metadata is a list of one element.  *)
Metadata == Seq([HeaderKeys -> Seq(HeaderValue)])

NoPrincipal == "no principal"

(* Only the first value of a key is looked at.                             *)
Matches(md, rule) ==
  /\ md[rule.key] # <<>>
  /\ rule.prefix \in {"", md[rule.key][1].scheme}

(* The token that the first matching rule cuts out.  The scheme that a     *)
(* rule leaves in place spoils the token.                                  *)
findJWT(md, rules) ==
  LET matching == {i \in DOMAIN rules : Matches(md, rules[i])}
      rule == rules[CHOOSE i \in matching : \A j \in matching : i <= j]
      value == md[rule.key][1]
  IN  IF matching = {} THEN NoPrincipal
      ELSE IF value.scheme # rule.prefix THEN "unparsable"
      ELSE value.token

RequestPrincipal(metadata, rules) ==
  IF metadata = <<>> THEN NoPrincipal
  ELSE LET token == findJWT(metadata[1], rules)
       IN  IF token \in Emails THEN token ELSE NoPrincipal

=============================================================================
