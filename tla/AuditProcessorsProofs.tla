----------------------- MODULE AuditProcessorsProofs -----------------------
(***************************************************************************)
(* What the lists of validators and mutators do to a request, for every    *)
(* configuration and every request.  The proofs about the clients cite     *)
(* these facts and do not look into the processors again.                  *)
(***************************************************************************)
EXTENDS AuditProcessors, TLAPS

(* Fields that no processor may touch.                                     *)
SameCore(p, q) ==
  /\ p.mode = q.mode
  /\ p.type = q.type
  /\ p.shape = q.shape
  /\ p.email = q.email

(* The filter of the configuration, when it has one, lets the request go.  *)
Unfiltered(c, q) == c.includes # <<>> \/ c.excludes # <<>> => ~ Dropped(c, q)

(* What a request bears once the mutators have run.                        *)
Completed(c, q) ==
  /\ c.justification => "justification" \in q.metadata.keys
  /\ c.onGCP => "originating_resource" \in q.metadata.keys
  /\ \A k \in LabelKeys : c.labels[k] # NoLabel => q.labels[k] # NoLabel

(* The validators change nothing.  They let go a request that is valid and *)
(* that the filter does not drop, answer ErrPreconditionFailed only to one *)
(* that the filter drops, and never panic.                                 *)
LEMMA ValidatorsResult ==
  ASSUME NEW c \in Configuration, NEW q \in Request
  PROVE  /\ Validators(c, q).req = q
         /\ Validators(c, q).err # "panic"
         /\ Validators(c, q).err = "nil" => ValidateAuditLog(q) /\ Unfiltered(c, q)
         /\ Validators(c, q).err = "ErrPreconditionFailed" => Dropped(c, q)
BY DEF Validators, Then, RequestValidator, PrincipalEmailMatcher, Pass, Refuse, Unfiltered

(* The two mutators that cannot fail.                                      *)
LEMMA RuntimeInfoResult ==
  ASSUME NEW c, NEW q \in Request
  PROVE  /\ RuntimeInfo(c, q).err = "nil"
         /\ RuntimeInfo(c, q).req \in Request
         /\ SameCore(RuntimeInfo(c, q).req, q)
         /\ q.metadata.keys \subseteq RuntimeInfo(c, q).req.metadata.keys
         /\ c.onGCP => "originating_resource" \in RuntimeInfo(c, q).req.metadata.keys
BY DEF RuntimeInfo, Pass, Request, SameCore, MetadataKeys

LEMMA LabelProcessorResult ==
  ASSUME NEW c, NEW q \in Request,
         c.labels \in [LabelKeys -> LabelValues \cup {NoLabel}]
  PROVE  /\ LabelProcessor(c, q).err = "nil"
         /\ LabelProcessor(c, q).req \in Request
         /\ SameCore(LabelProcessor(c, q).req, q)
         /\ LabelProcessor(c, q).req.metadata = q.metadata
         /\ \A k \in LabelKeys :
              c.labels[k] # NoLabel => LabelProcessor(c, q).req.labels[k] # NoLabel
BY DEF LabelProcessor, Pass, Request, SameCore

(* The justification processor refuses a request or adds to its metadata.  *)
LEMMA JustificationResult ==
  ASSUME NEW c, NEW q \in Request
  PROVE  /\ JustificationProcessor(c, q).err # "ErrPreconditionFailed"
         /\ JustificationProcessor(c, q).req \in Request
         /\ SameCore(JustificationProcessor(c, q).req, q)
         /\ JustificationProcessor(c, q).req.labels = q.labels
         /\ q.metadata.keys \subseteq JustificationProcessor(c, q).req.metadata.keys
         /\ JustificationProcessor(c, q).err = "nil" /\ c.justification =>
              "justification" \in JustificationProcessor(c, q).req.metadata.keys
<1> DEFINE noted == [q EXCEPT !.metadata =
                       [map |-> "fields", keys |-> @.keys \cup {"justification"}]]
<1>1. /\ noted \in Request
      /\ SameCore(noted, q)
      /\ noted.labels = q.labels
      /\ noted.metadata.keys = q.metadata.keys \cup {"justification"}
  BY DEF Request, SameCore, MetadataKeys
<1> DEFINE reasoned == [noted EXCEPT !.reason = TRUE]
<1>2. /\ reasoned \in Request
      /\ SameCore(reasoned, q)
      /\ reasoned.labels = q.labels
      /\ reasoned.metadata.keys = q.metadata.keys \cup {"justification"}
  BY DEF Request, SameCore, MetadataKeys
<1>3. SameCore(q, q)
  BY DEF SameCore
<1>4. \/ ~ c.justification /\ JustificationProcessor(c, q) = Pass(q)
      \/ JustificationProcessor(c, q) = Refuse("ErrJustificationMissing", q)
      \/ JustificationProcessor(c, q) = Refuse("ErrJustificationInvalid", q)
      \/ JustificationProcessor(c, q) = Refuse("error", q)
      \/ JustificationProcessor(c, q) = Refuse("panic", q)
      \/ JustificationProcessor(c, q) = Pass(noted)
      \/ JustificationProcessor(c, q) = Pass(reasoned)
  BY Zenon DEF JustificationProcessor
<1> HIDE DEF noted, reasoned
<1> QED
  BY <1>1, <1>2, <1>3, <1>4 DEF Pass, Refuse

(* The mutators keep the type of a request and what the validators looked  *)
(* at; a request that all of them let go bears what the configuration asks *)
(* for.                                                                    *)
LEMMA MutatorsResult ==
  ASSUME NEW c \in Configuration, NEW q \in Request
  PROVE  /\ Mutators(c, q).err # "ErrPreconditionFailed"
         /\ Mutators(c, q).req \in Request
         /\ SameCore(Mutators(c, q).req, q)
         /\ Mutators(c, q).err = "nil" => Completed(c, Mutators(c, q).req)
<1> DEFINE a == RuntimeInfo(c, q).req
           b == LabelProcessor(c, a).req
<1>1. Mutators(c, q) = JustificationProcessor(c, b)
  BY RuntimeInfoResult, LabelProcessorResult DEF Mutators, Then, Configuration
<1>2. a \in Request /\ b \in Request
  BY RuntimeInfoResult, LabelProcessorResult DEF Configuration
<1>3. SameCore(a, q) /\ SameCore(b, a)
  BY <1>2, RuntimeInfoResult, LabelProcessorResult DEF Configuration
<1>4. /\ c.onGCP => "originating_resource" \in b.metadata.keys
      /\ \A k \in LabelKeys : c.labels[k] # NoLabel => b.labels[k] # NoLabel
  BY <1>2, RuntimeInfoResult, LabelProcessorResult DEF Configuration
<1> HIDE DEF a, b
<1> QED
  BY <1>1, <1>2, <1>3, <1>4, JustificationResult DEF SameCore, Completed

(* Validity and the filter look at fields that no processor touches.       *)
LEMMA CoreDecides ==
  ASSUME NEW c, NEW p, NEW q, SameCore(p, q)
  PROVE  /\ ValidateAuditLog(p) <=> ValidateAuditLog(q)
         /\ Dropped(c, p) <=> Dropped(c, q)
         /\ Unfiltered(c, p) <=> Unfiltered(c, q)
BY DEF SameCore, ValidateAuditLog, Dropped, Unfiltered

=============================================================================
