----------------------- MODULE JavaInterceptorProofs -----------------------
(***************************************************************************)
(* The Java interceptor, for any number of concurrent calls, selectors,    *)
(* requests and responses.                                                 *)
(***************************************************************************)
EXTENDS JavaInterceptor, FiniteSetTheorems, WellFoundedInduction, TLAPS

-----------------------------------------------------------------------------
(* The selector of a method.                                               *)

(* Induction by the least counterexample.                                  *)
LEMMA LeastElement ==
  ASSUME NEW T, T \subseteq Nat, T # {}
  PROVE  \E x \in T : \A y \in T : x <= y
<1> DEFINE R == OpToRel(<, Nat)
<1>1. \A x, y \in Nat : <<y, x>> \in R <=> y < x
  BY DEF OpToRel
<1>2. IsWellFoundedOn(R, Nat)
  BY NatLessThanWellFounded
<1> HIDE DEF R
<1>3. PICK x \in T : \A y \in T : ~ (<<y, x>> \in R)
  BY <1>2, WFMin
<1>4. ASSUME NEW y \in T PROVE x <= y
  <2>1. x \in Nat /\ y \in Nat
    OBVIOUS
  <2>2. ~ (y < x)
    BY <1>1, <1>3, <2>1
  <2> QED
    BY <2>1, <2>2
<1> QED
  BY <1>4

(* One round of the loop of returnMostRelevant, with the best selector so  *)
(* far.                                                                    *)
LengthOf(i) == IF i = 0 THEN 0 ELSE getLength(Rules[i])

Round(m, k, best) ==
  IF /\ best = 0 \/ LengthOf(best) # Len(m)
     /\ isApplicable(Rules[k], m)
     /\ getLength(Rules[k]) > LengthOf(best)
  THEN k ELSE best

Rounds(m, n, f) == f = [k \in 0..n |-> IF k = 0 THEN 0 ELSE Round(m, k, f[k - 1])]

(* The loop can be run to any round.                                       *)
LEMMA RoundsExist ==
  ASSUME NEW m, NEW n \in Nat
  PROVE  \E f : Rounds(m, n, f)
<1> DEFINE T == {k \in Nat : ~ \E f : Rounds(m, k, f)}
<1> SUFFICES ASSUME T # {} PROVE FALSE
  OBVIOUS
<1>1. PICK x \in T : \A y \in T : x <= y
  BY LeastElement
<1>2. x \in Nat /\ ~ \E f : Rounds(m, x, f)
  OBVIOUS
<1>3. CASE x = 0
  <2> DEFINE f == [k \in 0..0 |-> 0]
  <2>1. f = [k \in 0..0 |-> IF k = 0 THEN 0 ELSE Round(m, k, f[k - 1])]
    OBVIOUS
  <2> QED
    BY <1>2, <1>3, <2>1 DEF Rounds
<1>4. CASE x # 0
  <2>1. x - 1 \in Nat /\ ~ (x <= x - 1)
    BY <1>2, <1>4
  <2>2. PICK f : Rounds(m, x - 1, f)
    BY <1>1, <2>1
  <2> DEFINE g == [k \in 0..x |-> IF k = x THEN Round(m, x, f[x - 1]) ELSE f[k]]
  <2>3. ASSUME NEW k \in 0..x
        PROVE  g[k] = IF k = 0 THEN 0 ELSE Round(m, k, g[k - 1])
    <3>1. CASE k = x
      BY <1>2, <1>4, <3>1
    <3>2. CASE k # x
      <4>1. k \in 0..(x - 1) /\ (k # 0 => k - 1 \in 0..(x - 1) /\ k - 1 # x /\ k - 1 \in 0..x)
        BY <1>2, <3>2
      <4>2. f[k] = IF k = 0 THEN 0 ELSE Round(m, k, f[k - 1])
        BY <2>2, <4>1 DEF Rounds
      <4> QED
        BY <3>2, <4>1, <4>2
    <3> QED
      BY <3>1, <3>2
  <2>4. g = [k \in 0..x |-> IF k = 0 THEN 0 ELSE Round(m, k, g[k - 1])]
    BY <2>3
  <2> QED
    BY <1>2, <2>4 DEF Rounds
<1> QED
  BY <1>3, <1>4

(* i is the most relevant of the first k selectors.                        *)
Applies(i, m) == isApplicable(Rules[i], m) /\ getLength(Rules[i]) > 0

MostRelevant(m, k, best) ==
  /\ best \in 0..k
  /\ best = 0 => \A i \in 1..k : ~ Applies(i, m)
  /\ best # 0 =>
       /\ Applies(best, m)
       /\ \A i \in 1..k : Applies(i, m) =>
            /\ i < best => getLength(Rules[i]) < getLength(Rules[best])
            /\ i > best => \/ getLength(Rules[i]) <= getLength(Rules[best])
                           \/ getLength(Rules[best]) = Len(m)

LEMMA RoundFinds ==
  ASSUME NEW m \in Seq(STRING), NEW k \in 1..Len(Rules), NEW best, MostRelevant(m, k - 1, best)
  PROVE  MostRelevant(m, k, Round(m, k, best))
<1> DEFINE length(i) == getLength(Rules[i])
           a(i) == isApplicable(Rules[i], m)
<1>1. ASSUME NEW i \in 1..Len(Rules) PROVE length(i) \in Nat
  <2>0. Rules[i] \in Selector
    BY JavaAssumption
  <2>1. Rules[i].name \in Seq(STRING) /\ Rules[i].wild \in BOOLEAN
    BY <2>0 DEF Selector
  <2>2. Len(Rules[i].name) \in Nat
    BY <2>1
  <2>3. getLength(Rules[i]) \in {Len(Rules[i].name) + 0, Len(Rules[i].name) + 1}
    BY Zenon DEF getLength
  <2> QED
    BY <2>2, <2>3
<1>2. Len(m) \in Nat /\ k \in Nat /\ k # 0 /\ Len(Rules) \in Nat
  BY JavaAssumption
<1>3. /\ best \in 0..(k - 1)
      /\ best = 0 => \A i \in 1..(k - 1) : ~ (a(i) /\ length(i) > 0)
      /\ best # 0 =>
           /\ a(best) /\ length(best) > 0
           /\ \A i \in 1..(k - 1) : a(i) /\ length(i) > 0 =>
                /\ i < best => length(i) < length(best)
                /\ i > best => length(i) <= length(best) \/ length(best) = Len(m)
  BY DEF MostRelevant, Applies
<1>4. Round(m, k, best) =
        IF /\ best = 0 \/ length(best) # Len(m)
           /\ a(k)
           /\ length(k) > IF best = 0 THEN 0 ELSE length(best)
        THEN k ELSE best
  BY <1>2, <1>3 DEF Round, LengthOf
<1> DEFINE r == Round(m, k, best)
<1> SUFFICES /\ r \in 0..k
             /\ r = 0 => \A i \in 1..k : ~ (a(i) /\ length(i) > 0)
             /\ r # 0 =>
                  /\ a(r) /\ length(r) > 0
                  /\ \A i \in 1..k : a(i) /\ length(i) > 0 =>
                       /\ i < r => length(i) < length(r)
                       /\ i > r => length(i) <= length(r) \/ length(r) = Len(m)
  BY DEF MostRelevant, Applies
<1>5. \A i \in 1..k : i = k \/ i \in 1..(k - 1)
  BY <1>2
<1>6. 1..k \subseteq 1..Len(Rules)
  BY <1>2
<1> HIDE DEF length, a
<1>7. CASE best = 0
  BY <1>1, <1>2, <1>3, <1>4, <1>5, <1>6, <1>7
<1>8. CASE best # 0
  BY <1>1, <1>2, <1>3, <1>4, <1>5, <1>6, <1>8
<1> QED
  BY <1>7, <1>8

(* The loop of returnMostRelevant finds the most relevant selector, for    *)
(* every method.                                                           *)
LEMMA ReturnMostRelevant ==
  ASSUME NEW m \in Seq(STRING)
  PROVE  MostRelevant(m, Len(Rules), returnMostRelevant(m))
<1> DEFINE n == Len(Rules)
           f == CHOOSE g : Rounds(m, n, g)
<1>1. n \in Nat
  BY JavaAssumption
<1>2. Rounds(m, n, f)
  BY <1>1, RoundsExist
<1>3. returnMostRelevant(m) = f[n]
  BY DEF returnMostRelevant, Rounds, Round, LengthOf
<1> HIDE DEF f
<1>4. \A k \in 0..n : f[k] = IF k = 0 THEN 0 ELSE Round(m, k, f[k - 1])
  BY <1>2 DEF Rounds
<1>5. \A k \in 0..n : MostRelevant(m, k, f[k])
  <2> DEFINE T == {k \in 0..n : ~ MostRelevant(m, k, f[k])}
  <2> SUFFICES ASSUME T # {} PROVE FALSE
    OBVIOUS
  <2>0. T \subseteq Nat
    BY <1>1
  <2>1. PICK x \in T : \A y \in T : x <= y
    <3> HIDE DEF T
    <3> QED
      BY <2>0, LeastElement
  <2>2. x \in 0..n /\ ~ MostRelevant(m, x, f[x])
    OBVIOUS
  <2>3. CASE x = 0
    <3>1. f[x] = 0
      BY <1>4, <2>2, <2>3
    <3>2. 1..x = {}
      BY <2>3
    <3> QED
      BY <2>2, <2>3, <3>1, <3>2 DEF MostRelevant
  <2>4. CASE x # 0
    <3>1. x \in 1..n /\ x - 1 \in 0..n /\ ~ (x <= x - 1)
      BY <1>1, <2>2, <2>4
    <3>2. MostRelevant(m, x - 1, f[x - 1])
      BY <2>1, <3>1
    <3>3. f[x] = Round(m, x, f[x - 1])
      BY <1>4, <2>2, <2>4
    <3> QED
      BY <2>2, <3>1, <3>2, <3>3, RoundFinds
  <2> QED
    BY <2>3, <2>4
<1> QED
  BY <1>1, <1>3, <1>5

-----------------------------------------------------------------------------
(* The invariants.                                                         *)

Stages == {"lookup", "get", "compute", "putting", "select", "start", "running",
           "unaudited", "failed"}
Places == {"idle", "check", "poll", "log", "add", "handle", "send log", "send",
           "close poll", "close log", "close", "dead"}

(* Variables map calls to values.                                          *)
Shape ==
  /\ mode \in {"FAIL_CLOSE", "BEST_EFFORT"}
  /\ \A c \in Calls : input[c] \in Inputs[c]
  /\ stage \in [Calls -> Stages]
  /\ choice \in [Calls -> 0..Len(Rules)]
  /\ starts \in [Calls -> Nat]
  /\ received \in [Calls -> Nat]
  /\ responses \in [Calls -> Nat]
  /\ closed \in [Calls -> BOOLEAN]
  /\ unloggedRequests \in [Calls -> Seq(Nat)]
  /\ at \in [Calls -> [Threads -> Places]]
  /\ hand \in [Calls -> [Threads -> Nat]]
  /\ audited \in [Calls -> UNION {[1..MaxMessages[c] -> Nat] : c \in Calls}]
  /\ \A c \in Calls : audited[c] \in [1..MaxMessages[c] -> Nat]
  /\ filed \in [Calls -> SUBSET Nat]
  /\ sent \in [Calls -> SUBSET Nat]

(* The memo, and a call that has asked it or the loop, have the selector   *)
(* that the loop finds.                                                    *)
MemoInv ==
  /\ \A m \in DOMAIN memo : memo[m] = returnMostRelevant(m)
  /\ \A c \in Calls :
       stage[c] \in {"putting", "select", "start", "running", "unaudited"} =>
         choice[c] = returnMostRelevant(input[c].method)

(* The listener has a message that it has not added to the deque.          *)
Arriving == {"check", "poll", "log", "add", "dead"}

(* The request in the deque, of which there is one at most.                *)
Waiting(c) == IF unloggedRequests[c] = <<>> THEN 0 ELSE unloggedRequests[c][1]

(* Request r is in one place: the deque, a hand, or the log.               *)
OnePlace(r, waiting, listener, sender, logged) ==
  \/ waiting = r /\ listener # r /\ sender # r /\ logged = 0
  \/ waiting # r /\ listener = r /\ sender # r /\ logged = 0
  \/ waiting # r /\ listener # r /\ sender = r /\ logged = 0
  \/ waiting # r /\ listener # r /\ sender # r /\ logged = 1

NoPlace(r, waiting, listener, sender, logged) ==
  waiting # r /\ listener # r /\ sender # r /\ logged = 0

Added(c, r) == r < received[c] \/ (r = received[c] /\ at[c]["listener"] \notin Arriving)

Conserved(c) ==
  \A r \in 1..MaxMessages[c] :
    IF Added(c, r)
    THEN OnePlace(r, Waiting(c), hand[c]["listener"], hand[c]["sender"], audited[c][r])
    ELSE NoPlace(r, Waiting(c), hand[c]["listener"], hand[c]["sender"], audited[c][r])

(* Only a thread that is about to log holds a request.                     *)
HandOf(c, t) ==
  /\ hand[c][t] \in 0..MaxMessages[c]
  /\ at[c][t] \in {"log", "close log"} => hand[c][t] # 0
  /\ hand[c][t] # 0 => at[c][t] \in {"log", "close log", "send log"}

Deque(c) ==
  /\ unloggedRequests[c] = <<>>
       \/ \E r \in 1..MaxMessages[c] : unloggedRequests[c] = <<r>>
  /\ at[c]["listener"] = "add" => unloggedRequests[c] = <<>>

(* A request that waits is newer than the one in the hand of the sender,   *)
(* and none waits while the listener logs one.                             *)
Newest(c) ==
  /\ hand[c]["listener"] # 0 => Waiting(c) = 0
  /\ Waiting(c) # 0 => hand[c]["sender"] < Waiting(c)

Numbers(c) ==
  /\ received[c] <= MaxMessages[c]
  /\ responses[c] <= MaxResponses[c]
  /\ at[c]["listener"] \in Arriving \cup {"handle"} => received[c] # 0
  /\ at[c]["sender"] \in {"send log", "send"} => responses[c] # 0
  /\ filed[c] \cup sent[c] \subseteq 1..MaxResponses[c]

(* A response on its way has its entry.                                    *)
FiledFirst(c) ==
  shouldFailClose =>
    /\ sent[c] \subseteq filed[c]
    /\ at[c]["sender"] = "send" => responses[c] \in filed[c]

CallInv(c) ==
  /\ HandOf(c, "listener")
  /\ HandOf(c, "sender")
  /\ Deque(c)
  /\ Newest(c)
  /\ Conserved(c)
  /\ Numbers(c)
  /\ FiledFirst(c)

IInv == Shape /\ MemoInv /\ \A c \in Calls : CallInv(c)

(* The constants, call by call.                                            *)
LEMMA Bounds ==
  ASSUME NEW c \in Calls
  PROVE  MaxMessages[c] \in Nat /\ MaxResponses[c] \in Nat
BY JavaAssumption

LEMMA MethodType ==
  ASSUME Shape, NEW c \in Calls
  PROVE  input[c].method \in Seq(STRING)
<1>1. input[c] \in Input
  BY JavaAssumption DEF Shape
<1> QED
  BY <1>1 DEF Input

LEMMA SelectorType ==
  ASSUME NEW m \in Seq(STRING)
  PROVE  returnMostRelevant(m) \in 0..Len(Rules)
BY ReturnMostRelevant DEF MostRelevant

LEMMA InitInv == Init => IInv
<1> SUFFICES ASSUME Init PROVE IInv
  OBVIOUS
<1>0. 0 \in 0..Len(Rules)
  BY JavaAssumption
<1>1. audited \in [Calls -> UNION {[1..MaxMessages[c] -> Nat] : c \in Calls}]
      /\ \A c \in Calls : audited[c] \in [1..MaxMessages[c] -> Nat]
  BY DEF Init
<1>2. Shape
  BY <1>0, <1>1 DEF Init, Shape, Stages, Places
<1>3. MemoInv
  BY DEF Init, MemoInv
<1>4. ASSUME NEW c \in Calls PROVE CallInv(c)
  <2>1. /\ at[c]["listener"] = "idle" /\ at[c]["sender"] = "idle"
        /\ hand[c]["listener"] = 0 /\ hand[c]["sender"] = 0
        /\ received[c] = 0 /\ responses[c] = 0 /\ filed[c] = {} /\ sent[c] = {}
        /\ unloggedRequests[c] = <<>>
        /\ \A r \in 1..MaxMessages[c] : audited[c][r] = 0
    BY <1>4 DEF Init, Threads
  <2>2. MaxMessages[c] \in Nat /\ MaxResponses[c] \in Nat
    BY Bounds
  <2>3. Conserved(c)
    BY <2>1, <2>2 DEF Conserved, Added, NoPlace, Waiting
  <2>4. Newest(c)
    BY <2>1 DEF Newest, Waiting
  <2> QED
    BY <2>1, <2>2, <2>3, <2>4 DEF CallInv, HandOf, Deque, Numbers, FiledFirst, Arriving
<1> QED
  BY <1>2, <1>3, <1>4 DEF IInv

-----------------------------------------------------------------------------
(* Steps.                                                                  *)

(* A call that a step leaves alone.                                        *)
Untouched(c) ==
  /\ unloggedRequests'[c] = unloggedRequests[c]
  /\ at'[c] = at[c] /\ hand'[c] = hand[c]
  /\ received'[c] = received[c] /\ audited'[c] = audited[c]
  /\ responses'[c] = responses[c] /\ filed'[c] = filed[c] /\ sent'[c] = sent[c]

LEMMA UntouchedInv ==
  ASSUME NEW c \in Calls, mode' = mode, Untouched(c), CallInv(c)
  PROVE  CallInv(c)'
BY DEF Untouched, CallInv, HandOf, Deque, Newest, Conserved, Waiting, Added, Numbers,
       FiledFirst, shouldFailClose

(* Both ends of the deque hold the request that waits.                     *)
LEMMA PollFacts ==
  ASSUME Shape, NEW c \in Calls, Deque(c)
  PROVE  /\ pollFirst(c) = Waiting(c) /\ pollLast(c) = Waiting(c)
         /\ Waiting(c) \in 0..MaxMessages[c]
         /\ TakeFirst(c) \/ TakeLast(c) =>
              /\ unloggedRequests' \in [Calls -> Seq(Nat)]
              /\ unloggedRequests'[c] = <<>> /\ Waiting(c)' = 0
              /\ \A d \in Calls \ {c} : unloggedRequests'[d] = unloggedRequests[d]
<1>0. MaxMessages[c] \in Nat
  BY Bounds
<1>1. CASE unloggedRequests[c] = <<>>
  <2>0. unloggedRequests = [unloggedRequests EXCEPT ![c] = <<>>]
    BY <1>1 DEF Shape
  <2>1. TakeFirst(c) \/ TakeLast(c) => unloggedRequests' = unloggedRequests
    BY <1>1, <2>0 DEF TakeFirst, TakeLast
  <2>2. pollFirst(c) = 0 /\ pollLast(c) = 0 /\ Waiting(c) = 0
    BY <1>1 DEF pollFirst, pollLast, Waiting
  <2>3. unloggedRequests' = unloggedRequests => Waiting(c)' = 0
    BY <1>1 DEF Waiting
  <2>4. unloggedRequests \in [Calls -> Seq(Nat)]
    BY DEF Shape
  <2> QED
    BY <1>0, <1>1, <2>1, <2>2, <2>3, <2>4
<1>2. ASSUME NEW r \in 1..MaxMessages[c], unloggedRequests[c] = <<r>>
      PROVE  /\ pollFirst(c) = Waiting(c) /\ pollLast(c) = Waiting(c)
             /\ Waiting(c) \in 0..MaxMessages[c]
             /\ TakeFirst(c) \/ TakeLast(c) =>
                  /\ unloggedRequests' \in [Calls -> Seq(Nat)]
                  /\ unloggedRequests'[c] = <<>> /\ Waiting(c)' = 0
                  /\ \A d \in Calls \ {c} : unloggedRequests'[d] = unloggedRequests[d]
  <2>1. Waiting(c) = r /\ pollFirst(c) = r /\ pollLast(c) = r
    BY <1>2 DEF pollFirst, pollLast, Waiting
  <2>2. Tail(<<r>>) = <<>> /\ SubSeq(<<r>>, 1, 0) = <<>>
    OBVIOUS
  <2>3. TakeFirst(c) \/ TakeLast(c) =>
          unloggedRequests' = [unloggedRequests EXCEPT ![c] = <<>>]
    BY <1>2, <2>2 DEF TakeFirst, TakeLast
  <2>4. unloggedRequests' = [unloggedRequests EXCEPT ![c] = <<>>] =>
          /\ unloggedRequests' \in [Calls -> Seq(Nat)]
          /\ unloggedRequests'[c] = <<>>
          /\ \A d \in Calls \ {c} : unloggedRequests'[d] = unloggedRequests[d]
    BY DEF Shape
  <2>5. unloggedRequests'[c] = <<>> => Waiting(c)' = 0
    BY DEF Waiting
  <2> QED
    BY <1>0, <2>1, <2>3, <2>4, <2>5
<1> QED
  BY <1>1, <1>2 DEF Deque

(* auditLog counts the request it is given.                                *)
LEMMA GivenFacts ==
  ASSUME Shape, NEW c \in Calls, NEW r \in 0..MaxMessages[c], Given(c, r)
  PROVE  /\ audited' \in [Calls -> UNION {[1..MaxMessages[d] -> Nat] : d \in Calls}]
         /\ \A d \in Calls : audited'[d] \in [1..MaxMessages[d] -> Nat]
         /\ \A q \in 1..MaxMessages[c] :
              audited'[c][q] = IF q = r THEN audited[c][q] + 1 ELSE audited[c][q]
         /\ \A d \in Calls \ {c} : audited'[d] = audited[d]
<1>0. MaxMessages[c] \in Nat
  BY Bounds
<1>1. CASE r = 0
  <2>1. audited' = audited /\ \A q \in 1..MaxMessages[c] : q # r
    BY <1>0, <1>1 DEF Given
  <2> QED
    BY <2>1 DEF Shape
<1>2. CASE r # 0
  <2> DEFINE F(d) == [1..MaxMessages[d] -> Nat]
             U == UNION {F(d) : d \in Calls}
  <2>1. r \in 1..MaxMessages[c]
    BY <1>0, <1>2
  <2>2. audited \in [Calls -> U] /\ audited[c] \in F(c) /\ \A d \in Calls : audited[d] \in F(d)
    BY DEF Shape
  <2> DEFINE new == [audited[c] EXCEPT ![r] = @ + 1]
  <2>3. audited' = [audited EXCEPT ![c] = new]
    BY <1>2 DEF Given
  <2>4. new \in F(c)
        /\ \A q \in 1..MaxMessages[c] :
             new[q] = IF q = r THEN audited[c][q] + 1 ELSE audited[c][q]
    BY <2>1, <2>2
  <2>5. F(c) \subseteq U
    OBVIOUS
  <2>6. new \in U
    BY <2>4, <2>5
  <2> HIDE DEF new, U
  <2>7. audited' \in [Calls -> U] /\ audited'[c] = new
        /\ \A d \in Calls \ {c} : audited'[d] = audited[d]
    BY <2>2, <2>3, <2>6
  <2>8. \A d \in Calls : audited'[d] \in F(d)
    BY <2>2, <2>4, <2>7
  <2> QED
    BY <2>4, <2>7, <2>8 DEF U
<1> QED
  BY <1>1, <1>2

(* What a step of one call must leave behind.                              *)
GoodStep(c) ==
  /\ UNCHANGED <<mode, input, stage, starts, lookupVars>>
  /\ Shape'
  /\ CallInv(c)'
  /\ \A d \in Calls \ {c} : Untouched(d)

(* Goto with nothing in the hand, on either thread.                        *)
LEMMA GotoListener ==
  ASSUME Shape, NEW c \in Calls, NEW p \in Places, NEW r \in Nat,
         Goto(c, "listener", p, r)
  PROVE  /\ at' \in [Calls -> [Threads -> Places]]
         /\ hand' \in [Calls -> [Threads -> Nat]]
         /\ at'[c]["listener"] = p /\ hand'[c]["listener"] = r
         /\ at'[c]["sender"] = at[c]["sender"] /\ hand'[c]["sender"] = hand[c]["sender"]
         /\ \A d \in Calls \ {c} : at'[d] = at[d] /\ hand'[d] = hand[d]
         /\ UNCHANGED <<mode, input, stage, starts, lookupVars>>
<1>1. at \in [Calls -> [Threads -> Places]] /\ hand \in [Calls -> [Threads -> Nat]]
  BY DEF Shape
<1> QED
  BY <1>1 DEF Goto, Threads

LEMMA GotoSender ==
  ASSUME Shape, NEW c \in Calls, NEW p \in Places, NEW r \in Nat,
         Goto(c, "sender", p, r)
  PROVE  /\ at' \in [Calls -> [Threads -> Places]]
         /\ hand' \in [Calls -> [Threads -> Nat]]
         /\ at'[c]["sender"] = p /\ hand'[c]["sender"] = r
         /\ at'[c]["listener"] = at[c]["listener"]
         /\ hand'[c]["listener"] = hand[c]["listener"]
         /\ \A d \in Calls \ {c} : at'[d] = at[d] /\ hand'[d] = hand[d]
         /\ UNCHANGED <<mode, input, stage, starts, lookupVars>>
<1>1. at \in [Calls -> [Threads -> Places]] /\ hand \in [Calls -> [Threads -> Nat]]
  BY DEF Shape
<1> QED
  BY <1>1 DEF Goto, Threads

LEMMA OnMessageStep ==
  ASSUME IInv, NEW c \in Calls, OnMessage(c)
  PROVE  GoodStep(c)
<1>0. Shape /\ CallInv(c) /\ MaxMessages[c] \in Nat /\ received[c] \in Nat
  BY Bounds DEF IInv, Shape
<1>1. Goto(c, "listener", "check", 0)
  BY DEF OnMessage
<1>2. /\ at' \in [Calls -> [Threads -> Places]] /\ hand' \in [Calls -> [Threads -> Nat]]
      /\ at'[c]["listener"] = "check" /\ hand'[c]["listener"] = 0
      /\ at'[c]["sender"] = at[c]["sender"] /\ hand'[c]["sender"] = hand[c]["sender"]
      /\ \A d \in Calls \ {c} : at'[d] = at[d] /\ hand'[d] = hand[d]
  <2>1. "check" \in Places /\ 0 \in Nat
    BY DEF Places
  <2> QED
    BY <1>0, <1>1, <2>1, GotoListener, Zenon
<1>3. /\ at[c]["listener"] = "idle" /\ received[c] < MaxMessages[c]
      /\ received' = [received EXCEPT ![c] = @ + 1]
      /\ UNCHANGED <<unloggedRequests, audited, responses, filed, sent, closed>>
      /\ UNCHANGED <<mode, input, stage, starts, lookupVars>>
  BY DEF OnMessage, Idle, Goto
<1>4. /\ received' \in [Calls -> Nat] /\ received'[c] = received[c] + 1
      /\ \A d \in Calls \ {c} : received'[d] = received[d]
  <2>1. received \in [Calls -> Nat]
    BY <1>0 DEF Shape
  <2> QED
    BY <1>0, <1>3, <2>1
<1>5. Shape'
  BY <1>0, <1>2, <1>3, <1>4 DEF Shape, lookupVars
<1>6. hand[c]["listener"] = 0
  BY <1>0, <1>3 DEF CallInv, HandOf
<1>7. Waiting(c)' = Waiting(c) /\ audited' = audited
  BY <1>3 DEF Waiting
<1>8. ASSUME NEW r \in 1..MaxMessages[c] PROVE Added(c, r)' <=> Added(c, r)
  <2>1. at'[c]["listener"] \in Arriving /\ at[c]["listener"] \notin Arriving
    BY <1>2, <1>3 DEF Arriving
  <2>2. r \in Nat /\ (r < received[c] + 1 <=> r < received[c] \/ r = received[c])
    BY <1>0
  <2> QED
    BY <1>4, <2>1, <2>2 DEF Added
<1>9. Conserved(c)'
  BY <1>0, <1>2, <1>6, <1>7, <1>8 DEF CallInv, Conserved
<1>10. HandOf(c, "listener")' /\ HandOf(c, "sender")'
  BY <1>0, <1>2, <1>6 DEF CallInv, HandOf
<1>11. Deque(c)'
  BY <1>0, <1>2, <1>3 DEF CallInv, Deque
<1>12. Numbers(c)'
  <2>1. received'[c] <= MaxMessages[c] /\ received'[c] # 0
    BY <1>0, <1>3, <1>4
  <2> QED
    BY <1>0, <1>2, <1>3, <2>1 DEF CallInv, Numbers
<1>13. FiledFirst(c)'
  BY <1>0, <1>2, <1>3 DEF CallInv, FiledFirst, shouldFailClose
<1>14. Newest(c)'
  BY <1>0, <1>2, <1>6, <1>7 DEF CallInv, Newest
<1> QED
  BY <1>2, <1>3, <1>4, <1>5, <1>9, <1>10, <1>11, <1>12, <1>13, <1>14
     DEF GoodStep, CallInv, Untouched

(* A thread moves on with empty hands and nothing else happens to the      *)
(* requests: IsEmpty, the handler, the starts of closing.                  *)
LEMMA MoveStep ==
  ASSUME IInv, NEW c \in Calls, NEW t \in Threads, NEW p \in Places, Goto(c, t, p, 0),
         UNCHANGED <<unloggedRequests, received, audited, responses, filed>>,
         hand[c][t] = 0,
         t = "listener" => (p \in Arriving <=> at[c][t] \in Arriving),
         t = "listener" /\ p = "handle" => at[c][t] \in Arriving,
         t = "listener" /\ p = "add" => unloggedRequests[c] = <<>>,
         t = "sender" => p \notin {"send log", "send"},
         p \notin {"log", "close log"},
         closed' \in [Calls -> BOOLEAN],
         sent' \in [Calls -> SUBSET Nat],
         \A d \in Calls \ {c} : sent'[d] = sent[d],
         sent'[c] \subseteq 1..MaxResponses[c],
         shouldFailClose => sent'[c] \subseteq filed[c]
  PROVE  GoodStep(c)
<1>0. Shape /\ CallInv(c) /\ MaxMessages[c] \in Nat /\ received[c] \in Nat
  BY Bounds DEF IInv, Shape
<1>2. /\ at' \in [Calls -> [Threads -> Places]] /\ hand' \in [Calls -> [Threads -> Nat]]
      /\ at'[c][t] = p /\ hand'[c][t] = 0
      /\ \A u \in Threads \ {t} : at'[c][u] = at[c][u] /\ hand'[c][u] = hand[c][u]
      /\ \A d \in Calls \ {c} : at'[d] = at[d] /\ hand'[d] = hand[d]
  <2>1. at \in [Calls -> [Threads -> Places]] /\ hand \in [Calls -> [Threads -> Nat]]
    BY <1>0 DEF Shape
  <2> QED
    BY <2>1 DEF Goto
<1>3. UNCHANGED <<mode, input, stage, starts, lookupVars>>
  BY DEF Goto
<1>4. Shape'
  BY <1>0, <1>2, <1>3 DEF Shape, lookupVars
<1>5. \A u \in Threads : hand'[c][u] = hand[c][u]
  BY <1>2
<1>6. at'[c]["listener"] \in Arriving <=> at[c]["listener"] \in Arriving
  BY <1>2 DEF Threads
<1>7. Conserved(c)'
  BY <1>0, <1>5, <1>6 DEF CallInv, Conserved, Added, Waiting, Threads
<1>8. HandOf(c, "listener")' /\ HandOf(c, "sender")'
  BY <1>0, <1>2 DEF CallInv, HandOf, Threads
<1>9. Deque(c)'
  BY <1>0, <1>2 DEF CallInv, Deque, Threads
<1>10. Numbers(c)'
  BY <1>0, <1>2 DEF CallInv, Numbers, Threads, Arriving
<1>11. FiledFirst(c)'
  BY <1>0, <1>2, <1>3 DEF CallInv, FiledFirst, shouldFailClose, Threads
<1>12. Newest(c)'
  BY <1>0, <1>5 DEF CallInv, Newest, Waiting, Threads
<1> QED
  BY <1>2, <1>3, <1>4, <1>7, <1>8, <1>9, <1>10, <1>11, <1>12 DEF GoodStep, CallInv, Untouched

(* A request moves from the deque to a hand, and from a hand to the log.    *)
LEMMA Transfer ==
  ASSUME NEW n \in Nat, NEW r \in 1..n, NEW w, NEW h, NEW a \in Nat
  PROVE  /\ r # 0
         /\ OnePlace(r, w, 0, h, a) => OnePlace(r, 0, w, h, a)
         /\ NoPlace(r, w, 0, h, a) => NoPlace(r, 0, w, h, a)
         /\ OnePlace(r, w, h, 0, a) => OnePlace(r, 0, h, w, a)
         /\ NoPlace(r, w, h, 0, a) => NoPlace(r, 0, h, w, a)
<1>1. r # 0
  OBVIOUS
<1> QED
  BY <1>1, Zenon DEF OnePlace, NoPlace

LEMMA Logged ==
  ASSUME NEW n \in Nat, NEW r \in 1..n, NEW w, NEW l, NEW s, NEW a \in Nat
  PROVE  /\ OnePlace(r, w, l, s, a) => OnePlace(r, w, 0, s, IF r = l THEN a + 1 ELSE a)
         /\ NoPlace(r, w, l, s, a) => NoPlace(r, w, 0, s, IF r = l THEN a + 1 ELSE a)
         /\ OnePlace(r, w, l, s, a) => OnePlace(r, w, l, 0, IF r = s THEN a + 1 ELSE a)
         /\ NoPlace(r, w, l, s, a) => NoPlace(r, w, l, 0, IF r = s THEN a + 1 ELSE a)
<1>1. r # 0
  OBVIOUS
<1>2. 0 + 1 = 1
  OBVIOUS
<1> QED
  BY <1>1, <1>2, Zenon DEF OnePlace, NoPlace

LEMMA UpTo ==
  ASSUME NEW n \in Nat
  PROVE  0 \in 0..n /\ \A x \in 0..n : x \in Nat
OBVIOUS

(* A thread polls the deque, at either end.                                *)
Polls(c, t, p) ==
  /\ TakeFirst(c) \/ TakeLast(c)
  /\ Goto(c, t, p, Waiting(c))
  /\ UNCHANGED <<received, audited, filed, sent, closed>>
  /\ hand[c][t] = 0
  /\ t = "listener" => (p \in Arriving <=> at[c][t] \in Arriving)
  /\ p \notin {"handle", "send"}
  /\ p \in {"log", "close log"} => Waiting(c) # 0
  /\ Waiting(c) # 0 => p \in {"log", "close log", "send log"}
  /\ responses' \in [Calls -> Nat]
  /\ \A d \in Calls \ {c} : responses'[d] = responses[d]
  /\ responses'[c] <= MaxResponses[c]
  /\ t = "listener" => responses'[c] = responses[c]
  /\ p = "send log" => responses'[c] # 0

LEMMA PollStep ==
  ASSUME IInv, NEW c \in Calls, NEW t \in Threads, NEW p \in Places, Polls(c, t, p)
  PROVE  GoodStep(c)
<1>0. Shape /\ CallInv(c) /\ MaxMessages[c] \in Nat /\ received[c] \in Nat
  BY Bounds DEF IInv, Shape
<1>1. /\ Waiting(c) \in 0..MaxMessages[c] /\ Waiting(c)' = 0
      /\ unloggedRequests' \in [Calls -> Seq(Nat)] /\ unloggedRequests'[c] = <<>>
      /\ \A d \in Calls \ {c} : unloggedRequests'[d] = unloggedRequests[d]
  BY <1>0, PollFacts DEF CallInv, Polls
<1> DEFINE w == Waiting(c)
<1>2. /\ at' \in [Calls -> [Threads -> Places]] /\ hand' \in [Calls -> [Threads -> Nat]]
      /\ at'[c][t] = p /\ hand'[c][t] = w
      /\ \A u \in Threads \ {t} : at'[c][u] = at[c][u] /\ hand'[c][u] = hand[c][u]
      /\ \A d \in Calls \ {c} : at'[d] = at[d] /\ hand'[d] = hand[d]
  <2>1. at \in [Calls -> [Threads -> Places]] /\ hand \in [Calls -> [Threads -> Nat]]
    BY <1>0 DEF Shape
  <2>2. w \in Nat
    BY <1>0, <1>1, UpTo, Zenon
  <2>3. Goto(c, t, p, w)
    BY DEF Polls
  <2> HIDE DEF w
  <2> QED
    BY <2>1, <2>2, <2>3 DEF Goto
<1>3. UNCHANGED <<mode, input, stage, starts, lookupVars>>
  BY DEF Goto, Polls
<1>4. Shape'
  BY <1>0, <1>1, <1>2, <1>3 DEF Shape, lookupVars, Polls
<1>5. at'[c]["listener"] \in Arriving <=> at[c]["listener"] \in Arriving
  BY <1>2 DEF Threads, Polls
<1>6. ASSUME NEW r \in 1..MaxMessages[c] PROVE Added(c, r)' <=> Added(c, r)
  BY <1>5 DEF Added, Polls
<1>7. Conserved(c)'
  <2> SUFFICES ASSUME NEW r \in 1..MaxMessages[c]
               PROVE  (IF Added(c, r)
                       THEN OnePlace(r, Waiting(c), hand[c]["listener"], hand[c]["sender"],
                                     audited[c][r])
                       ELSE NoPlace(r, Waiting(c), hand[c]["listener"], hand[c]["sender"],
                                    audited[c][r]))'
    BY DEF Conserved
  <2>1. audited[c][r] \in Nat /\ audited'[c][r] = audited[c][r]
    BY <1>0 DEF Shape, Polls
  <2>2. IF Added(c, r)
        THEN OnePlace(r, w, hand[c]["listener"], hand[c]["sender"], audited[c][r])
        ELSE NoPlace(r, w, hand[c]["listener"], hand[c]["sender"], audited[c][r])
    BY <1>0 DEF CallInv, Conserved
  <2>3. CASE t = "listener"
    <3>1. /\ hand[c]["listener"] = 0 /\ hand'[c]["listener"] = w
          /\ hand'[c]["sender"] = hand[c]["sender"]
      BY <1>2, <2>3 DEF Threads, Polls
    <3>2. /\ OnePlace(r, w, 0, hand[c]["sender"], audited[c][r])
               => OnePlace(r, 0, w, hand[c]["sender"], audited[c][r])
          /\ NoPlace(r, w, 0, hand[c]["sender"], audited[c][r])
               => NoPlace(r, 0, w, hand[c]["sender"], audited[c][r])
      BY <1>0, <2>1, Transfer, Zenon
    <3> QED
      BY <1>1, <1>6, <2>1, <2>2, <3>1, <3>2
  <2>4. CASE t = "sender"
    <3>1. /\ hand[c]["sender"] = 0 /\ hand'[c]["sender"] = w
          /\ hand'[c]["listener"] = hand[c]["listener"]
      BY <1>2, <2>4 DEF Threads, Polls
    <3>2. /\ OnePlace(r, w, hand[c]["listener"], 0, audited[c][r])
               => OnePlace(r, 0, hand[c]["listener"], w, audited[c][r])
          /\ NoPlace(r, w, hand[c]["listener"], 0, audited[c][r])
               => NoPlace(r, 0, hand[c]["listener"], w, audited[c][r])
      BY <1>0, <2>1, Transfer, Zenon
    <3> QED
      BY <1>1, <1>6, <2>1, <2>2, <3>1, <3>2
  <2> QED
    BY <2>3, <2>4 DEF Threads
<1>8. HandOf(c, "listener")' /\ HandOf(c, "sender")'
  BY <1>0, <1>1, <1>2 DEF CallInv, HandOf, Threads, Polls
<1>9. Deque(c)'
  BY <1>1 DEF Deque
<1>10. Numbers(c)'
  <2>1. CASE t = "listener"
    BY <1>0, <1>2, <1>5, <2>1 DEF CallInv, Numbers, Threads, Polls
  <2>2. CASE t = "sender"
    BY <1>0, <1>2, <2>2 DEF CallInv, Numbers, Threads, Polls
  <2> QED
    BY <2>1, <2>2 DEF Threads
<1>11. FiledFirst(c)'
  BY <1>0, <1>2, <1>3 DEF CallInv, FiledFirst, shouldFailClose, Threads, Polls
<1>12. Newest(c)'
  BY <1>1 DEF Newest
<1> QED
  BY <1>1, <1>2, <1>3, <1>4, <1>7, <1>8, <1>9, <1>10, <1>11, <1>12
     DEF GoodStep, CallInv, Untouched, Polls

(* A thread gives the request in its hand to auditLog.                     *)
Logs(c, t, p) ==
  /\ Given(c, hand[c][t])
  /\ Goto(c, t, p, 0)
  /\ UNCHANGED <<unloggedRequests, received, responses, sent>>
  /\ t = "listener" => (p \in Arriving <=> at[c][t] \in Arriving)
  /\ p \notin {"add", "handle", "log", "close log", "send log"}
  /\ p = "send" => t = "sender" /\ at[c][t] = "send log"
  /\ closed' \in [Calls -> BOOLEAN]
  /\ filed' \in [Calls -> SUBSET Nat]
  /\ \A d \in Calls \ {c} : filed'[d] = filed[d]
  /\ filed[c] \subseteq filed'[c] /\ filed'[c] \subseteq 1..MaxResponses[c]
  /\ p = "send" /\ shouldFailClose => responses[c] \in filed'[c]

LEMMA LogStep ==
  ASSUME IInv, NEW c \in Calls, NEW t \in Threads, NEW p \in Places, Logs(c, t, p)
  PROVE  GoodStep(c)
<1>0. Shape /\ CallInv(c) /\ MaxMessages[c] \in Nat /\ received[c] \in Nat
      /\ hand[c][t] \in 0..MaxMessages[c]
  BY Bounds DEF IInv, Shape, CallInv, HandOf, Threads
<1>1. /\ audited' \in [Calls -> UNION {[1..MaxMessages[d] -> Nat] : d \in Calls}]
      /\ \A d \in Calls : audited'[d] \in [1..MaxMessages[d] -> Nat]
      /\ \A q \in 1..MaxMessages[c] :
           audited'[c][q] = IF q = hand[c][t] THEN audited[c][q] + 1 ELSE audited[c][q]
      /\ \A d \in Calls \ {c} : audited'[d] = audited[d]
  BY <1>0, GivenFacts DEF Logs
<1>2. /\ at' \in [Calls -> [Threads -> Places]] /\ hand' \in [Calls -> [Threads -> Nat]]
      /\ at'[c][t] = p /\ hand'[c][t] = 0
      /\ \A u \in Threads \ {t} : at'[c][u] = at[c][u] /\ hand'[c][u] = hand[c][u]
      /\ \A d \in Calls \ {c} : at'[d] = at[d] /\ hand'[d] = hand[d]
  <2>1. at \in [Calls -> [Threads -> Places]] /\ hand \in [Calls -> [Threads -> Nat]]
    BY <1>0 DEF Shape
  <2>2. Goto(c, t, p, 0)
    BY DEF Logs
  <2> QED
    BY <2>1, <2>2 DEF Goto
<1>3. UNCHANGED <<mode, input, stage, starts, lookupVars>>
  BY DEF Goto, Logs
<1>4. Shape'
  BY <1>0, <1>1, <1>2, <1>3 DEF Shape, lookupVars, Logs
<1>5. at'[c]["listener"] \in Arriving <=> at[c]["listener"] \in Arriving
  BY <1>2 DEF Threads, Logs
<1>6. ASSUME NEW r \in 1..MaxMessages[c] PROVE Added(c, r)' <=> Added(c, r)
  BY <1>5 DEF Added, Logs
<1>7. Conserved(c)'
  <2> SUFFICES ASSUME NEW r \in 1..MaxMessages[c]
               PROVE  (IF Added(c, r)
                       THEN OnePlace(r, Waiting(c), hand[c]["listener"], hand[c]["sender"],
                                     audited[c][r])
                       ELSE NoPlace(r, Waiting(c), hand[c]["listener"], hand[c]["sender"],
                                    audited[c][r]))'
    BY DEF Conserved
  <2> DEFINE w == Waiting(c)
             l == hand[c]["listener"]
             s == hand[c]["sender"]
             a == audited[c][r]
  <2>1. a \in Nat /\ Waiting(c)' = w
    BY <1>0 DEF Waiting, Shape, Logs
  <2>2. IF Added(c, r) THEN OnePlace(r, w, l, s, a) ELSE NoPlace(r, w, l, s, a)
    BY <1>0 DEF CallInv, Conserved
  <2>3. audited'[c][r] = IF r = hand[c][t] THEN a + 1 ELSE a
    BY <1>1
  <2>4. CASE t = "listener"
    <3>1. hand'[c]["listener"] = 0 /\ hand'[c]["sender"] = s
      BY <1>2, <2>4 DEF Threads
    <3>2. /\ OnePlace(r, w, l, s, a) => OnePlace(r, w, 0, s, IF r = l THEN a + 1 ELSE a)
          /\ NoPlace(r, w, l, s, a) => NoPlace(r, w, 0, s, IF r = l THEN a + 1 ELSE a)
      BY <1>0, <2>1, Logged, Zenon
    <3> QED
      BY <1>6, <2>1, <2>2, <2>3, <2>4, <3>1, <3>2
  <2>5. CASE t = "sender"
    <3>1. hand'[c]["sender"] = 0 /\ hand'[c]["listener"] = l
      BY <1>2, <2>5 DEF Threads
    <3>2. /\ OnePlace(r, w, l, s, a) => OnePlace(r, w, l, 0, IF r = s THEN a + 1 ELSE a)
          /\ NoPlace(r, w, l, s, a) => NoPlace(r, w, l, 0, IF r = s THEN a + 1 ELSE a)
      BY <1>0, <2>1, Logged, Zenon
    <3> QED
      BY <1>6, <2>1, <2>2, <2>3, <2>5, <3>1, <3>2
  <2> QED
    BY <2>4, <2>5 DEF Threads
<1>8. HandOf(c, "listener")' /\ HandOf(c, "sender")'
  <2>1. 0 \in 0..MaxMessages[c]
    BY <1>0, UpTo, Zenon
  <2>2. p \notin {"log", "close log"}
    BY DEF Logs
  <2>3. HandOf(c, "listener") /\ HandOf(c, "sender")
    BY <1>0 DEF CallInv
  <2> QED
    BY <1>2, <2>1, <2>2, <2>3 DEF HandOf, Threads
<1>9. Deque(c)'
  BY <1>0, <1>2 DEF CallInv, Deque, Threads, Logs
<1>10. Numbers(c)'
  <2>1. CASE t = "listener"
    BY <1>0, <1>2, <1>5, <2>1 DEF CallInv, Numbers, Threads, Logs
  <2>2. CASE t = "sender"
    BY <1>0, <1>2, <2>2 DEF CallInv, Numbers, Threads, Logs
  <2> QED
    BY <2>1, <2>2 DEF Threads
<1>11. FiledFirst(c)'
  BY <1>0, <1>2, <1>3 DEF CallInv, FiledFirst, shouldFailClose, Threads, Logs
<1>12. Newest(c)'
  <2>1. Waiting(c)' = Waiting(c)
    BY DEF Waiting, Logs
  <2>2. \A u \in Threads : hand'[c][u] \in {0, hand[c][u]}
    BY <1>2
  <2>3. Waiting(c) \in 0..MaxMessages[c]
    BY <1>0, PollFacts DEF CallInv
  <2>4. Waiting(c) # 0 => 0 < Waiting(c)
    BY <1>0, <2>3
  <2> QED
    BY <1>0, <2>1, <2>2, <2>4 DEF CallInv, Newest, Threads
<1> QED
  BY <1>1, <1>2, <1>3, <1>4, <1>7, <1>8, <1>9, <1>10, <1>11, <1>12
     DEF GoodStep, CallInv, Untouched, Logs

(* The new message is added to a deque that is empty.                      *)
LEMMA AddStep ==
  ASSUME IInv, NEW c \in Calls, AddMessage(c)
  PROVE  GoodStep(c)
<1>0. Shape /\ CallInv(c) /\ MaxMessages[c] \in Nat /\ received[c] \in Nat
      /\ unloggedRequests \in [Calls -> Seq(Nat)]
  BY Bounds DEF IInv, Shape
<1>1. /\ at[c]["listener"] = "add" /\ Goto(c, "listener", "handle", 0)
      /\ UNCHANGED <<received, audited, responses, filed, sent, closed>>
      /\ unloggedRequests' = [unloggedRequests EXCEPT ![c] = Append(@, received[c])]
  BY DEF AddMessage
<1>2. unloggedRequests[c] = <<>> /\ hand[c]["listener"] = 0
  BY <1>0, <1>1 DEF CallInv, Deque, HandOf
<1>n. received[c] \in 1..MaxMessages[c]
  <2>1. received[c] <= MaxMessages[c] /\ received[c] # 0
    BY <1>0, <1>1 DEF CallInv, Numbers, Arriving
  <2>2. received[c] \in Nat /\ MaxMessages[c] \in Nat
    BY <1>0
  <2> QED
    BY <2>1, <2>2
<1>3. Append(<<>>, received[c]) = <<received[c]>>
  BY <1>0
<1>4. /\ unloggedRequests' \in [Calls -> Seq(Nat)]
      /\ unloggedRequests'[c] = <<received[c]>>
      /\ \A d \in Calls \ {c} : unloggedRequests'[d] = unloggedRequests[d]
  BY <1>0, <1>1, <1>2, <1>3
<1>5. Waiting(c) = 0 /\ Waiting(c)' = received[c]
  <2>1. <<received[c]>> # <<>> /\ <<received[c]>>[1] = received[c]
    OBVIOUS
  <2> QED
    BY <1>2, <1>4, <2>1 DEF Waiting
<1>6. /\ at' \in [Calls -> [Threads -> Places]] /\ hand' \in [Calls -> [Threads -> Nat]]
      /\ at'[c]["listener"] = "handle" /\ hand'[c]["listener"] = 0
      /\ at'[c]["sender"] = at[c]["sender"] /\ hand'[c]["sender"] = hand[c]["sender"]
      /\ \A d \in Calls \ {c} : at'[d] = at[d] /\ hand'[d] = hand[d]
      /\ UNCHANGED <<mode, input, stage, starts, lookupVars>>
  <2>1. "handle" \in Places /\ 0 \in Nat
    BY DEF Places
  <2> QED
    BY <1>0, <1>1, <2>1, GotoListener, Zenon
<1>7. Shape'
  BY <1>0, <1>1, <1>4, <1>6 DEF Shape, lookupVars
<1>8. Conserved(c)'
  <2> SUFFICES ASSUME NEW r \in 1..MaxMessages[c]
               PROVE  (IF Added(c, r)
                       THEN OnePlace(r, Waiting(c), hand[c]["listener"], hand[c]["sender"],
                                     audited[c][r])
                       ELSE NoPlace(r, Waiting(c), hand[c]["listener"], hand[c]["sender"],
                                    audited[c][r]))'
    BY DEF Conserved
  <2>1. r # 0
    <3>1. ASSUME NEW n \in Nat, NEW x \in 1..n PROVE x # 0
      OBVIOUS
    <3> QED
      BY <1>0, <3>1
  <2>2. IF Added(c, r)
        THEN OnePlace(r, 0, 0, hand[c]["sender"], audited[c][r])
        ELSE NoPlace(r, 0, 0, hand[c]["sender"], audited[c][r])
    BY <1>0, <1>2, <1>5 DEF CallInv, Conserved
  <2>3. /\ Added(c, r) <=> r < received[c]
        /\ Added(c, r)' <=> r < received[c] \/ r = received[c]
        /\ r < received[c] => r # received[c]
    BY <1>0, <1>1, <1>6 DEF Added, Arriving
  <2>4. audited'[c][r] = audited[c][r]
    BY <1>1
  <2> QED
    BY <1>5, <1>6, <2>1, <2>2, <2>3, <2>4 DEF OnePlace, NoPlace
<1>9. HandOf(c, "listener")' /\ HandOf(c, "sender")'
  <2>1. 0 \in 0..MaxMessages[c]
    BY <1>0, UpTo, Zenon
  <2>2. HandOf(c, "sender")
    BY <1>0 DEF CallInv
  <2> QED
    BY <1>6, <2>1, <2>2 DEF HandOf
<1>10. Deque(c)'
  BY <1>n, <1>4, <1>6 DEF Deque
<1>11. Numbers(c)'
  <2>1. Numbers(c) /\ received[c] # 0
    BY <1>0, <1>1 DEF CallInv, Numbers, Arriving
  <2> QED
    BY <1>1, <1>6, <2>1 DEF Numbers
<1>12. FiledFirst(c)'
  BY <1>0, <1>1, <1>6 DEF CallInv, FiledFirst, shouldFailClose
<1>13. Newest(c)'
  <2> DEFINE s == hand[c]["sender"]
  <2>1. s \in 0..MaxMessages[c]
    BY <1>0 DEF CallInv, HandOf
  <2>2. CASE s = 0
    BY <1>n, <1>5, <1>6, <2>2 DEF Newest
  <2>3. CASE s # 0
    <3>1. s \in 1..MaxMessages[c]
      BY <1>0, <2>1, <2>3
    <3>2. Added(c, s)
      BY <1>0, <3>1 DEF CallInv, Conserved, NoPlace
    <3>3. s < received[c]
      BY <1>1, <3>2 DEF Added, Arriving
    <3> QED
      BY <1>5, <1>6, <3>3 DEF Newest
  <2> QED
    BY <2>2, <2>3
<1> QED
  BY <1>1, <1>4, <1>6, <1>7, <1>8, <1>9, <1>10, <1>11, <1>12, <1>13 DEF GoodStep, CallInv, Untouched

-----------------------------------------------------------------------------
(* The actions of a running call.                                          *)

(* A thread that is not about to log has empty hands.                      *)
LEMMA EmptyHand ==
  ASSUME NEW c \in Calls, CallInv(c), NEW t \in Threads,
         at[c][t] \notin {"log", "close log", "send log"}
  PROVE  hand[c][t] = 0
BY DEF CallInv, HandOf, Threads

LEMMA NumberTypes ==
  ASSUME IInv, NEW c \in Calls
  PROVE  /\ responses \in [Calls -> Nat] /\ responses[c] \in Nat
         /\ closed \in [Calls -> BOOLEAN]
         /\ filed \in [Calls -> SUBSET Nat] /\ sent \in [Calls -> SUBSET Nat]
         /\ MaxResponses[c] \in Nat /\ responses[c] <= MaxResponses[c]
         /\ filed[c] \subseteq 1..MaxResponses[c] /\ sent[c] \subseteq 1..MaxResponses[c]
         /\ shouldFailClose => sent[c] \subseteq filed[c]
BY Bounds DEF IInv, Shape, CallInv, Numbers, FiledFirst

LEMMA DrainStep ==
  ASSUME IInv, NEW c \in Calls, Drain(c)
  PROVE  GoodStep(c)
<1>0. CallInv(c) /\ Shape /\ Deque(c) /\ "listener" \in Threads
  BY DEF IInv, CallInv, Threads
<1>1. CASE IsEmpty(c)
  <2> DEFINE p == IF unloggedRequests[c] = <<>> THEN "add" ELSE "poll"
  <2>1. /\ at[c]["listener"] = "check" /\ Goto(c, "listener", p, 0)
        /\ UNCHANGED <<unloggedRequests, received, audited, responses, filed, sent, closed>>
    BY <1>1 DEF IsEmpty
  <2>2. hand[c]["listener"] = 0
    BY <1>0, <2>1, EmptyHand
  <2>3. /\ p \in Places /\ p \in Arriving /\ "check" \in Arriving
        /\ p \notin {"handle", "log", "close log"}
        /\ p = "add" => unloggedRequests[c] = <<>>
    BY DEF Places, Arriving
  <2> HIDE DEF p
  <2> QED
    BY <1>0, <2>1, <2>2, <2>3, NumberTypes, MoveStep
<1>2. CASE PollOldest(c)
  <2> DEFINE p == IF Waiting(c) = 0 THEN "check" ELSE "log"
  <2>1. pollFirst(c) = Waiting(c)
    BY <1>0, PollFacts
  <2>2. /\ at[c]["listener"] = "poll" /\ TakeFirst(c) /\ Goto(c, "listener", p, Waiting(c))
        /\ UNCHANGED <<received, audited, responses, filed, sent, closed>>
    BY <1>2, <2>1 DEF PollOldest
  <2>3. hand[c]["listener"] = 0
    BY <1>0, <2>2, EmptyHand
  <2>4. /\ p \in Places /\ p \in Arriving /\ "poll" \in Arriving
        /\ p \notin {"handle", "send", "close log", "send log"}
        /\ p = "log" <=> Waiting(c) # 0
    BY DEF Places, Arriving
  <2> HIDE DEF p
  <2>5. Polls(c, "listener", p)
    BY <2>2, <2>3, <2>4, NumberTypes DEF Polls
  <2> QED
    BY <1>0, <2>4, <2>5, PollStep
<1>3. CASE LogWaiting(c)
  <2>1. PICK result \in auditLog(c, hand[c]["listener"], FALSE) :
          IF result = "thrown"
          THEN Goto(c, "listener", "dead", 0) /\ closed' = [closed EXCEPT ![c] = TRUE]
          ELSE Goto(c, "listener", "check", 0) /\ UNCHANGED closed
    BY <1>3 DEF LogWaiting
  <2>2. /\ at[c]["listener"] = "log" /\ Given(c, hand[c]["listener"])
        /\ UNCHANGED <<unloggedRequests, received, responses, filed, sent>>
    BY <1>3 DEF LogWaiting
  <2>3. "dead" \in Places /\ "check" \in Places /\ {"dead", "check", "log"} \subseteq Arriving
    BY DEF Places, Arriving
  <2>4. closed' \in [Calls -> BOOLEAN]
    BY <2>1, NumberTypes
  <2>5. Logs(c, "listener", "dead") \/ Logs(c, "listener", "check")
    BY <2>1, <2>2, <2>3, <2>4, NumberTypes DEF Logs
  <2> QED
    BY <1>0, <2>3, <2>5, LogStep
<1> QED
  BY <1>1, <1>2, <1>3, AddStep DEF Drain

LEMMA HandlerStep ==
  ASSUME IInv, NEW c \in Calls, HandlerReturns(c) \/ closeWithException(c)
  PROVE  GoodStep(c)
<1>0. CallInv(c) /\ "listener" \in Threads
  BY DEF IInv, Threads
<1>1. PICK p \in {"idle", "close poll", "close"} : Goto(c, "listener", p, 0)
  BY DEF HandlerReturns, closeWithException
<1>2. /\ at[c]["listener"] \in {"idle", "handle"}
      /\ UNCHANGED <<unloggedRequests, received, audited, responses, filed, sent, closed>>
  BY DEF HandlerReturns, closeWithException, Idle
<1>3. hand[c]["listener"] = 0
  BY <1>0, <1>2, EmptyHand
<1>4. p \in Places /\ p \notin Arriving /\ at[c]["listener"] \notin Arriving
  BY <1>2 DEF Places, Arriving
<1> QED
  BY <1>0, <1>1, <1>2, <1>3, <1>4, NumberTypes, MoveStep

LEMMA SenderStep ==
  ASSUME IInv, NEW c \in Calls, SendMessage(c) \/ Sending(c) \/ Close(c)
  PROVE  GoodStep(c)
<1>0. CallInv(c) /\ Shape /\ Deque(c) /\ "sender" \in Threads
  BY DEF IInv, CallInv, Threads
<1>1. CASE SendMessage(c)
  <2>1. pollLast(c) = Waiting(c)
    BY <1>0, PollFacts
  <2>2. /\ at[c]["sender"] = "idle" /\ TakeLast(c) /\ Goto(c, "sender", "send log", Waiting(c))
        /\ responses[c] < MaxResponses[c]
        /\ responses' = [responses EXCEPT ![c] = @ + 1]
        /\ UNCHANGED <<received, audited, filed, sent, closed>>
    BY <1>1, <2>1 DEF SendMessage, Idle
  <2>3. hand[c]["sender"] = 0
    BY <1>0, <2>2, EmptyHand
  <2>4. /\ responses' \in [Calls -> Nat] /\ responses'[c] = responses[c] + 1
        /\ \A d \in Calls \ {c} : responses'[d] = responses[d]
    <3>1. responses \in [Calls -> Nat] /\ responses[c] \in Nat
      BY NumberTypes
    <3>2. responses[c] + 1 \in Nat
      BY <3>1
    <3>3. responses' = [responses EXCEPT ![c] = responses[c] + 1]
      BY <2>2
    <3> QED
      BY <3>1, <3>2, <3>3
  <2>5. responses'[c] <= MaxResponses[c] /\ responses'[c] # 0
    <3>1. responses[c] \in Nat /\ MaxResponses[c] \in Nat
      BY NumberTypes
    <3>2. responses[c] < MaxResponses[c] /\ responses'[c] = responses[c] + 1
      BY <2>2, <2>4
    <3> QED
      BY <3>1, <3>2
  <2>6. Polls(c, "sender", "send log")
    BY <2>2, <2>3, <2>4, <2>5 DEF Polls
  <2>7. "send log" \in Places
    BY DEF Places
  <2> QED
    BY <1>0, <2>6, <2>7, PollStep
<1>2. CASE SendLog(c)
  <2>1. PICK result \in auditLog(c, hand[c]["sender"], TRUE) :
          /\ Goto(c, "sender", IF result = "thrown" THEN "idle" ELSE "send", 0)
          /\ filed' = [filed EXCEPT ![c] = IF result \in {"stored", "dropped"}
                                           THEN @ \cup {responses[c]} ELSE @]
    BY <1>2 DEF SendLog
  <2>2. /\ at[c]["sender"] = "send log" /\ Given(c, hand[c]["sender"])
        /\ UNCHANGED <<unloggedRequests, received, responses, sent, closed>>
    BY <1>2 DEF SendLog
  <2> DEFINE p == IF result = "thrown" THEN "idle" ELSE "send"
  <2>3. shouldFailClose => result \in {"thrown", "stored", "dropped"}
    BY <2>1 DEF auditLog
  <2>4. responses[c] \in 1..MaxResponses[c]
    <3>1. responses[c] # 0
      BY <1>0, <2>2 DEF CallInv, Numbers
    <3>2. responses[c] \in Nat /\ MaxResponses[c] \in Nat /\ responses[c] <= MaxResponses[c]
      BY NumberTypes
    <3> QED
      BY <3>1, <3>2
  <2>5. /\ filed' \in [Calls -> SUBSET Nat]
        /\ filed'[c] = IF result \in {"stored", "dropped"}
                       THEN filed[c] \cup {responses[c]} ELSE filed[c]
        /\ \A d \in Calls \ {c} : filed'[d] = filed[d]
    BY <2>1, NumberTypes
  <2>6. /\ filed[c] \subseteq filed'[c] /\ filed'[c] \subseteq 1..MaxResponses[c]
        /\ p = "send" /\ shouldFailClose => responses[c] \in filed'[c]
    BY <2>3, <2>4, <2>5, NumberTypes
  <2>7. p \in Places /\ p \in {"idle", "send"}
    BY DEF Places
  <2>8. Goto(c, "sender", p, 0)
    BY <2>1
  <2> HIDE DEF p
  <2>9. Logs(c, "sender", p)
    BY <2>2, <2>5, <2>6, <2>7, <2>8, NumberTypes DEF Logs
  <2> QED
    BY <1>0, <2>7, <2>9, LogStep
<1>3. CASE SuperSend(c)
  <2>1. /\ at[c]["sender"] = "send" /\ Goto(c, "sender", "idle", 0)
        /\ sent' = [sent EXCEPT ![c] = IF closed[c] THEN @ ELSE @ \cup {responses[c]}]
        /\ UNCHANGED <<unloggedRequests, received, audited, responses, filed, closed>>
    BY <1>3 DEF SuperSend
  <2>2. hand[c]["sender"] = 0
    BY <1>0, <2>1, EmptyHand
  <2>3. responses[c] # 0 /\ (shouldFailClose => responses[c] \in filed[c])
    BY <1>0, <2>1 DEF CallInv, Numbers, FiledFirst
  <2>4. responses[c] \in 1..MaxResponses[c]
    <3>1. responses[c] \in Nat /\ MaxResponses[c] \in Nat /\ responses[c] <= MaxResponses[c]
      BY NumberTypes
    <3> QED
      BY <2>3, <3>1
  <2>5. /\ sent' \in [Calls -> SUBSET Nat]
        /\ sent'[c] \in {sent[c], sent[c] \cup {responses[c]}}
        /\ \A d \in Calls \ {c} : sent'[d] = sent[d]
    BY <2>1, NumberTypes
  <2>6. sent'[c] \subseteq 1..MaxResponses[c] /\ (shouldFailClose => sent'[c] \subseteq filed[c])
    BY <2>3, <2>4, <2>5, NumberTypes
  <2>7. "idle" \in Places
    BY DEF Places
  <2> QED
    BY <1>0, <2>1, <2>2, <2>5, <2>6, <2>7, NumberTypes, MoveStep
<1>4. CASE Close(c)
  <2>1. PICK p \in {"close poll", "close"} : Goto(c, "sender", p, 0)
    BY <1>4 DEF Close
  <2>2. /\ at[c]["sender"] = "idle"
        /\ UNCHANGED <<unloggedRequests, received, audited, responses, filed, sent, closed>>
    BY <1>4 DEF Close, Idle
  <2>3. hand[c]["sender"] = 0
    BY <1>0, <2>2, EmptyHand
  <2>4. p \in Places
    BY DEF Places
  <2> QED
    BY <1>0, <2>1, <2>2, <2>3, <2>4, NumberTypes, MoveStep
<1> QED
  BY <1>1, <1>2, <1>3, <1>4 DEF Sending

LEMMA ClosingStep ==
  ASSUME IInv, NEW c \in Calls, NEW t \in Threads, Closing(c, t)
  PROVE  GoodStep(c)
<1>0. CallInv(c) /\ Shape /\ Deque(c)
  BY DEF IInv, CallInv
<1>1. CASE ClosePoll(c, t)
  <2> DEFINE p == IF Waiting(c) = 0 THEN "close" ELSE "close log"
  <2>1. pollFirst(c) = Waiting(c)
    BY <1>0, PollFacts
  <2>2. /\ at[c][t] = "close poll" /\ TakeFirst(c) /\ Goto(c, t, p, Waiting(c))
        /\ UNCHANGED <<received, audited, responses, filed, sent, closed>>
    BY <1>1, <2>1 DEF ClosePoll
  <2>3. hand[c][t] = 0
    BY <1>0, <2>2, EmptyHand
  <2>4. /\ p \in Places /\ p \notin Arriving /\ "close poll" \notin Arriving
        /\ p \notin {"handle", "send", "log", "send log"}
        /\ p = "close log" <=> Waiting(c) # 0
    BY DEF Places, Arriving
  <2> HIDE DEF p
  <2>5. Polls(c, t, p)
    BY <2>2, <2>3, <2>4, NumberTypes DEF Polls
  <2> QED
    BY <1>0, <2>4, <2>5, PollStep
<1>2. CASE CloseLog(c, t)
  <2>1. PICK result \in auditLog(c, hand[c][t], FALSE) :
          IF result # "thrown" THEN Goto(c, t, "close", 0) /\ UNCHANGED closed
          ELSE /\ Goto(c, t, "idle", 0)
               /\ closed' = IF t = "sender" THEN closed ELSE [closed EXCEPT ![c] = TRUE]
    BY <1>2 DEF CloseLog
  <2>2. /\ at[c][t] = "close log" /\ Given(c, hand[c][t])
        /\ UNCHANGED <<unloggedRequests, received, responses, filed, sent>>
    BY <1>2 DEF CloseLog
  <2>3. /\ "close" \in Places /\ "idle" \in Places
        /\ "close" \notin Arriving /\ "idle" \notin Arriving /\ "close log" \notin Arriving
    BY DEF Places, Arriving
  <2>4. closed' \in [Calls -> BOOLEAN]
    BY <2>1, NumberTypes
  <2>5. Logs(c, t, "close") \/ Logs(c, t, "idle")
    BY <2>1, <2>2, <2>3, <2>4, NumberTypes DEF Logs
  <2> QED
    BY <1>0, <2>3, <2>5, LogStep
<1>3. CASE SuperClose(c, t)
  <2>1. /\ at[c][t] = "close" /\ Goto(c, t, "idle", 0)
        /\ closed' = [closed EXCEPT ![c] = TRUE]
        /\ UNCHANGED <<unloggedRequests, received, audited, responses, filed, sent>>
    BY <1>3 DEF SuperClose
  <2>2. hand[c][t] = 0
    BY <1>0, <2>1, EmptyHand
  <2>3. "idle" \in Places /\ "idle" \notin Arriving /\ "close" \notin Arriving
    BY DEF Places, Arriving
  <2>4. closed' \in [Calls -> BOOLEAN]
    BY <2>1, NumberTypes
  <2> QED
    BY <1>0, <2>1, <2>2, <2>3, <2>4, NumberTypes, MoveStep
<1> QED
  BY <1>1, <1>2, <1>3 DEF Closing

(* interceptCall, up to the start of the handler, with the memo that other *)
(* calls write at the same time.                                           *)
LEMMA InterceptStep ==
  ASSUME IInv, NEW c \in Calls, interceptCall(c)
  PROVE  IInv'
<1>0. Shape /\ MemoInv
  BY DEF IInv
<1> DEFINE m == input[c].method
<1>1. m \in Seq(STRING) /\ returnMostRelevant(m) \in 0..Len(Rules)
  BY <1>0, MethodType, SelectorType
<1>2. UNCHANGED <<mode, input, callVars>>
  BY DEF interceptCall, ContainsKey, Get, Compute, PutIfAbsent, NoSelector, FindPrincipal, Start
<1>3. ASSUME NEW d \in Calls PROVE CallInv(d)'
  <2>1. CallInv(d) /\ Untouched(d) /\ mode' = mode
    BY <1>2 DEF IInv, Untouched, callVars
  <2> QED
    BY <2>1, UntouchedInv
<1>4. /\ stage \in [Calls -> Stages] /\ choice \in [Calls -> 0..Len(Rules)]
      /\ starts \in [Calls -> Nat]
  BY <1>0 DEF Shape
<1> SUFFICES /\ stage' \in [Calls -> Stages] /\ choice' \in [Calls -> 0..Len(Rules)]
             /\ starts' \in [Calls -> Nat]
             /\ MemoInv'
  BY <1>0, <1>2, <1>3 DEF IInv, Shape, callVars
<1>5. ASSUME NEW x \in Stages, stage' = [stage EXCEPT ![c] = x]
      PROVE  stage' \in [Calls -> Stages] /\ stage'[c] = x
             /\ \A d \in Calls \ {c} : stage'[d] = stage[d]
  BY <1>4, <1>5
<1>6. CASE ContainsKey(c)
  <2>1. PICK x \in {"get", "compute"} : stage' = [stage EXCEPT ![c] = x]
    BY <1>6 DEF ContainsKey
  <2>2. UNCHANGED <<mode, input, starts, choice, memo>>
    BY <1>6 DEF ContainsKey, lookupVars
  <2>3. x \in Stages
    BY DEF Stages
  <2> QED
    BY <1>0, <1>4, <1>5, <2>1, <2>2, <2>3 DEF MemoInv
<1>7. CASE Get(c)
  <2>1. UNCHANGED <<mode, input, starts, memo>> /\ "select" \in Stages /\ "failed" \in Stages
    BY <1>7 DEF Get, Stages
  <2>2. CASE /\ m \in DOMAIN memo
             /\ choice' = [choice EXCEPT ![c] = memo[m]]
             /\ stage' = [stage EXCEPT ![c] = "select"]
    <3>1. memo[m] = returnMostRelevant(m)
      BY <1>0, <2>2 DEF MemoInv
    <3>2. /\ choice' \in [Calls -> 0..Len(Rules)] /\ choice'[c] = returnMostRelevant(m)
          /\ \A d \in Calls \ {c} : choice'[d] = choice[d]
      BY <1>1, <1>4, <2>2, <3>1
    <3> QED
      BY <1>0, <1>4, <1>5, <2>1, <2>2, <3>2 DEF MemoInv
  <2>3. CASE stage' = [stage EXCEPT ![c] = "failed"] /\ UNCHANGED choice
    BY <1>0, <1>4, <1>5, <2>1, <2>3 DEF MemoInv
  <2> QED
    BY <1>7, <2>2, <2>3 DEF Get
<1>8. CASE Compute(c)
  <2>1. /\ UNCHANGED <<mode, input, starts, memo>> /\ "putting" \in Stages
        /\ choice' = [choice EXCEPT ![c] = returnMostRelevant(m)]
        /\ stage' = [stage EXCEPT ![c] = "putting"]
    BY <1>8 DEF Compute, Stages
  <2>2. /\ choice' \in [Calls -> 0..Len(Rules)] /\ choice'[c] = returnMostRelevant(m)
        /\ \A d \in Calls \ {c} : choice'[d] = choice[d]
    BY <1>1, <1>4, <2>1
  <2> QED
    BY <1>0, <1>4, <1>5, <2>1, <2>2 DEF MemoInv
<1>9. CASE PutIfAbsent(c)
  <2> DEFINE put == [k \in DOMAIN memo \cup {m} |->
                       IF k \in DOMAIN memo THEN memo[k] ELSE choice[c]]
  <2>1. /\ UNCHANGED <<mode, input, starts, choice>> /\ "select" \in Stages
        /\ stage[c] = "putting" /\ stage' = [stage EXCEPT ![c] = "select"]
    BY <1>9 DEF PutIfAbsent, Stages
  <2>2. \A k \in DOMAIN put : put[k] = returnMostRelevant(k)
    BY <1>0, <2>1 DEF MemoInv
  <2>3. \E kept \in SUBSET DOMAIN put : memo' = [k \in kept |-> put[k]]
    BY <1>9 DEF PutIfAbsent
  <2> HIDE DEF put
  <2>4. \A k \in DOMAIN memo' : memo'[k] = returnMostRelevant(k)
    BY <2>2, <2>3
  <2> QED
    BY <1>0, <1>4, <1>5, <2>1, <2>4 DEF MemoInv
<1>10. ASSUME NEW x \in {"unaudited", "failed", "start", "running"},
              stage' = [stage EXCEPT ![c] = x],
              stage[c] \in {"select", "start"}, starts' \in [Calls -> Nat],
              UNCHANGED <<mode, input, choice, memo>>
       PROVE  /\ stage' \in [Calls -> Stages] /\ choice' \in [Calls -> 0..Len(Rules)]
              /\ starts' \in [Calls -> Nat]
              /\ MemoInv'
  <2>1. x \in Stages
    BY DEF Stages
  <2> QED
    BY <1>0, <1>4, <1>5, <1>10, <2>1 DEF MemoInv
<1>11. ASSUME NEW n \in {0, 1, 2}, starts' = [starts EXCEPT ![c] = @ + n]
       PROVE  starts' \in [Calls -> Nat]
  BY <1>4, <1>11
<1>12. CASE NoSelector(c)
  <2>1. /\ stage' = [stage EXCEPT ![c] = "unaudited"] /\ stage[c] = "select"
        /\ starts' = [starts EXCEPT ![c] = @ + 1]
        /\ UNCHANGED <<mode, input, choice, memo>>
    BY <1>12 DEF NoSelector, lookupVars
  <2> QED
    BY <1>10, <1>11, <2>1
<1>13. CASE FindPrincipal(c)
  <2>1. stage[c] = "select" /\ UNCHANGED <<mode, input, choice, memo>>
    BY <1>13 DEF FindPrincipal, lookupVars
  <2>2. CASE stage' = [stage EXCEPT ![c] = "failed"] /\ UNCHANGED starts
    BY <1>4, <1>10, <2>1, <2>2
  <2>3. CASE /\ stage' = [stage EXCEPT ![c] = "start"]
             /\ \E n \in {0, 1, 2} : starts' = [starts EXCEPT ![c] = @ + n]
    BY <1>10, <1>11, <2>1, <2>3
  <2>4. \/ stage' = [stage EXCEPT ![c] = "failed"] /\ UNCHANGED starts
        \/ /\ stage' = [stage EXCEPT ![c] = "start"]
           /\ \E n \in {0, 1, 2} : starts' = [starts EXCEPT ![c] = @ + n]
    BY <1>13 DEF FindPrincipal
  <2> QED
    BY <2>2, <2>3, <2>4
<1>14. CASE Start(c)
  <2>1. /\ stage' = [stage EXCEPT ![c] = "running"] /\ stage[c] = "start"
        /\ starts' = [starts EXCEPT ![c] = @ + 1]
        /\ UNCHANGED <<mode, input, choice, memo>>
    BY <1>14 DEF Start, lookupVars
  <2> QED
    BY <1>10, <1>11, <2>1
<1> QED
  BY <1>6, <1>7, <1>8, <1>9, <1>12, <1>13, <1>14 DEF interceptCall

LEMMA GoodStepInv ==
  ASSUME IInv, NEW c \in Calls, GoodStep(c)
  PROVE  IInv'
<1>1. MemoInv'
  BY DEF IInv, GoodStep, MemoInv, lookupVars
<1>2. ASSUME NEW d \in Calls PROVE CallInv(d)'
  <2>1. CASE d = c
    BY <2>1 DEF GoodStep
  <2>2. CASE d # c
    <3>1. CallInv(d) /\ Untouched(d) /\ mode' = mode
      BY <2>2 DEF IInv, GoodStep
    <3> QED
      BY <3>1, UntouchedInv
  <2> QED
    BY <2>1, <2>2
<1> QED
  BY <1>1, <1>2 DEF IInv, GoodStep

LEMMA StepInv == IInv /\ [Next]_vars => IInv'
<1> SUFFICES ASSUME IInv, [Next]_vars PROVE IInv'
  OBVIOUS
<1>1. ASSUME NEW c \in Calls,
             \/ OnMessage(c) \/ Drain(c) \/ HandlerReturns(c) \/ closeWithException(c)
             \/ SendMessage(c) \/ Sending(c) \/ Close(c)
             \/ \E t \in Threads : Closing(c, t)
      PROVE  IInv'
  <2>1. GoodStep(c)
    BY <1>1, OnMessageStep, DrainStep, HandlerStep, SenderStep, ClosingStep
  <2> QED
    BY <2>1, GoodStepInv
<1>2. CASE UNCHANGED vars
  <2>1. UNCHANGED <<mode, input, stage, starts, choice, memo>> /\ UNCHANGED callVars
    BY <1>2 DEF vars, lookupVars
  <2>2. Shape' /\ MemoInv'
    BY <2>1 DEF IInv, Shape, MemoInv, callVars
  <2>3. ASSUME NEW d \in Calls PROVE CallInv(d)'
    <3>1. CallInv(d) /\ Untouched(d) /\ mode' = mode
      BY <2>1 DEF IInv, Untouched, callVars
    <3> QED
      BY <3>1, UntouchedInv
  <2> QED
    BY <2>2, <2>3 DEF IInv
<1>3. CASE Next
  BY <1>1, <1>3, InterceptStep DEF Next
<1> QED
  BY <1>2, <1>3

LEMMA Invariance == Spec => []IInv
BY InitInv, StepInv, PTL DEF Spec

-----------------------------------------------------------------------------
(* What the invariant says, in the terms of the properties.                *)

LEMMA InvType == IInv => TypeOK
<1> SUFFICES ASSUME IInv PROVE TypeOK
  OBVIOUS
<1>1. ASSUME NEW c \in Calls
      PROVE  /\ unloggedRequests[c] \in Seq(1..MaxMessages[c])
             /\ at[c] \in [Threads -> Places]
             /\ hand[c] \in [Threads -> 0..MaxMessages[c]]
             /\ \A t \in Threads : at[c][t] \in {"log", "close log"} => hand[c][t] # 0
             /\ filed[c] \cup sent[c] \subseteq 1..MaxResponses[c]
  <2>0. CallInv(c)
    BY DEF IInv
  <2>1. at[c] \in [Threads -> Places] /\ hand[c] \in [Threads -> Nat]
    BY DEF IInv, Shape
  <2>2. \A t \in Threads : HandOf(c, t)
    BY <2>0 DEF CallInv, Threads
  <2>3. hand[c] \in [Threads -> 0..MaxMessages[c]]
    BY <2>1, <2>2 DEF HandOf
  <2>4. unloggedRequests[c] \in Seq(1..MaxMessages[c])
    <3>1. ASSUME NEW n, NEW r \in 1..n PROVE <<r>> \in Seq(1..n) /\ <<>> \in Seq(1..n)
      OBVIOUS
    <3>2. <<>> \in Seq(1..MaxMessages[c])
      OBVIOUS
    <3> QED
      BY <2>0, <3>1, <3>2 DEF CallInv, Deque
  <2> QED
    BY <2>0, <2>1, <2>2, <2>3, <2>4 DEF HandOf, CallInv, Numbers
<1> QED
  BY <1>1 DEF IInv, Shape, TypeOK, Stages, Places

LEMMA OneElement ==
  ASSUME NEW x
  PROVE  Cardinality({x}) = 1 /\ Cardinality({}) = 0
BY FS_Singleton, FS_EmptySet

LEMMA InvConserved == IInv => RequestsConserved
<1> SUFFICES ASSUME IInv, NEW c \in Calls, NEW r \in 1..received[c]
             PROVE  LET waiting == {k \in DOMAIN unloggedRequests[c] : unloggedRequests[c][k] = r}
                        held == {t \in Threads : hand[c][t] = r}
                        added == r # received[c] \/ at[c]["listener"] \notin Arriving
                    IN  Cardinality(waiting) + Cardinality(held) + audited[c][r]
                          = IF added THEN 1 ELSE 0
  BY DEF RequestsConserved, Arriving
<1> DEFINE waiting == {k \in DOMAIN unloggedRequests[c] : unloggedRequests[c][k] = r}
           held == {t \in Threads : hand[c][t] = r}
           l == hand[c]["listener"]
           s == hand[c]["sender"]
           w == Waiting(c)
           a == audited[c][r]
<1>0. CallInv(c)
  BY DEF IInv
<1>1. r \in 1..MaxMessages[c] /\ r \in Nat /\ r # 0 /\ received[c] \in Nat
  <2>1. received[c] \in Nat /\ received[c] <= MaxMessages[c] /\ MaxMessages[c] \in Nat
    BY <1>0, Bounds DEF IInv, Shape, CallInv, Numbers
  <2> QED
    BY <2>1
<1>2. /\ Cardinality({}) = 0 /\ Cardinality({1}) = 1
      /\ Cardinality({"listener"}) = 1 /\ Cardinality({"sender"}) = 1
  BY OneElement
<1>3. Cardinality(waiting) = IF w = r THEN 1 ELSE 0
  <2>1. CASE unloggedRequests[c] = <<>>
    <3>1. waiting = {} /\ w = 0
      BY <2>1 DEF Waiting
    <3> QED
      BY <1>1, <1>2, <3>1
  <2>2. ASSUME NEW x \in 1..MaxMessages[c], unloggedRequests[c] = <<x>>
        PROVE  Cardinality(waiting) = IF w = r THEN 1 ELSE 0
    <3>1. w = x /\ waiting = IF x = r THEN {1} ELSE {}
      BY <2>2 DEF Waiting
    <3> QED
      BY <1>2, <3>1
  <2> QED
    BY <1>0, <2>1, <2>2 DEF CallInv, Deque
<1>4. ~ (l = r /\ s = r) =>
        Cardinality(held) = IF l = r \/ s = r THEN 1 ELSE 0
  <2>1. CASE l = r /\ s # r
    <3>1. held = {"listener"}
      BY <2>1 DEF Threads
    <3> QED
      BY <1>2, <2>1, <3>1
  <2>2. CASE l # r /\ s = r
    <3>1. held = {"sender"}
      BY <2>2 DEF Threads
    <3> QED
      BY <1>2, <2>2, <3>1
  <2>3. CASE l # r /\ s # r
    <3>1. held = {}
      BY <2>3 DEF Threads
    <3> QED
      BY <1>2, <2>3, <3>1
  <2> QED
    BY <2>1, <2>2, <2>3
<1>5. IF Added(c, r) THEN OnePlace(r, w, l, s, a) ELSE NoPlace(r, w, l, s, a)
  BY <1>0, <1>1 DEF CallInv, Conserved
<1>6. Added(c, r) <=> r # received[c] \/ at[c]["listener"] \notin Arriving
  BY <1>1 DEF Added
<1> HIDE DEF waiting, held, w, l, s, a
<1>7. CASE Added(c, r)
  BY <1>3, <1>4, <1>5, <1>6, <1>7 DEF OnePlace, waiting, held, a
<1>8. CASE ~ Added(c, r)
  BY <1>3, <1>4, <1>5, <1>6, <1>8 DEF NoPlace, waiting, held, a
<1> QED
  BY <1>7, <1>8

LEMMA InvSelector == IInv => RightSelector
<1> SUFFICES ASSUME IInv, NEW c \in Calls, stage[c] \in {"start", "running", "unaudited"}
             PROVE  LET m == input[c].method
                        applicable == {i \in DOMAIN Rules : /\ isApplicable(Rules[i], m)
                                                            /\ getLength(Rules[i]) > 0}
                        n(i) == getLength(Rules[i])
                    IN  IF choice[c] = 0 THEN applicable = {}
                        ELSE /\ choice[c] \in applicable
                             /\ \A i \in applicable :
                                  /\ i < choice[c] => n(i) < n(choice[c])
                                  /\ i > choice[c] => \/ n(i) <= n(choice[c])
                                                      \/ n(choice[c]) = Len(m)
  BY Zenon DEF RightSelector
<1> DEFINE m == input[c].method
           best == choice[c]
<1>1. best = returnMostRelevant(m)
  BY DEF IInv, MemoInv
<1>2. m \in Seq(STRING)
  BY MethodType DEF IInv
<1>3. MostRelevant(m, Len(Rules), best)
  BY <1>1, <1>2, ReturnMostRelevant
<1>4. DOMAIN Rules = 1..Len(Rules) /\ Len(Rules) \in Nat
  BY JavaAssumption
<1>5. best \in 0..Len(Rules) /\ (best # 0 => best \in DOMAIN Rules)
  BY <1>3, <1>4 DEF MostRelevant
<1> HIDE DEF best, m
<1> QED
  BY <1>3, <1>4, <1>5 DEF MostRelevant, Applies, best, m

-----------------------------------------------------------------------------
(* Theorems.                                                               *)

(* The variables keep their types, and a thread that is about to give      *)
(* auditLog a request for the log alone has one: onMessage and close check *)
(* what they polled.                                                       *)
THEOREM TypeCorrect == Spec => []TypeOK
BY Invariance, InvType, PTL

(* However the callbacks and the application's thread take turns at the    *)
(* deque, every request that onMessage added is logged at most once and is *)
(* never lost between the deque, the hands and the log.                    *)
THEOREM RequestsConservedCorrect == Spec => []RequestsConserved
BY Invariance, InvConserved, PTL

(* Nothing older than a request that a thread has taken is left in the    *)
(* deque: it is logged, or in the hand of the other thread.                *)
THEOREM AllButTheLastCorrect == Spec => []AllButTheLast
<1>1. IInv => AllButTheLast
  <2> SUFFICES ASSUME IInv, NEW c \in Calls, NEW t \in Threads,
                      NEW r \in 1..(hand[c][t] - 1)
               PROVE  audited[c][r] = 1 \/ \E u \in Threads : hand[c][u] = r
    BY DEF AllButTheLast
  <2> DEFINE h == hand[c][t]
             w == Waiting(c)
             l == hand[c]["listener"]
             s == hand[c]["sender"]
  <2>0. /\ CallInv(c) /\ MaxMessages[c] \in Nat /\ received[c] \in Nat
        /\ h \in 0..MaxMessages[c] /\ w \in 0..MaxMessages[c]
    BY Bounds, PollFacts DEF IInv, Shape, CallInv, HandOf, Threads
  <2>1. h # 0 /\ h \in 1..MaxMessages[c] /\ r \in 1..MaxMessages[c] /\ r < h /\ r # 0
    BY <2>0
  <2>2. t = "listener" => h = l
    OBVIOUS
  <2>3. t # "listener" => h = s
    BY DEF Threads
  <2> HIDE DEF h, w, l, s
  <2>4. Added(c, h)
    BY <2>0, <2>1, <2>2, <2>3 DEF CallInv, Conserved, NoPlace, l, s
  <2>5. Added(c, r)
    BY <2>0, <2>1, <2>4 DEF Added
  <2>6. OnePlace(r, w, l, s, audited[c][r])
    BY <2>0, <2>1, <2>5 DEF CallInv, Conserved, w, l, s
  <2>7. w # r
    <3>1. (l # 0 => w = 0) /\ (w # 0 => s < w)
      BY <2>0 DEF CallInv, Newest, w, l, s
    <3> QED
      BY <2>0, <2>1, <2>2, <2>3, <3>1
  <2> QED
    BY <2>6, <2>7 DEF OnePlace, Threads, l, s
<1> QED
  BY <1>1, Invariance, PTL

(* A response leaves a fail-close server after its entry.                  *)
THEOREM SentAfterStoredCorrect == Spec => []SentAfterStored
<1>1. IInv => SentAfterStored
  BY DEF IInv, CallInv, FiledFirst, SentAfterStored
<1> QED
  BY <1>1, Invariance, PTL

(* A handler is started with the most relevant selector for its method, or *)
(* without one when none applies, whatever became of the memo.             *)
THEOREM RightSelectorCorrect == Spec => []RightSelector
BY Invariance, InvSelector, PTL

=============================================================================
