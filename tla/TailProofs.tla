----------------------------- MODULE TailProofs -----------------------------
(***************************************************************************)
(* lumberctl tail, for any number of entries, any size of a response, any  *)
(* -max-num and any budget of retries.                                     *)
(***************************************************************************)
EXTENDS TailCommand, SequenceTheorems, TLAPS

(* What Pull has collected: nothing is missing below what an attempt has   *)
(* reached, and nothing below an entry that was read.                      *)
PullInv ==
  /\ pc = "idle" => ls = <<>> /\ it = 0
  /\ pc # "idle" => maxCount = maxNum
  /\ Len(ls) <= maxCount
  /\ \A n \in Range(ls) : 1..n \subseteq Range(ls)
  /\ err => pc = "returned"
  /\ ~ err => 1..it \subseteq Range(ls)
  /\ pc = "returned" /\ ~ err => Len(ls) >= maxCount \/ it = Entries

ListInv ==
  ~ follow /\ command # "ranging" =>
    pc = "returned" /\ out = ls /\ (command = "ok" => ~ err)

(* Entries on their way: those printed, then those of the last response.   *)
Printed ==
  /\ Len(out) + Len(batch) = received
  /\ \A i \in 1..Len(out) : out[i] = i
  /\ \A j \in 1..Len(batch) : batch[j] = Len(out) + j

(* StreamPull notes its error before it closes the channel, and it returns *)
(* with no entry in its hands.                                             *)
PullerInv ==
  /\ batch # <<>> => puller = "recv"
  /\ closed => puller = "done"
  /\ closed => perr = "error" \/ (perr = "canceled" /\ cancelled)
  /\ command # "ranging" => closed
  /\ command = "ok" => perr # "error"

RunInv ==
  /\ code = "start" => pc = "idle" /\ puller = "start" /\ command = "ranging"
  /\ code \in {"running", "ok"} => maxNum \in 1..Limit
  /\ code = "ok" => command = "ok"
  /\ follow /\ Returned => batch = <<>>

TailInv ==
  /\ TypeOK
  /\ PullInv
  /\ ListInv
  /\ follow => Printed /\ PullerInv
  /\ RunInv

(* The types, spelt out.                                                   *)
Types ==
  /\ follow \in BOOLEAN /\ maxNum \in MaxNums /\ code \in {"start", "running", "ok", "failed"}
  /\ pc \in {"idle", "listing", "waiting", "returned"}
  /\ maxCount \in MaxNums \cup {0} /\ it \in 0..Entries /\ ls \in Seq(1..Entries)
  /\ retries \in 0..MaxRetries /\ cancelled \in BOOLEAN /\ err \in BOOLEAN
  /\ stream \in {"none", "open", "ended", "broken"} /\ received \in 0..Entries
  /\ puller \in {"start", "send", "recv", "backoff", "done"}
  /\ batch \in Seq(1..Entries) /\ perr \in {"nil", "canceled", "error"}
  /\ closed \in BOOLEAN /\ command \in {"ranging", "ok", "failed"} /\ out \in Seq(1..Entries)

LEMMA TypesSpelt == TypeOK <=> Types
BY DEF TypeOK, Types, P!TypeOK, S!TypeOK

LEMMA InitInv == Init => TailInv
<1> SUFFICES ASSUME Init PROVE TailInv
  OBVIOUS
<1> USE DEF Init, P!Init, S!Init
<1>1. Types
  <2>1. 0 \in 0..Entries /\ MaxRetries \in 0..MaxRetries
    BY TailAssumption
  <2>2. <<>> \in Seq(1..Entries)
    OBVIOUS
  <2> QED
    BY <2>1, <2>2 DEF Types
<1>2. Range(<<>>) = {} /\ Len(<<>>) = 0 /\ 1..0 = {}
  BY DEF Range
<1>3. PullInv /\ Printed
  BY <1>2 DEF PullInv, Printed
<1>4. ListInv /\ PullerInv /\ RunInv
  BY DEF ListInv, PullerInv, RunInv, Returned
<1> QED
  BY <1>1, <1>3, <1>4, TypesSpelt DEF TailInv

-----------------------------------------------------------------------------
(* Listing.                                                                *)

LEMMA RangeAppend ==
  ASSUME NEW n \in Nat, NEW s \in Seq(1..n), NEW e \in 1..n
  PROVE  Range(Append(s, e)) = Range(s) \cup {e}
<1>1. /\ Append(s, e) \in Seq(1..n) /\ Len(Append(s, e)) = Len(s) + 1
      /\ \A i \in 1..Len(s) : Append(s, e)[i] = s[i]
      /\ Append(s, e)[Len(s) + 1] = e
  BY AppendProperties
<1>2. /\ Len(s) \in Nat /\ DOMAIN s = 1..Len(s)
      /\ DOMAIN Append(s, e) = 1..(Len(s) + 1)
  BY <1>1
<1>3. 1..(Len(s) + 1) = 1..Len(s) \cup {Len(s) + 1}
  BY <1>2
<1> HIDE DEF Range
<1>4. Range(s) = {s[i] : i \in 1..Len(s)}
  BY <1>2 DEF Range
<1>5. Range(Append(s, e)) = {Append(s, e)[i] : i \in 1..Len(s) \cup {Len(s) + 1}}
  BY <1>2, <1>3 DEF Range
<1> QED
  BY <1>1, <1>4, <1>5

(* NextEntry reads entry it + 1, when all newer ones were read.            *)
LEMMA ReadsOn ==
  ASSUME NEW n \in Nat, NEW s \in Seq(1..n), NEW k \in 0..(n - 1),
         \A m \in Range(s) : 1..m \subseteq Range(s),
         1..k \subseteq Range(s)
  PROVE  LET t == Append(s, k + 1)
         IN  /\ t \in Seq(1..n) /\ Len(t) = Len(s) + 1
             /\ \A m \in Range(t) : 1..m \subseteq Range(t)
             /\ 1..(k + 1) \subseteq Range(t)
<1> DEFINE t == Append(s, k + 1)
<1>1. k + 1 \in 1..n
  OBVIOUS
<1>2. t \in Seq(1..n) /\ Len(t) = Len(s) + 1
  BY <1>1, AppendProperties
<1>3. Range(t) = Range(s) \cup {k + 1}
  BY <1>1, RangeAppend
<1>4. 1..(k + 1) = 1..k \cup {k + 1}
  BY <1>1
<1> HIDE DEF t
<1>5. 1..(k + 1) \subseteq Range(t)
  BY <1>3, <1>4, Zenon
<1>6. ASSUME NEW m \in Range(t) PROVE 1..m \subseteq Range(t)
  BY <1>3, <1>5, Zenon
<1> QED
  BY <1>2, <1>5, <1>6 DEF t

LEMMA PullStepInv ==
  ASSUME TailInv, P!PullStep
  PROVE  /\ pc' \in {"idle", "listing", "waiting", "returned"}
         /\ UNCHANGED <<maxCount, cancelled>>
         /\ it' \in 0..Entries /\ ls' \in Seq(1..Entries)
         /\ retries' \in 0..MaxRetries /\ err' \in BOOLEAN
         /\ pc \notin {"idle", "returned"} /\ (maxNum' = maxNum => PullInv')
<1>0. Types /\ PullInv
  BY TypesSpelt DEF TailInv
<1>1. Entries \in Nat /\ MaxRetries \in Nat /\ MaxNums \subseteq Nat
  BY TailAssumption
<1>2. /\ pc \in {"idle", "listing", "waiting", "returned"} /\ maxCount \in Nat
      /\ it \in 0..Entries /\ ls \in Seq(1..Entries) /\ retries \in 0..MaxRetries
      /\ err \in BOOLEAN /\ Len(ls) \in Nat
  BY <1>0, <1>1 DEF Types
<1>3. CASE P!NextEntry
  <2>1. /\ pc = "listing" /\ Len(ls) < maxCount /\ it < Entries
        /\ it' = it + 1 /\ ls' = Append(ls, it + 1)
        /\ UNCHANGED <<pc, maxCount, retries, cancelled, err>>
    BY <1>3 DEF P!NextEntry
  <2>2. ~ err /\ 1..it \subseteq Range(ls) /\ \A n \in Range(ls) : 1..n \subseteq Range(ls)
    BY <1>0, <2>1 DEF PullInv
  <2>3. it \in 0..(Entries - 1) /\ it + 1 \in 0..Entries
    BY <1>1, <1>2, <2>1
  <2>4. /\ ls' \in Seq(1..Entries) /\ Len(ls') = Len(ls) + 1
        /\ \A n \in Range(ls') : 1..n \subseteq Range(ls')
        /\ 1..it' \subseteq Range(ls')
    BY <1>1, <1>2, <2>1, <2>2, <2>3, ReadsOn
  <2>5. Len(ls') <= maxCount
    BY <1>2, <2>1, <2>4
  <2> QED
    BY <1>0, <1>2, <2>1, <2>2, <2>3, <2>4, <2>5 DEF PullInv
<1>4. CASE P!ListingEnds
  <2>1. /\ pc = "listing" /\ (Len(ls) >= maxCount \/ it = Entries) /\ pc' = "returned"
        /\ UNCHANGED <<maxCount, it, ls, retries, cancelled, err>>
    BY <1>4 DEF P!ListingEnds
  <2> QED
    BY <1>0, <1>2, <2>1 DEF PullInv
<1>5. ASSUME pc' = "returned", err', ls' = <<>>, it' = it,
             UNCHANGED <<maxCount, maxNum>>, pc # "idle"
      PROVE  PullInv' /\ ls' \in Seq(1..Entries)
  <2>1. Range(<<>>) = {} /\ Len(<<>>) = 0 /\ <<>> \in Seq(1..Entries)
    BY DEF Range
  <2>2. 0 <= maxCount
    BY <1>2
  <2>3. maxCount' = maxNum'
    BY <1>0, <1>5 DEF PullInv
  <2> QED
    BY <1>5, <2>1, <2>2, <2>3 DEF PullInv
<1>6. CASE P!NextFails
  <2>1. pc = "listing" /\ UNCHANGED <<maxCount, it, cancelled>>
    BY <1>6 DEF P!NextFails
  <2>2. CASE retries > 0 /\ pc' = "waiting" /\ retries' = retries - 1 /\ UNCHANGED <<ls, err>>
    <3>1. retries' \in 0..MaxRetries
      BY <1>1, <1>2, <2>2
    <3> QED
      BY <1>0, <1>2, <2>1, <2>2, <3>1 DEF PullInv
  <2>3. CASE pc' = "returned" /\ err' = TRUE /\ ls' = <<>> /\ retries' = retries
    BY <1>2, <1>5, <2>1, <2>3
  <2> QED
    BY <1>6, <2>2, <2>3 DEF P!NextFails, P!Fails
<1>7. CASE P!Retry
  <2>1. pc = "waiting" /\ UNCHANGED <<maxCount, retries, cancelled>>
    BY <1>7 DEF P!Retry
  <2>2. CASE pc' = "returned" /\ err' = TRUE /\ ls' = <<>> /\ it' = it
    BY <1>2, <1>5, <2>1, <2>2
  <2>3. CASE pc' = "listing" /\ it' = 0 /\ UNCHANGED <<ls, err>>
    <3>1. 1..0 = {} /\ 0 \in 0..Entries
      BY <1>1
    <3> QED
      BY <1>0, <1>2, <2>1, <2>3, <3>1 DEF PullInv
  <2> QED
    BY <1>7, <2>2, <2>3 DEF P!Retry, P!Fails
<1> QED
  BY <1>3, <1>4, <1>6, <1>7 DEF P!PullStep

-----------------------------------------------------------------------------
(* Following.                                                              *)

(* A response arrives when everything before it was printed.               *)
LEMMA ReceivedPrinted ==
  ASSUME Types, Printed, NEW n \in 1..MaxBatch, S!RecvEntries(n)
  PROVE  received' \in 0..Entries /\ batch' \in Seq(1..Entries) /\ Printed'
<1>0. MaxBatch \in Nat /\ Entries \in Nat
  BY TailAssumption
<1>1. /\ batch = <<>> /\ received + n <= Entries /\ received' = received + n
      /\ batch' = [i \in 1..n |-> received + i] /\ out' = out
  BY DEF S!RecvEntries
<1>2. received \in Nat /\ n \in Nat /\ received + n \in 0..Entries
  BY <1>0, <1>1 DEF Types
<1>3. \A i \in 1..n : received + i \in 1..Entries
  BY <1>0, <1>1, <1>2
<1>4. batch' \in Seq(1..Entries) /\ Len(batch') = n
  BY <1>1, <1>2, <1>3
<1>5. out \in Seq(1..Entries) /\ Len(out) \in Nat
  BY DEF Types
<1>6. Len(out) = received /\ \A i \in 1..Len(out) : out[i] = i
  <2>1. Len(out) + 0 = received
    BY <1>1 DEF Printed
  <2> QED
    BY <1>5, <2>1 DEF Printed
<1>7. Len(out') + Len(batch') = received'
  BY <1>1, <1>2, <1>4, <1>6
<1>8. \A j \in 1..Len(batch') : batch'[j] = Len(out') + j
  BY <1>1, <1>4, <1>6
<1> QED
  BY <1>1, <1>2, <1>4, <1>6, <1>7, <1>8 DEF Printed

(* An entry is passed on and printed.                                      *)
LEMMA ForwardPrinted ==
  ASSUME Types, Printed, S!Forward
  PROVE  batch' \in Seq(1..Entries) /\ out' \in Seq(1..Entries) /\ Printed'
<1>1. /\ batch # <<>> /\ batch' = Tail(batch) /\ out' = Append(out, Head(batch))
      /\ received' = received
  BY DEF S!Forward
<1>2. /\ batch \in Seq(1..Entries) /\ out \in Seq(1..Entries)
      /\ Len(out) \in Nat /\ Len(batch) \in Nat
  BY DEF Types
<1>3. /\ Head(batch) \in 1..Entries /\ Tail(batch) \in Seq(1..Entries)
      /\ Len(Tail(batch)) = Len(batch) - 1
      /\ \A i \in 1..Len(Tail(batch)) : Tail(batch)[i] = batch[i + 1]
  BY <1>1, <1>2, HeadTailProperties
<1>h. Len(batch) # 0 /\ Head(batch) = batch[1]
  BY <1>1, <1>2, EmptySeq
<1>4. /\ out' \in Seq(1..Entries) /\ Len(out') = Len(out) + 1
      /\ \A i \in 1..Len(out) : out'[i] = out[i]
      /\ out'[Len(out) + 1] = Head(batch)
  BY <1>1, <1>2, <1>3, AppendProperties
<1>5. /\ Len(out) + Len(batch) = received
      /\ \A i \in 1..Len(out) : out[i] = i
      /\ \A j \in 1..Len(batch) : batch[j] = Len(out) + j
  BY DEF Printed
<1>6. Len(out') + Len(batch') = received'
  BY <1>1, <1>2, <1>3, <1>4, <1>5
<1>7. \A i \in 1..Len(out') : out'[i] = i
  <2>1. Head(batch) = Len(out) + 1
    BY <1>2, <1>h, <1>5
  <2> SUFFICES ASSUME NEW i \in 1..Len(out') PROVE out'[i] = i
    OBVIOUS
  <2>2. i \in 1..Len(out) \/ i = Len(out) + 1
    BY <1>2, <1>4
  <2> QED
    BY <1>4, <1>5, <2>1, <2>2
<1>8. \A j \in 1..Len(batch') : batch'[j] = Len(out') + j
  <2> SUFFICES ASSUME NEW j \in 1..Len(batch') PROVE batch'[j] = Len(out') + j
    OBVIOUS
  <2>1. j + 1 \in 1..Len(batch) /\ batch'[j] = batch[j + 1] /\ j \in Nat
    BY <1>1, <1>2, <1>3
  <2>2. batch[j + 1] = Len(out) + (j + 1)
    BY <1>5, <2>1
  <2> QED
    BY <1>2, <1>4, <2>1, <2>2
<1> QED
  BY <1>1, <1>3, <1>4, <1>6, <1>7, <1>8 DEF Printed

(* One step of StreamPull.                                                 *)
LEMMA PullerStepInv ==
  ASSUME Types, Printed, PullerInv, S!PullerStep, UNCHANGED <<follow, maxNum, code, pullVars>>
  PROVE  /\ Types' /\ Printed' /\ PullerInv'
         /\ command' = command
<1> USE DEF pullVars
<1>0. MaxRetries \in Nat
  BY TailAssumption
<1>1. retries \in 0..MaxRetries
  BY DEF Types
<1>2. CASE S!Forward
  <2>1. batch' \in Seq(1..Entries) /\ out' \in Seq(1..Entries) /\ Printed'
    BY <1>2, ForwardPrinted
  <2>2. /\ puller = "recv" /\ batch # <<>> /\ command = "ranging"
        /\ UNCHANGED <<stream, received, puller, retries, cancelled, perr, closed, command>>
    BY <1>2 DEF S!Forward
  <2> QED
    BY <2>1, <2>2 DEF Types, PullerInv
<1>3. ASSUME UNCHANGED <<received, batch, cancelled, command, out>>,
             retries' \in 0..MaxRetries,
             stream' \in {"none", "open", "ended", "broken"},
             puller # "done", puller = "recv" => batch = <<>>,
             \/ /\ puller' \in {"send", "recv", "backoff"} /\ UNCHANGED <<perr, closed>>
             \/ /\ puller' = "done" /\ closed' = TRUE
                /\ perr' = "error" \/ (perr' = "canceled" /\ cancelled)
      PROVE  /\ Types' /\ Printed' /\ PullerInv'
             /\ command' = command
  <2>1. batch = <<>>
    BY <1>3 DEF PullerInv
  <2>2. Printed'
    BY <1>3 DEF Printed
  <2>3. Types'
    <3>1. /\ puller' \in {"start", "send", "recv", "backoff", "done"}
          /\ perr' \in {"nil", "canceled", "error"} /\ closed' \in BOOLEAN
      BY <1>3 DEF Types
    <3> QED
      BY <1>3, <3>1 DEF Types
  <2>4. ~ closed /\ command = "ranging"
    BY <1>3 DEF PullerInv, Types
  <2>5. PullerInv'
    BY <1>3, <2>1, <2>4 DEF PullerInv
  <2> QED
    BY <1>3, <2>2, <2>3, <2>5
<1>4. retries > 0 => retries - 1 \in 0..MaxRetries
  BY <1>0, <1>1
<1>5. CASE S!OpenStream
  BY <1>1, <1>3, <1>5 DEF S!OpenStream, S!PullerReturns, Types
<1>6. CASE S!Send
  BY <1>1, <1>3, <1>4, <1>6 DEF S!Send, S!PullerReturns, S!RetryableError, Types
<1>7. CASE S!RecvFails
  BY <1>1, <1>3, <1>4, <1>7 DEF S!RecvFails, S!PullerReturns, S!RetryableError, Types
<1>8. CASE S!Backoff
  BY <1>1, <1>3, <1>8 DEF S!Backoff, S!PullerReturns, Types
<1>9. CASE S!RecvEOF
  <2>1. puller = "recv" /\ UNCHANGED <<stream, received, puller, batch, retries, cancelled,
                                       perr, closed, command, out>>
    BY <1>9 DEF S!RecvEOF, S!vars
  <2> QED
    BY <2>1 DEF Types, Printed, PullerInv
<1> QED
  BY <1>2, <1>5, <1>6, <1>7, <1>8, <1>9 DEF S!PullerStep

-----------------------------------------------------------------------------

(* Each step of the command keeps the invariant.                           *)
LEMMA StepInv == TailInv /\ [Next]_vars => TailInv'
<1> SUFFICES ASSUME TailInv, [Next]_vars PROVE TailInv'
  OBVIOUS
<1>0. Types /\ PullInv /\ ListInv /\ (follow => Printed /\ PullerInv) /\ RunInv
  BY TypesSpelt DEF TailInv
<1> SUFFICES Types' /\ PullInv' /\ ListInv' /\ (follow' => Printed' /\ PullerInv') /\ RunInv'
  <2>1. TypeOK' <=> Types'
    BY TypesSpelt, PTL
  <2> QED
    BY <2>1 DEF TailInv
<1> USE DEF pullVars, streamVars
<1>1. CASE Run
  <2>1. UNCHANGED <<follow, maxNum, streamVars, command, out, retries, cancelled, it, ls, err>>
    BY <1>1 DEF Run, P!Pull
  <2>2. code = "start" /\ pc = "idle" /\ puller = "start" /\ command = "ranging"
    BY <1>0, <1>1 DEF Run, RunInv
  <2>3. Limit \in Nat /\ maxNum \in Nat /\ MaxNums \subseteq Nat
    BY <1>0, TailAssumption DEF Types
  <2>4. follow => batch = <<>>
    BY <1>0, <2>2 DEF PullerInv
  <2>5. CASE code' = "failed" /\ UNCHANGED <<retries, cancelled, pullVars>>
    BY <1>0, <2>1, <2>2, <2>4, <2>5
       DEF Types, PullInv, ListInv, Printed, PullerInv, RunInv, Returned
  <2>6. CASE /\ maxNum > 0 /\ maxNum <= Limit /\ code' = "running"
             /\ \/ UNCHANGED <<pc, maxCount>>
                \/ pc' = "listing" /\ maxCount' = maxNum
    <3>1. maxNum \in 1..Limit
      BY <2>3, <2>6
    <3>2. Types'
      BY <1>0, <2>1, <2>6 DEF Types
    <3>3. ListInv' /\ (follow' => Printed' /\ PullerInv') /\ RunInv'
      BY <1>0, <2>1, <2>2, <2>6, <3>1 DEF ListInv, Printed, PullerInv, RunInv, Returned
    <3>4. PullInv'
      <4>1. CASE UNCHANGED <<pc, maxCount>>
        BY <1>0, <2>1, <4>1 DEF PullInv
      <4>2. CASE pc' = "listing" /\ maxCount' = maxNum
        <5>1. ls = <<>> /\ Len(<<>>) = 0 /\ 0 <= maxNum
          BY <1>0, <2>2, <2>3 DEF PullInv
        <5> QED
          BY <1>0, <2>1, <2>2, <4>2, <5>1 DEF PullInv
      <4> QED
        BY <2>6, <4>1, <4>2
    <3> QED
      BY <3>2, <3>3, <3>4
  <2> QED
    BY <1>1, <2>5, <2>6 DEF Run, P!Pull
<1>2. CASE ListPull
  <2>1. /\ P!PullStep /\ code = "running" /\ ~ follow
        /\ UNCHANGED <<follow, maxNum, code, streamVars, command, out>>
    BY <1>2 DEF ListPull
  <2>2. /\ pc' \in {"idle", "listing", "waiting", "returned"}
        /\ UNCHANGED <<maxCount, cancelled>>
        /\ it' \in 0..Entries /\ ls' \in Seq(1..Entries)
        /\ retries' \in 0..MaxRetries /\ err' \in BOOLEAN
        /\ pc \notin {"idle", "returned"} /\ PullInv'
    BY <2>1, PullStepInv
  <2> QED
    BY <1>0, <2>1, <2>2 DEF Types, ListInv, RunInv, Returned
<1>3. CASE ListOutput
  <2>1. /\ code = "running" /\ ~ follow /\ pc = "returned" /\ command = "ranging"
        /\ command' = IF err THEN "failed" ELSE "ok"
        /\ out' = ls
        /\ UNCHANGED <<follow, maxNum, code, retries, cancelled, pullVars, streamVars>>
    BY <1>3 DEF ListOutput
  <2> QED
    BY <1>0, <2>1 DEF Types, PullInv, ListInv, RunInv, Returned
<1>4. CASE StreamStep
  <2>1. /\ S!PullerStep /\ code = "running" /\ follow
        /\ UNCHANGED <<follow, maxNum, code, pullVars>>
    BY <1>4 DEF StreamStep
  <2>2. Types' /\ Printed' /\ PullerInv' /\ command' = command
    BY <1>0, <2>1, PullerStepInv
  <2> QED
    BY <1>0, <2>1, <2>2 DEF PullInv, ListInv, RunInv, Returned
<1>5. CASE Received
  <2>1. /\ S!Received /\ code = "running" /\ follow
        /\ UNCHANGED <<follow, maxNum, code, pullVars>>
    BY <1>5 DEF Received
  <2>2. PICK n \in 1..MaxBatch : S!RecvEntries(n)
    BY <2>1 DEF S!Received
  <2>3. received' \in 0..Entries /\ batch' \in Seq(1..Entries) /\ Printed'
    BY <1>0, <2>1, <2>2, ReceivedPrinted
  <2>4. /\ puller = "recv"
        /\ UNCHANGED <<stream, puller, retries, cancelled, perr, closed, command, out>>
    BY <2>2 DEF S!RecvEntries
  <2> QED
    BY <1>0, <2>1, <2>3, <2>4 DEF Types, PullInv, ListInv, PullerInv, RunInv, Returned
<1>6. CASE StreamReturns
  <2>1. /\ code = "running" /\ follow /\ command = "ranging" /\ closed
        /\ command' = IF perr = "error" THEN "failed" ELSE "ok"
        /\ UNCHANGED <<stream, received, puller, batch, retries, cancelled, perr, closed, out>>
        /\ UNCHANGED <<follow, maxNum, code, pullVars>>
    BY <1>6 DEF StreamReturns, S!CommandReturns
  <2> QED
    BY <1>0, <2>1 DEF Types, PullInv, ListInv, Printed, PullerInv, RunInv, Returned
<1>7. CASE StreamEnds
  <2>1. /\ code = "running" /\ follow /\ stream' \in {"ended", "broken"}
        /\ UNCHANGED <<received, puller, batch, retries, cancelled, perr, closed, command, out>>
        /\ UNCHANGED <<follow, maxNum, code, pullVars>>
    BY <1>7 DEF StreamEnds, S!StreamEnds
  <2> QED
    BY <1>0, <2>1 DEF Types, PullInv, ListInv, Printed, PullerInv, RunInv, Returned
<1>8. CASE RunReturns
  <2>1. /\ code = "running" /\ command # "ranging" /\ code' \in {command, "failed"}
        /\ UNCHANGED <<follow, maxNum, retries, cancelled, pullVars, streamVars, command, out>>
    BY <1>8 DEF RunReturns
  <2>2. command \in {"ok", "failed"}
    BY <1>0, <2>1 DEF Types
  <2>3. follow => batch = <<>>
    BY <1>0, <2>1 DEF PullerInv
  <2> QED
    BY <1>0, <2>1, <2>2, <2>3 DEF Types, PullInv, ListInv, Printed, PullerInv, RunInv, Returned
<1>9. CASE Interrupt
  <2>1. /\ code = "running" /\ cancelled' = TRUE
        /\ stream' \in {"broken", stream}
        /\ UNCHANGED <<received, puller, batch, retries, perr, closed, command, out>>
        /\ UNCHANGED <<follow, maxNum, code, pullVars>>
    BY <1>9 DEF Interrupt, S!Cancel, P!Cancel
  <2> QED
    BY <1>0, <2>1 DEF Types, PullInv, ListInv, Printed, PullerInv, RunInv, Returned
<1>10. CASE UNCHANGED vars
  BY <1>0, <1>10 DEF vars, Types, PullInv, ListInv, Printed, PullerInv, RunInv, Returned
<1> QED
  BY <1>1, <1>2, <1>3, <1>4, <1>5, <1>6, <1>7, <1>8, <1>9, <1>10 DEF Next, CommandStep

LEMMA Invariance == Spec => []TailInv
BY InitInv, StepInv, PTL DEF Spec

-----------------------------------------------------------------------------
(* Theorems.                                                               *)

(* The variables of the command and of the puller keep their types: what   *)
(* is printed was received, and no more retries are taken than allowed.    *)
THEOREM TypeCorrect == Spec => []TypeOK
<1>1. TailInv => TypeOK
  BY DEF TailInv
<1> QED
  BY <1>1, Invariance, PTL

(* A list that succeeds printed the newest entries without a gap, in       *)
(* however many attempts, each of which starts from the newest entry.      *)
THEOREM NewestWithoutGapsCorrect == Spec => []NewestWithoutGaps
<1>1. TailInv => NewestWithoutGaps
  <2> SUFFICES ASSUME TailInv, code = "ok", ~ follow
               PROVE  /\ Len(out) <= maxNum
                      /\ \A n \in Range(out) : 1..n \subseteq Range(out)
                      /\ Len(out) < maxNum => Range(out) = 1..Entries
    BY DEF NewestWithoutGaps
  <2>1. out = ls /\ ~ err /\ pc = "returned"
    BY DEF TailInv, ListInv, RunInv
  <2>2. /\ maxCount = maxNum /\ Len(ls) <= maxCount
        /\ \A n \in Range(ls) : 1..n \subseteq Range(ls)
        /\ 1..it \subseteq Range(ls)
        /\ Len(ls) >= maxCount \/ it = Entries
    BY <2>1 DEF TailInv, PullInv
  <2>0. ls \in Seq(1..Entries) /\ maxNum \in MaxNums
    BY TypesSpelt DEF TailInv, Types
  <2>3. Len(ls) \in Nat /\ maxNum \in Nat
    BY <2>0, TailAssumption
  <2>4. Range(ls) \subseteq 1..Entries
    <3>1. DOMAIN ls = 1..Len(ls) /\ \A i \in 1..Len(ls) : ls[i] \in 1..Entries
      BY <2>0, LenProperties, ElementOfSeq
    <3> QED
      BY <3>1, Zenon DEF Range
  <2>5. Len(ls) < maxNum => it = Entries
    BY <2>2, <2>3
  <2> QED
    BY <2>1, <2>2, <2>4, <2>5
<1> QED
  BY <1>1, Invariance, PTL

(* With -follow, what was received is printed once and in order, and all   *)
(* of it before Run returns.                                               *)
THEOREM PrintedInOrderCorrect == Spec => []PrintedInOrder
<1>1. TailInv => PrintedInOrder
  <2> SUFFICES ASSUME TailInv, follow
               PROVE  /\ out \o batch = [i \in 1..received |-> i]
                      /\ Returned => batch = <<>>
    BY DEF PrintedInOrder
  <2>1. Returned => batch = <<>>
    BY DEF TailInv, RunInv
  <2>2. /\ out \in Seq(1..Entries) /\ batch \in Seq(1..Entries) /\ received \in Nat
        /\ Len(out) \in Nat /\ Len(batch) \in Nat
    BY TypesSpelt, TailAssumption DEF TailInv, Types
  <2>3. /\ Len(out) + Len(batch) = received
        /\ \A i \in 1..Len(out) : out[i] = i
        /\ \A j \in 1..Len(batch) : batch[j] = Len(out) + j
    BY DEF TailInv, Printed
  <2> DEFINE all == out \o batch
  <2>4. /\ all \in Seq(1..Entries) /\ Len(all) = received
        /\ \A i \in 1..received : all[i] = IF i <= Len(out) THEN out[i] ELSE batch[i - Len(out)]
    BY <2>2, <2>3, ConcatProperties
  <2>5. all \in [1..received -> 1..Entries]
    BY <2>4, LenProperties
  <2> HIDE DEF all
  <2>6. ASSUME NEW i \in 1..received PROVE all[i] = i
    <3>1. CASE i <= Len(out)
      BY <2>2, <2>3, <2>4, <3>1
    <3>2. CASE ~ (i <= Len(out))
      <4>1. i - Len(out) \in 1..Len(batch) /\ Len(out) + (i - Len(out)) = i
        BY <2>2, <2>3, <3>2
      <4> QED
        BY <2>3, <2>4, <3>2, <4>1
    <3> QED
      BY <3>1, <3>2
  <2>7. all = [i \in 1..received |-> i]
    BY <2>5, <2>6
  <2> QED
    BY <2>1, <2>7 DEF all
<1> QED
  BY <1>1, Invariance, PTL

(* Run returns no error only after a listing that succeeded or, with       *)
(* -follow, after an interruption.                                         *)
THEOREM ErrorReportedCorrect == Spec => []ErrorReported
<1>1. TailInv => ErrorReported
  BY DEF TailInv, RunInv, ListInv, PullerInv, ErrorReported
<1> QED
  BY <1>1, Invariance, PTL

=============================================================================
