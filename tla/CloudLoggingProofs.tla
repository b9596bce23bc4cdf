------------------------- MODULE CloudLoggingProofs -------------------------
(***************************************************************************)
(* Stop of the Cloud Logging processor reports every loss of a best-effort *)
(* entry, for any number of log types and entries.                         *)
(***************************************************************************)
EXTENDS CloudLogging, TLAPS

(* Stop still has a Flush to return from, which will report errs.          *)
FlushToCome == stop.left # {} \/ stop.pc = "flush"

(* An entry that was due is stored, or its loss is in merr or in the       *)
(* errors the next Flush collects, or it is buffered by a logger that Stop *)
(* has not flushed yet.                                                    *)
Accounted(e) ==
  \/ e \in stored
  \/ stop.err
  \/ errs /\ FlushToCome
  \/ e \in buffer /\ (e.type \in stop.left \/ e \in stop.wait)

StopInv ==
  /\ stop.pc = "running" =>
       \A e \in accepted : errs \/ e \in buffer \/ e \in stored
  /\ stop.pc # "running" => \A e \in stop.due : Accounted(e)
  /\ stop.pc # "flush" => stop.wait = {}
  /\ stop.pc = "stopped" => stop.left = {}

IInv == TypeOK /\ StopInv

LEMMA InitInv == Init => IInv
<1>1. ASSUME Init PROVE TypeOK
  <2>1. errs \in BOOLEAN
    BY <1>1 DEF Init, Fresh
  <2>2. stop \in Stopping
    BY <1>1 DEF Init, Fresh, Stopping
  <2> QED
    BY <1>1, <2>1, <2>2 DEF Init, Fresh, TypeOK
<1>2. Init => StopInv
  BY DEF Init, Fresh, StopInv
<1> QED
  BY <1>1, <1>2 DEF IInv

(* A step of a processor in whatever process it is part of.  Its callers   *)
(* may hand an entry over more than once.                                  *)
Step ==
  \/ \E e \in Entry, default \in BOOLEAN, mode \in Modes, err \in {"nil", "error"} :
       Process(default, mode, e, err)
  \/ \E e \in Entry : Write(e)
  \/ StopCall
  \/ StopNext
  \/ Crash
  \/ UNCHANGED clvars

LEMMA NextIsStep == [Next]_clvars => Step
BY DEF Next, ProcessAny, Step

LEMMA TypeStep == TypeOK /\ Step => TypeOK'
<1> SUFFICES ASSUME TypeOK, Step PROVE TypeOK'
  OBVIOUS
<1> USE DEF TypeOK, Stopping
<1>1. ASSUME NEW e \in Entry, NEW d \in BOOLEAN, NEW m \in Modes,
             NEW err \in {"nil", "error"}, Process(d, m, e, err)
      PROVE  TypeOK'
  BY <1>1 DEF Process, LogAsync, LogSync
<1>2. ASSUME NEW e \in Entry, Write(e) PROVE TypeOK'
  BY <1>2 DEF Write
<1>3. CASE StopCall
  BY <1>3 DEF StopCall
<1>4. ASSUME NEW t \in LogTypes, FlushCall(t) PROVE TypeOK'
  BY <1>4 DEF FlushCall
<1>5. CASE FlushReturn
  BY <1>5 DEF FlushReturn
<1>6. CASE StopReturn
  BY <1>6 DEF StopReturn
<1>7. CASE Crash
  BY <1>7 DEF Crash, Fresh
<1>8. CASE UNCHANGED clvars
  BY <1>8 DEF clvars
<1> QED
  BY <1>1, <1>2, <1>3, <1>4, <1>5, <1>6, <1>7, <1>8 DEF Step, StopNext

LEMMA StopInvStep == TypeOK /\ StopInv /\ Step => StopInv'
<1> SUFFICES ASSUME TypeOK, StopInv, Step PROVE StopInv'
  OBVIOUS
<1> USE EntryAssumption DEF TypeOK, Stopping, StopInv, Accounted, FlushToCome
<1>1. ASSUME NEW e \in Entry, NEW d \in BOOLEAN, NEW m \in Modes,
             NEW err \in {"nil", "error"}, Process(d, m, e, err)
      PROVE  StopInv'
  BY <1>1 DEF Process, LogAsync, LogSync
<1>2. ASSUME NEW e \in Entry, Write(e) PROVE StopInv'
  BY <1>2 DEF Write
<1>3. CASE StopCall
  BY <1>3 DEF StopCall
<1>4. ASSUME NEW t \in LogTypes, FlushCall(t) PROVE StopInv'
  BY <1>4 DEF FlushCall
<1>5. CASE FlushReturn
  BY <1>5 DEF FlushReturn
<1>6. CASE StopReturn
  BY <1>6 DEF StopReturn
<1>7. CASE Crash
  BY <1>7 DEF Crash, Fresh
<1>8. CASE UNCHANGED clvars
  BY <1>8 DEF clvars
<1> QED
  BY <1>1, <1>2, <1>3, <1>4, <1>5, <1>6, <1>7, <1>8 DEF Step, StopNext

(* Stop of a Cloud Logging processor keeps to its types in every step of   *)
(* processing, background writing, flushing and crashing.                  *)
THEOREM TypeCorrect == Spec => []TypeOK
<1>1. Init => TypeOK
  BY InitInv DEF IInv
<1> QED
  BY <1>1, TypeStep, NextIsStep, PTL DEF Spec

(* Stop reports every loss: if cloudlogging.Processor.Stop returned nil,   *)
(* all entries logged as best effort before it was called are stored, for  *)
(* any set of log types and any interleaving of callers, background        *)
(* writers and Stop.                                                       *)
THEOREM StopReportsLossCorrect == Spec => []StopReportsLoss
<1>1. IInv /\ [Next]_clvars => IInv'
  BY TypeStep, StopInvStep, NextIsStep DEF IInv
<1>2. IInv => StopReportsLoss
  BY DEF IInv, TypeOK, Stopping, StopInv, Accounted, FlushToCome, StopReportsLoss
<1> QED
  BY <1>1, <1>2, InitInv, PTL DEF Spec

=============================================================================
