----------------------------- MODULE LogPuller -----------------------------
(***************************************************************************)
(* Puller.Pull: lists the newest log entries that match a filter, with     *)
(* retries.  Entry 1 is the newest; every attempt lists the entries anew,  *)
(* newest first, and appends to what the attempts before it have read.     *)
(*                                                                         *)
(* External: a listing, which may fail at any entry and fails once the     *)
(* context is done, and package retry, whose budget of retries belongs to  *)
(* the puller.  A puller serves one call, that of TailCommand.list.        *)
(***************************************************************************)
EXTENDS Naturals, Sequences

CONSTANTS
  Entries,      \* number of entries that match the filter
  MaxCounts,    \* values of maxCount to consider
  MaxRetries    \* retries that p.retry allows

VARIABLES
  pc,         \* "idle", "listing", "waiting" between attempts, "returned"
  maxCount,   \* argument of the call
  it,         \* entries that the iterator of this attempt has gone through
  ls,         \* the entries collected
  retries,    \* what is left of the budget
  done,       \* the context of the call is done
  err         \* the call returned an error

vars == <<pc, maxCount, it, ls, retries, done, err>>

TypeOK ==
  /\ pc \in {"idle", "listing", "waiting", "returned"}
  /\ maxCount \in MaxCounts \cup {0}
  /\ it \in 0..Entries
  /\ ls \in Seq(1..Entries)
  /\ retries \in 0..MaxRetries
  /\ done \in BOOLEAN
  /\ err \in BOOLEAN

Init ==
  /\ pc = "idle"
  /\ maxCount = 0
  /\ it = 0
  /\ ls = <<>>
  /\ retries = MaxRetries
  /\ done = FALSE
  /\ err = FALSE

Pull(n) ==
  /\ pc = "idle"
  /\ pc' = "listing"
  /\ maxCount' = n
  /\ UNCHANGED <<it, ls, retries, done, err>>

(* it.Next returns an entry.                                               *)
NextEntry ==
  /\ pc = "listing"
  /\ Len(ls) < maxCount
  /\ it < Entries
  /\ it' = it + 1
  /\ ls' = Append(ls, it')
  /\ UNCHANGED <<pc, maxCount, retries, done, err>>

(* Enough entries were read, or it.Next returned iterator.Done.            *)
ListingEnds ==
  /\ pc = "listing"
  /\ Len(ls) >= maxCount \/ it = Entries
  /\ pc' = "returned"
  /\ UNCHANGED <<maxCount, it, ls, retries, done, err>>

Fails ==
  /\ pc' = "returned"
  /\ err' = TRUE
  /\ ls' = <<>>

(* it.Next returned an error: retry.Do waits, or gives up.                 *)
NextFails ==
  /\ pc = "listing"
  /\ Len(ls) < maxCount
  /\ IF retries > 0
     THEN pc' = "waiting" /\ retries' = retries - 1 /\ UNCHANGED <<ls, err>>
     ELSE Fails /\ retries' = retries
  /\ UNCHANGED <<maxCount, it, done>>

(* Mutant: the entry that failed is skipped.                               *)
RetryBehind ==
  /\ pc = "waiting"
  /\ IF done
     THEN Fails /\ it' = it
     ELSE pc' = "listing" /\ it' = (IF it < Entries THEN it + 1 ELSE it) /\ UNCHANGED <<ls, err>>
  /\ UNCHANGED <<maxCount, retries, done>>

(* The next attempt, which starts a listing of its own.                    *)
Retry ==
  /\ pc = "waiting"
  /\ IF done
     THEN Fails /\ it' = it
     ELSE pc' = "listing" /\ it' = 0 /\ UNCHANGED <<ls, err>>
  /\ UNCHANGED <<maxCount, retries, done>>

Cancel ==
  /\ ~ done
  /\ done' = TRUE
  /\ UNCHANGED <<pc, maxCount, it, ls, retries, err>>

PullStep == NextEntry \/ ListingEnds \/ NextFails \/ Retry

Next ==
  \/ \E n \in MaxCounts : Pull(n)
  \/ PullStep
  \/ Cancel

Spec == Init /\ [][Next]_vars

=============================================================================
