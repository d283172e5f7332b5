--------------------------- MODULE CollectorLife ---------------------------
(***************************************************************************)
(* One collector of one entry of the replica's circular log, over the      *)
(* sequence numbers and views the entry serves in turn, with the           *)
(* background jobs that outlive it.                                        *)
(*                                                                         *)
(* now = <<seq, view>> is the sequence number the entry stands for and the *)
(* replica's current view.  The handlers of job results drop a result of   *)
(* another view or of a sequence number outside the window, which for one  *)
(* entry is a result whose key is not now, and every result that comes     *)
(* while the replica collects state.  Moving to a higher view and          *)
(* advancing the window reset the entry; the end of a state transfer does  *)
(* so only if it moves the window.                                         *)
(*                                                                         *)
(* The view in between two active ones is left out: no message is taken in *)
(* it, and all results on their way are then of an earlier view.           *)
(***************************************************************************)
EXTENDS CollectorOfThresholdSignatures

CONSTANTS
    Faulty,         \* the replicas that may send bad shares, at most f
    kWorkWindowSize,
    MaxSeq,         \* bound: largest sequence number
    MaxView         \* bound: largest view

ASSUME CollectorAssumption ==
    /\ IsFiniteSet(Replicas)
    /\ Faulty \subseteq Replicas
    /\ Required \in Nat \ {0}
    /\ kWorkWindowSize \in Nat \ {0}
    /\ MaxSeq \in Nat \ {0}
    /\ MaxView \in Nat

VARIABLES
    now,
    collecting,     \* stateTransfer->isCollectingState()
    coll,           \* the collector
    jobs            \* results not yet reported

vars == <<now, collecting, coll, jobs>>

Init ==
    /\ now = <<1, 0>>
    /\ collecting = FALSE
    /\ coll = EmptyCollector
    /\ jobs = {}

Take(outcomes) ==
    \E o \in outcomes : coll' = o.coll /\ jobs' = jobs \cup o.jobs

(* A message is handled: none is while state is collected (metaMessage-    *)
(* Handler_IgnoreWhenCollectingState).                                     *)
Handle(outcomes) ==
    /\ ~collecting
    /\ Take(outcomes)
    /\ UNCHANGED <<now, collecting>>

(* A share arrives; the shares of correct replicas are good.               *)
AddPartial(r, s) ==
    /\ s = "good" \/ r \in Faulty
    /\ Handle(addMsgWithPartialSignature(coll, r, s))

AddCombined(s) == Handle(addMsgWithCombinedSignature(coll, s))

(* Both callers make sure that nothing is expected yet: the entry has no   *)
(* PrePrepare message (prepare phase), or is neither committed nor signed  *)
(* by this replica (commit phase).                                         *)
SetExpected ==
    /\ coll.expected = NotSet
    /\ Handle(setExpected(coll, now))

(* Mutant: a result is handled whatever view or sequence number it is for. *)
MutantReportUnguarded(j) ==
    \E o \in onCompletion(coll, j) :
        coll' = o.coll /\ jobs' = (jobs \ {j}) \cup o.jobs

(* Mutant: a result for the shares is dropped when a combined signature    *)
(* has come meanwhile.                                                     *)
MutantReportDropsForCandidate(j) ==
    IF ~collecting /\ j.key = now /\ (j.kind = "shares" => coll.candidate = "none")
    THEN \E o \in onCompletion(coll, j) :
            coll' = o.coll /\ jobs' = (jobs \ {j}) \cup o.jobs
    ELSE jobs' = jobs \ {j} /\ UNCHANGED coll

(* The guard of the six result handlers; what they drop is gone.           *)
Report(j) ==
    IF ~collecting /\ j.key = now
    THEN \E o \in onCompletion(coll, j) :
            coll' = o.coll /\ jobs' = (jobs \ {j}) \cup o.jobs
    ELSE jobs' = jobs \ {j} /\ UNCHANGED coll

JobDone(j) == Report(j) /\ UNCHANGED <<now, collecting>>

MoveToHigherView ==
    /\ ~collecting
    /\ now[2] < MaxView
    /\ now' = <<now[1], now[2] + 1>>
    /\ coll' = resetContent(coll)
    /\ UNCHANGED <<collecting, jobs>>

AdvanceWindow ==
    /\ ~collecting
    /\ now[1] + kWorkWindowSize <= MaxSeq
    /\ now' = <<now[1] + kWorkWindowSize, now[2]>>
    /\ coll' = resetContent(coll)
    /\ UNCHANGED <<collecting, jobs>>

StartCollectingState ==
    /\ ~collecting
    /\ collecting' = TRUE
    /\ UNCHANGED <<now, coll, jobs>>

(* onTransferringCompleteImp: the new state may move the window, by one    *)
(* turn of the circular log or more; an entry that stays in the window is  *)
(* left as it is.                                                          *)
TransferringComplete(seq) ==
    /\ collecting
    /\ (seq - now[1]) % kWorkWindowSize = 0
    /\ collecting' = FALSE
    /\ now' = <<seq, now[2]>>
    /\ coll' = IF seq = now[1] THEN coll ELSE resetContent(coll)
    /\ UNCHANGED jobs

Next ==
    \/ \E r \in Replicas, s \in {"good", "bad"} : AddPartial(r, s)
    \/ \E s \in {"good", "bad"} : AddCombined(s)
    \/ SetExpected
    \/ \E j \in jobs : JobDone(j)
    \/ MoveToHigherView
    \/ AdvanceWindow
    \/ StartCollectingState
    \/ \E seq \in now[1] .. MaxSeq : TransferringComplete(seq)

Spec == Init /\ [][Next]_vars

(* The pool runs every job, and its result reaches a handler, which may    *)
(* drop it: internal messages are not lost on the way.  Nothing is assumed *)
(* of state transfers, which may begin at any time and last for ever.      *)
FairSpec == Spec /\ WF_vars(\E j \in jobs : JobDone(j))

-----------------------------------------------------------------------------
Keys == (1 .. MaxSeq) \X (0 .. MaxView)
CollectorType ==
    [expected : {NotSet} \cup Keys, processing : BOOLEAN,
     replicasInfo : [Replicas -> ShareStates], unknown : Nat,
     candidate : {"none", "good", "bad"}, combined : BOOLEAN]
JobType ==
    [kind : {"shares", "combined"}, key : Keys, ok : BOOLEAN, bad : SUBSET Replicas]

(* The collector, the keys and the results in flight have their types; in  *)
(* particular the unsigned numberOfUnknownSignatures never wraps.          *)
TypeOK ==
    /\ now \in Keys
    /\ collecting \in BOOLEAN
    /\ coll \in CollectorType
    /\ jobs \subseteq JobType

(* The Asserts on a reported result hold: a result that passes the guard   *)
(* of its handler meets the collector that asked for it, still waiting.    *)
ResultMeetsItsCollector ==
    \A j \in jobs : j.key = now => CompletionAsserts(coll, j)

(* At most one result for the current key is on its way: a second one      *)
(* would meet a collector that the first has completed or set going again. *)
OneJobInFlight ==
    \A i, j \in jobs : i.key = now /\ j.key = now => i = j

(* The collector waits (processingSignaturesInTheBackground) although no   *)
(* result will come.  Until the entry is reset it starts no other job.     *)
ResultLost == coll.processing /\ \A j \in jobs : j.key # now

(* The collector is left waiting for nothing only by a result that its     *)
(* handler drops because the replica collects state: no other step, and no *)
(* order of shares, combined signatures, results and resets, does it.      *)
LostOnlyWhileCollecting ==
    [][ResultLost' => ResultLost \/ collecting]_vars

(* numberOfUnknownSignatures counts the shares not known to be invalid, so *)
(* that trySendToBkThread always finds the shares it Asserts (line 243)    *)
(* and the unsigned counter never wraps.                                   *)
UnknownIsExact == coll.unknown = Cardinality(UnknownShares(coll))

(* Enough good shares complete the collector, whatever bad shares and bad  *)
(* combined signatures come in between, unless the entry is reset or its   *)
(* result was dropped by a state transfer (LostOnlyWhileCollecting).  It   *)
(* takes a job that finds the bad shares, so 2f+c+1 # N-1: with four       *)
(* replicas the collector may try the same bad share for ever.             *)
EnoughGoodShares ==
    /\ coll.expected = now
    /\ Cardinality({r \in Replicas : coll.replicasInfo[r] = "good"}) >= Required

GoodSharesComplete ==
    EnoughGoodShares ~> coll.combined \/ coll.expected = NotSet \/ ResultLost
=============================================================================
