------------------- MODULE CollectorOfThresholdSignatures -------------------
(***************************************************************************)
(* CollectorOfThresholdSignatures.hpp: gathers the signature shares of one *)
(* phase of one sequence number and has them combined, or a received       *)
(* combined signature verified, by a background job.  This module holds    *)
(* the operations on one collector; a collector is a record:               *)
(*                                                                         *)
(*   expected     <<expectedSeqNumber, expectedView>>                      *)
(*   processing   processingSignaturesInTheBackground                      *)
(*   replicasInfo per replica: no share, a share of state Unknown that is  *)
(*                in fact "good" or "bad", or a share found "invalid"      *)
(*   unknown      numberOfUnknownSignatures                                *)
(*   candidate    candidateCombinedSignatureMsg, "good", "bad" or "none"   *)
(*   combined     combinedValidSignatureMsg # nullptr                      *)
(*                                                                         *)
(* An operation that may start a job yields the set of its outcomes, pairs *)
(* of the new collector and the jobs (none or one) handed to the thread    *)
(* pool.  A job is represented by the result it will report.               *)
(***************************************************************************)
EXTENDS Integers, FiniteSets, FiniteSetsExt

CONSTANTS
    Replicas,
    Required        \* ExternalFunc::numberOfRequiredSignatures, 2f+c+1

NotSet == <<0, 0>>

ShareStates == {"none", "good", "bad", "invalid"}

UnknownShares(c) == {r \in Replicas : c.replicasInfo[r] \in {"good", "bad"}}
BadShares(c) == {r \in Replicas : c.replicasInfo[r] = "bad"}

EmptyCollector ==
    [expected |-> NotSet, processing |-> FALSE,
     replicasInfo |-> [r \in Replicas |-> "none"], unknown |-> 0,
     candidate |-> "none", combined |-> FALSE]

(* The bad shares among S that a second accumulator, one asked to verify   *)
(* each share, leaves out.  If all replicas but one have to sign, new-     *)
(* Accumulator gives the one for that case, which verifies no share.       *)
replicasWithBadSigs(c, S) ==
    IF Required = Cardinality(Replicas) - 1 THEN {} ELSE S \cap BadShares(c)

(* SignaturesProcessingJob::execute on the shares S of c.                  *)
SignaturesProcessingJob(c, S) ==
    [kind |-> "shares", key |-> c.expected,
     ok |-> S \cap BadShares(c) = {}, bad |-> replicasWithBadSigs(c, S)]

(* CombinedSigVerificationJob::execute on the candidate of c.              *)
CombinedSigVerificationJob(c) ==
    [kind |-> "combined", key |-> c.expected,
     ok |-> c.candidate = "good", bad |-> {}]

Outcome(c, jobs) == [coll |-> c, jobs |-> jobs]
InBackground(c, j) == Outcome([c EXCEPT !.processing = TRUE], {j})

(* Mutant: a job is started although one is still running.                 *)
MutantTrySendWhileProcessing(c) ==
    IF c.expected = NotSet
    THEN {Outcome(c, {})}
    ELSE IF c.candidate # "none"
    THEN {InBackground(c, CombinedSigVerificationJob(c))}
    ELSE IF c.unknown >= Required
    THEN {InBackground(c, SignaturesProcessingJob(c, S)) :
            S \in kSubset(Required, UnknownShares(c))}
    ELSE {Outcome(c, {})}

(* A candidate is verified first; otherwise enough shares not known to be  *)
(* invalid are combined, in the order of an unordered_map, which is any.   *)
trySendToBkThread(c) ==
    IF c.processing \/ c.expected = NotSet
    THEN {Outcome(c, {})}
    ELSE IF c.candidate # "none"
    THEN {InBackground(c, CombinedSigVerificationJob(c))}
    ELSE IF c.unknown >= Required
    THEN {InBackground(c, SignaturesProcessingJob(c, S)) :
            S \in kSubset(Required, UnknownShares(c))}
    ELSE {Outcome(c, {})}

hasPartialMsgFromReplica(c, r) == c.replicasInfo[r] # "none"

(* s is "good" or "bad"; a second share, or one that comes after the       *)
(* combined signature, is refused.                                         *)
addMsgWithPartialSignature(c, r, s) ==
    IF c.combined \/ hasPartialMsgFromReplica(c, r)
    THEN {Outcome(c, {})}
    ELSE trySendToBkThread(
            [c EXCEPT !.replicasInfo = [c.replicasInfo EXCEPT ![r] = s],
                      !.unknown = c.unknown + 1])

(* Mutant: a combined signature is taken as valid if its digest is not     *)
(* known yet.                                                              *)
MutantAcceptUnverified(c, s) ==
    IF c.combined \/ c.candidate # "none"
    THEN {Outcome(c, {})}
    ELSE IF c.expected = NotSet
    THEN {Outcome([c EXCEPT !.combined = TRUE], {})}
    ELSE trySendToBkThread([c EXCEPT !.candidate = s])

addMsgWithCombinedSignature(c, s) ==
    IF c.combined \/ c.candidate # "none"
    THEN {Outcome(c, {})}
    ELSE trySendToBkThread([c EXCEPT !.candidate = s])

setExpected(c, key) == trySendToBkThread([c EXCEPT !.expected = key])

(* resetAndFree and getAndReset leave the same collector behind.  A        *)
(* collector that holds nothing is left alone, which is no different.      *)
resetContent(c) == EmptyCollector

-----------------------------------------------------------------------------
(* Mutant: the unknown counter is not lowered for bad shares.              *)
MutantKeepUnknown(c, j) ==
    trySendToBkThread(
        [c EXCEPT !.processing = FALSE,
                  !.replicasInfo = [r \in Replicas |->
                        IF r \in j.bad THEN "invalid" ELSE c.replicasInfo[r]]])

(* Mutant: no new attempt is made after bad shares were found.             *)
MutantNoRetry(c, j) ==
    {Outcome([c EXCEPT !.processing = FALSE,
                       !.replicasInfo = [r \in Replicas |->
                            IF r \in j.bad THEN "invalid" ELSE c.replicasInfo[r]],
                       !.unknown = c.unknown - Cardinality(j.bad)], {})}

(* onCompletionOfSignaturesProcessing with bad signatures found.           *)
onSharesFailed(c, j) ==
    trySendToBkThread(
        [c EXCEPT !.processing = FALSE,
                  !.replicasInfo = [r \in Replicas |->
                        IF r \in j.bad THEN "invalid" ELSE c.replicasInfo[r]],
                  !.unknown = c.unknown - Cardinality(j.bad)])

(* onCompletionOfSignaturesProcessing with the combined signature.         *)
onSharesCombined(c) ==
    {Outcome([c EXCEPT !.processing = FALSE, !.candidate = "none",
                       !.combined = TRUE], {})}

onCompletionOfCombinedSigVerification(c, j) ==
    IF j.ok
    THEN {Outcome([c EXCEPT !.processing = FALSE, !.candidate = "none",
                            !.combined = TRUE], {})}
    ELSE trySendToBkThread([c EXCEPT !.processing = FALSE,
                                     !.candidate = "none"])

onCompletion(c, j) ==
    IF j.kind = "combined" THEN onCompletionOfCombinedSigVerification(c, j)
    ELSE IF j.ok THEN onSharesCombined(c) ELSE onSharesFailed(c, j)

-----------------------------------------------------------------------------
(* The Asserts of the three completion handlers (lines 135-138, 155-158,   *)
(* 174-178), of setExpected (76-78) and of trySendToBkThread (200, 243).   *)
CompletionAsserts(c, j) ==
    /\ c.expected = j.key
    /\ c.processing
    /\ ~c.combined
    /\ j.kind = "combined" => c.candidate # "none"

SetExpectedAsserts(c, key) ==
    /\ key[1] # 0
    /\ c.expected = NotSet
    /\ ~c.processing
    /\ ~c.combined

EnoughSharesForJob(c) ==
    c.unknown >= Required => Cardinality(UnknownShares(c)) >= Required
=============================================================================
