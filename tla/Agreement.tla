----------------------------- MODULE Agreement -----------------------------
(***************************************************************************)
(* All replicas agreeing on one sequence number in one view: the two fast  *)
(* paths (partial proofs combined into a full commit proof by a collector) *)
(* and the slow path (prepare and commit phases combined by the primary),  *)
(* which run side by side on the same entry of each replica's log.         *)
(*                                                                         *)
(* Up to F replicas are Byzantine: they sign anything, and send what can   *)
(* be built from existing shares to whom they like.  A share of a correct  *)
(* replica is known from that replica's state; a message once sent can be  *)
(* received at any later time, early ones being kept or asked for again    *)
(* with ReqMissingData.  Signature jobs take no time here; ReplicaSlot     *)
(* and CollectorLife deal with their delays.                               *)
(***************************************************************************)
EXTENDS Integers, FiniteSets

CONSTANTS
    Replicas,
    Byz,            \* the Byzantine replicas
    F, C,           \* fVal and cVal
    Primary,        \* primaryOfView of the view
    Collectors,     \* getCollectorsForPartialProofs
    Digests,        \* digests of the proposals a primary may make
    Paths           \* the first paths a primary may choose

ASSUME AgreementAssumption ==
    /\ F \in Nat
    /\ C \in Nat
    /\ IsFiniteSet(Replicas)
    /\ Cardinality(Replicas) = 3*F + 2*C + 1
    /\ Byz \subseteq Replicas
    /\ Cardinality(Byz) <= F
    /\ Primary \in Replicas
    /\ Collectors \subseteq Replicas
    /\ Paths \subseteq {"OPTIMISTIC_FAST", "FAST_WITH_THRESHOLD", "SLOW"}

Correct == Replicas \ Byz

(* The numbers of shares in a combined signature.  The mutant asks for one *)
(* prepare or commit share less.                                           *)
OptimisticQuorum == 3*F + 2*C + 1
FastQuorum == 3*F + C + 1
MutantSlowQuorum == 2*F + C
SlowQuorum == 2*F + C + 1
ViewChangeQuorum == 2*F + 2*C + 1
Threshold(path) ==
    IF path = "OPTIMISTIC_FAST" THEN OptimisticQuorum ELSE FastQuorum

FastPaths == {"OPTIMISTIC_FAST", "FAST_WITH_THRESHOLD"}
PrePrepares == [digest : Digests, path : Paths]
NoPP == [digest |-> "none", path |-> "none"]

ASSUME DigestAssumption == "none" \notin Digests

VARIABLES           \* functions over the correct replicas
    pp,             \* the PrePrepare message of the entry, or NoPP
    slowStarted,    \* slowPathStarted
    proof,          \* a partial commit proof for pp was signed
    prepareShare,   \* a prepare share for pp was signed
    prepared,       \* the collector holds the combined prepare signature
    commitShare,    \* a commit share for pp was signed
    commitFull,     \* the collector holds the combined commit signature
    fullProof,      \* the full commit proof is there
    sent            \* combined signatures sent to all by their collector

vars == <<pp, slowStarted, proof, prepareShare, prepared, commitShare,
          commitFull, fullProof, sent>>

Init ==
    /\ pp = [r \in Correct |-> NoPP]
    /\ slowStarted = [r \in Correct |-> FALSE]
    /\ proof = [r \in Correct |-> FALSE]
    /\ prepareShare = [r \in Correct |-> FALSE]
    /\ prepared = [r \in Correct |-> FALSE]
    /\ commitShare = [r \in Correct |-> FALSE]
    /\ commitFull = [r \in Correct |-> FALSE]
    /\ fullProof = [r \in Correct |-> FALSE]
    /\ sent = {}

-----------------------------------------------------------------------------
(* The replicas that signed, or, being Byzantine, may have signed, for d.  *)
ProofSigners(d, path) ==
    Byz \cup {r \in Correct : proof[r] /\ pp[r] = [digest |-> d, path |-> path]}
PrepareSigners(d) ==
    Byz \cup {r \in Correct : prepareShare[r] /\ pp[r].digest = d}
CommitSigners(d) ==
    Byz \cup {r \in Correct : commitShare[r] /\ pp[r].digest = d}

(* A valid combined signature can be built from the existing shares.       *)
ProofExists(d, path) ==
    Cardinality(ProofSigners(d, path)) >= Threshold(path)
PrepareExists(d) == Cardinality(PrepareSigners(d)) >= SlowQuorum
CommitExists(d) == Cardinality(CommitSigners(d)) >= SlowQuorum

ProofMsg(m) == [type |-> "FullCommitProof", digest |-> m.digest, path |-> m.path]
PrepareMsg(d) == [type |-> "PrepareFull", digest |-> d]
CommitMsg(d) == [type |-> "CommitFull", digest |-> d]
Msgs == {ProofMsg(m) : m \in PrePrepares} \cup {PrepareMsg(d) : d \in Digests}
            \cup {CommitMsg(d) : d \in Digests}

hasPrePrepareMsg(r) == pp[r] # NoPP
isPrepared(r) == fullProof[r] \/ prepared[r]
isCommitted(r) == fullProof[r] \/ commitFull[r]

(* sendPreparePartial: signs once, if the PrePrepare message is there and  *)
(* the entry is not prepared.                                              *)
PrepareShareAfter(r, hasPP) ==
    [prepareShare EXCEPT ![r] = @ \/ (hasPP /\ ~isPrepared(r))]

(* The primary makes any proposal, and sends one only if it is correct.    *)
ProposalArrives(r, m) ==
    IF r = Primary \/ Primary \in Byz THEN TRUE ELSE pp[Primary] = m

(* Mutant: a replica replaces the PrePrepare message it has.               *)
MutantAcceptPrePrepare(r, m) ==
    /\ ProposalArrives(r, m)
    /\ pp' = [pp EXCEPT ![r] = m]
    /\ IF m.path # "SLOW" /\ ~slowStarted[r]
       THEN /\ proof' = [proof EXCEPT ![r] = TRUE]
            /\ UNCHANGED <<slowStarted, prepareShare>>
       ELSE /\ slowStarted' = [slowStarted EXCEPT ![r] = TRUE]
            /\ prepareShare' = PrepareShareAfter(r, TRUE)
            /\ UNCHANGED proof
    /\ UNCHANGED <<prepared, commitShare, commitFull, fullProof, sent>>

(* A replica gets the PrePrepare message: the correct primary its own      *)
(* (tryToSendPrePrepareMsg), a backup the one of the primary (onMessage).  *)
(* It signs for the fast path unless the slow one has begun.               *)
AcceptPrePrepare(r, m) ==
    /\ ~hasPrePrepareMsg(r)
    /\ ProposalArrives(r, m)
    /\ pp' = [pp EXCEPT ![r] = m]
    /\ IF m.path # "SLOW" /\ ~slowStarted[r]
       THEN /\ proof' = [proof EXCEPT ![r] = TRUE]
            /\ UNCHANGED <<slowStarted, prepareShare>>
       ELSE /\ slowStarted' = [slowStarted EXCEPT ![r] = TRUE]
            /\ prepareShare' = PrepareShareAfter(r, TRUE)
            /\ UNCHANGED proof
    /\ UNCHANGED <<prepared, commitShare, commitFull, fullProof, sent>>

(* tryToStartSlowPaths: the fast path takes the primary too long.          *)
PrimaryStartsSlowPath ==
    /\ Primary \in Correct
    /\ ~fullProof[Primary]
    /\ ~slowStarted[Primary]
    /\ proof[Primary]
    /\ slowStarted' = [slowStarted EXCEPT ![Primary] = TRUE]
    /\ prepareShare' = PrepareShareAfter(Primary, TRUE)
    /\ UNCHANGED <<pp, proof, prepared, commitShare, commitFull, fullProof, sent>>

(* onMessage(StartSlowCommitMsg), before or after the PrePrepare message.  *)
RecvStartSlowCommit(r) ==
    /\ r # Primary
    /\ IF Primary \in Byz THEN TRUE ELSE slowStarted[Primary]
    /\ ~slowStarted[r]
    /\ ~isPrepared(r)
    /\ slowStarted' = [slowStarted EXCEPT ![r] = TRUE]
    /\ prepareShare' = PrepareShareAfter(r, hasPrePrepareMsg(r))
    /\ UNCHANGED <<pp, proof, prepared, commitShare, commitFull, fullProof, sent>>

-----------------------------------------------------------------------------
(* Mutant: a collector does not wait for its own partial proof.            *)
MutantCombineProofs(r) ==
    /\ r \in Collectors
    /\ ~fullProof[r]
    /\ \E m \in PrePrepares : ProofExists(m.digest, m.path)
    /\ fullProof' = [fullProof EXCEPT ![r] = TRUE]
    /\ sent' = sent \cup {ProofMsg(pp[r])}
    /\ UNCHANGED <<pp, slowStarted, proof, prepareShare, prepared, commitShare,
                   commitFull>>

(* A collector combines the partial proofs, sends the full proof to all    *)
(* and accepts it (onInternalMsg(FullCommitProofMsg)).                     *)
CombineProofs(r) ==
    /\ r \in Collectors
    /\ proof[r]
    /\ ~fullProof[r]
    /\ ProofExists(pp[r].digest, pp[r].path)
    /\ fullProof' = [fullProof EXCEPT ![r] = TRUE]
    /\ sent' = sent \cup {ProofMsg(pp[r])}
    /\ UNCHANGED <<pp, slowStarted, proof, prepareShare, prepared, commitShare,
                   commitFull>>

(* A combined signature reaches replica r: it was sent to all, a replica   *)
(* that has it resends it, or a Byzantine replica built it.                *)
ProofArrives(r) ==
    \/ ProofMsg(pp[r]) \in sent
    \/ \E q \in Correct : fullProof[q] /\ pp[q] = pp[r]
PrepareArrives(r) ==
    \/ PrepareMsg(pp[r].digest) \in sent
    \/ \E q \in Correct : prepared[q] /\ pp[q].digest = pp[r].digest
CommitArrives(r) ==
    \/ CommitMsg(pp[r].digest) \in sent
    \/ \E q \in Correct : commitFull[q] /\ pp[q].digest = pp[r].digest

(* onMessage(FullCommitProofMsg): only a replica with a partial proof of   *)
(* its own accepts the message (PartialProofsSet::addMsg), verifying it    *)
(* for the path of that proof.                                             *)
RecvFullCommitProof(r) ==
    /\ proof[r]
    /\ ~fullProof[r]
    /\ \/ ProofArrives(r)
       \/ Byz # {} /\ ProofExists(pp[r].digest, pp[r].path)
    /\ fullProof' = [fullProof EXCEPT ![r] = TRUE]
    /\ UNCHANGED <<pp, slowStarted, proof, prepareShare, prepared, commitShare,
                   commitFull, sent>>

(* Mutant: only the primary signs a commit share.                          *)
MutantPrepare(r) ==
    /\ hasPrePrepareMsg(r)
    /\ ~prepared[r]
    /\ prepared' = [prepared EXCEPT ![r] = TRUE]
    /\ commitShare' = [commitShare EXCEPT ![r] = ~fullProof[r] /\ r = Primary]
    /\ UNCHANGED <<pp, slowStarted, proof, prepareShare, commitFull, fullProof>>

(* The entry becomes prepared; a commit share is signed unless the full    *)
(* proof came while the signature was processed.                           *)
Prepare(r) ==
    /\ hasPrePrepareMsg(r)
    /\ ~prepared[r]
    /\ prepared' = [prepared EXCEPT ![r] = TRUE]
    /\ commitShare' = [commitShare EXCEPT ![r] = ~fullProof[r]]
    /\ UNCHANGED <<pp, slowStarted, proof, prepareShare, commitFull, fullProof>>

(* onPrepareCombinedSigSucceeded, at the primary.                          *)
CombinePrepares ==
    /\ Primary \in Correct
    /\ PrepareExists(pp[Primary].digest)
    /\ Prepare(Primary)
    /\ sent' = IF fullProof[Primary] THEN sent
               ELSE sent \cup {PrepareMsg(pp[Primary].digest)}

(* onMessage(PrepareFullMsg) and onPrepareVerifyCombinedSigResult.         *)
RecvPrepareFull(r) ==
    /\ \/ PrepareArrives(r)
       \/ Byz # {} /\ PrepareExists(pp[r].digest)
    /\ Prepare(r)
    /\ UNCHANGED sent

(* The collector of the commit phase expects a digest once the replica     *)
(* signed its own commit share (addSelfCommitPartialMsgAndDigest).         *)
Commit(r) ==
    /\ commitShare[r]
    /\ ~commitFull[r]
    /\ commitFull' = [commitFull EXCEPT ![r] = TRUE]
    /\ UNCHANGED <<pp, slowStarted, proof, prepareShare, prepared, commitShare,
                   fullProof>>

(* onCommitCombinedSigSucceeded, at the primary.                           *)
CombineCommits ==
    /\ Primary \in Correct
    /\ CommitExists(pp[Primary].digest)
    /\ Commit(Primary)
    /\ sent' = IF fullProof[Primary] THEN sent
               ELSE sent \cup {CommitMsg(pp[Primary].digest)}

(* onMessage(CommitFullMsg) and onCommitVerifyCombinedSigResult.           *)
RecvCommitFull(r) ==
    /\ \/ CommitArrives(r)
       \/ Byz # {} /\ CommitExists(pp[r].digest)
    /\ Commit(r)
    /\ UNCHANGED sent

Next ==
    \/ PrimaryStartsSlowPath
    \/ CombinePrepares
    \/ CombineCommits
    \/ \E r \in Correct :
        \/ \E m \in PrePrepares : AcceptPrePrepare(r, m)
        \/ RecvStartSlowCommit(r)
        \/ CombineProofs(r)
        \/ RecvFullCommitProof(r)
        \/ RecvPrepareFull(r)
        \/ RecvCommitFull(r)

Spec == Init /\ [][Next]_vars

(* A correct primary proposes, and its timer starts the slow path if the   *)
(* fast one lasts; messages between correct replicas arrive, being resent  *)
(* on request.  The primary combines shares when those of correct replicas *)
(* suffice.  CollectorLife says when its collector does that: while no     *)
(* state transfer drops a result, and, with four replicas, as long as no   *)
(* bad share is among those it tries (GoodSharesComplete).  So no correct  *)
(* replica collects state in the view, and where 2F+C+1 is one less than N *)
(* the Byzantine replicas may be silent, or help, but send the primary no  *)
(* bad shares.                                                             *)
CorrectSigners(S) == Cardinality(S \ Byz)
Fairness ==
    /\ WF_vars(PrimaryStartsSlowPath)
    /\ WF_vars(/\ CorrectSigners(PrepareSigners(pp[Primary].digest)) >= SlowQuorum
               /\ CombinePrepares)
    /\ WF_vars(/\ CorrectSigners(CommitSigners(pp[Primary].digest)) >= SlowQuorum
               /\ CombineCommits)
    /\ \A r \in Correct :
        /\ WF_vars(\E m \in PrePrepares : AcceptPrePrepare(r, m))
        /\ WF_vars(RecvStartSlowCommit(r))
        /\ WF_vars(ProofArrives(r) /\ RecvFullCommitProof(r))
        /\ WF_vars(PrepareArrives(r) /\ RecvPrepareFull(r))
        /\ WF_vars(CommitArrives(r) /\ RecvCommitFull(r))

FairSpec == Spec /\ Fairness

-----------------------------------------------------------------------------
(* Every variable has its type; in particular each replica keeps at most   *)
(* one proposal and only existing combined signatures are sent.            *)
TypeOK ==
    /\ pp \in [Correct -> PrePrepares \cup {NoPP}]
    /\ slowStarted \in [Correct -> BOOLEAN]
    /\ proof \in [Correct -> BOOLEAN]
    /\ prepareShare \in [Correct -> BOOLEAN]
    /\ prepared \in [Correct -> BOOLEAN]
    /\ commitShare \in [Correct -> BOOLEAN]
    /\ commitFull \in [Correct -> BOOLEAN]
    /\ fullProof \in [Correct -> BOOLEAN]
    /\ sent \subseteq Msgs

(* Two correct replicas that commit the sequence number in this view, each *)
(* on whichever path completed for it (isCommitted__gg), commit the same   *)
(* requests.                                                               *)
Consistency ==
    \A r, q \in Correct :
        isCommitted(r) /\ isCommitted(q) => pp[r].digest = pp[q].digest

(* What every certificate stands for, kept by every step: a correct        *)
(* replica signs only for the one proposal it has, a commit share only     *)
(* once prepared, and a combined signature that it holds or sent is backed *)
(* by the shares of enough replicas for the proposal it has now.           *)
CertificatesAreBacked ==
    /\ \A r \in Correct :
        /\ proof[r] \/ prepareShare[r] \/ prepared[r] => hasPrePrepareMsg(r)
        /\ commitShare[r] => prepared[r]
        /\ commitFull[r] => commitShare[r]
        /\ fullProof[r] => proof[r]
    /\ \A m \in PrePrepares :
        (ProofMsg(m) \in sent \/ \E r \in Correct : fullProof[r] /\ pp[r] = m)
            => ProofExists(m.digest, m.path)
    /\ \A d \in Digests :
        (PrepareMsg(d) \in sent \/ \E r \in Correct : prepared[r] /\ pp[r].digest = d)
            => PrepareExists(d)
    /\ \A d \in Digests :
        (CommitMsg(d) \in sent \/ \E r \in Correct : commitFull[r] /\ pp[r].digest = d)
            => CommitExists(d)

(* What the view change relies on (computeRestrictionsForSeqNum): once a   *)
(* correct replica committed d, no prepared certificate for other requests *)
(* can be made in this view, and any 2F+2C+1 replicas, whichever they are, *)
(* include either a correct one with a prepared certificate for d or F+C+1 *)
(* correct ones that report d without.                                     *)
Holders(d) == {r \in Correct : pp[r].digest = d}
Certified(d) == {r \in Correct : prepared[r] /\ pp[r].digest = d}
CommittedIsRecoverable ==
    \A r \in Correct : isCommitted(r) =>
        /\ \A d \in Digests \ {pp[r].digest} : ~PrepareExists(d)
        /\ \A Q \in SUBSET Replicas : Cardinality(Q) = ViewChangeQuorum =>
            \/ Q \cap Certified(pp[r].digest) # {}
            \/ Cardinality(Q \cap Holders(pp[r].digest)) >= F + C + 1

(* With c = 0 and a correct primary, every correct replica commits the     *)
(* number in the view, although some finish on the fast path, and then     *)
(* refuse to sign on the slow one, while others have already left the fast *)
(* path.  With c > 0 it is false (EarlySlowCommitHandled): a fast path     *)
(* that needs not all replicas may leave one behind that gave it up.       *)
EveryoneCommits ==
    C = 0 /\ Primary \in Correct => \A r \in Correct : <>isCommitted(r)

(* A replica that handles StartSlowCommitMsg before the PrePrepare message *)
(* commits the number too: the case that the comment in                    *)
(* onMessage(PrePrepareMsg) asks to handle correctly.                      *)
EarlySlowCommitHandled ==
    \A r \in Correct :
        (slowStarted[r] /\ ~hasPrePrepareMsg(r)) ~> isCommitted(r)
=============================================================================
