-------------------------- MODULE AgreementProofs --------------------------
(***************************************************************************)
(* Proofs about Agreement, for every F and C, every set of 3F+2C+1         *)
(* replicas and every choice of at most F Byzantine ones.                  *)
(***************************************************************************)
EXTENDS Agreement, FiniteSetTheorems, TLAPS

(* A leaf that names no prover is for the SMT solver.                      *)
USE SMTT(90)

-----------------------------------------------------------------------------
(* Quorums.                                                                *)

(* A subset of the replicas is finite and no larger than all of them.      *)
LEMMA SubsetOfReplicas ==
    ASSUME NEW S \in SUBSET Replicas
    PROVE  /\ IsFiniteSet(S)
           /\ Cardinality(S) \in Nat
           /\ Cardinality(S) <= 3*F + 2*C + 1
BY FS_Subset, FS_CardinalityType, AgreementAssumption

(* Sets of a and b replicas share at least a + b - N of them.              *)
LEMMA Overlap ==
    ASSUME NEW A \in SUBSET Replicas, NEW B \in SUBSET Replicas
    PROVE  Cardinality(A \cap B) >=
               Cardinality(A) + Cardinality(B) - (3*F + 2*C + 1)
<1>1. IsFiniteSet(A) /\ IsFiniteSet(B)
  BY SubsetOfReplicas
<1>2. Cardinality(A \cup B) = Cardinality(A) + Cardinality(B) - Cardinality(A \cap B)
  BY <1>1, FS_Union
<1>3. /\ A \cup B \in SUBSET Replicas
      /\ A \cap B \in SUBSET Replicas
  OBVIOUS
<1>4. /\ Cardinality(A \cup B) \in Nat
      /\ Cardinality(A \cup B) <= 3*F + 2*C + 1
      /\ Cardinality(A \cap B) \in Nat
      /\ Cardinality(A) \in Nat
      /\ Cardinality(B) \in Nat
  BY <1>3, SubsetOfReplicas
<1>5. F \in Nat /\ C \in Nat
  BY AgreementAssumption
<1> QED
  BY <1>2, <1>4, <1>5

(* Of a set of replicas, at most F are not correct.                        *)
LEMMA CorrectPart ==
    ASSUME NEW A \in SUBSET Replicas
    PROVE  Cardinality(A \cap Correct) >= Cardinality(A) - F
<1>1. IsFiniteSet(A) /\ IsFiniteSet(Byz)
  BY SubsetOfReplicas, AgreementAssumption
<1>2. A \cap Correct = A \ Byz
  BY DEF Correct
<1>3. /\ Cardinality(A \ Byz) = Cardinality(A) - Cardinality(A \cap Byz)
  BY <1>1, FS_Difference
<1>4. Cardinality(A \cap Byz) <= Cardinality(Byz)
  BY <1>1, FS_Subset
<1>5. /\ A \cap Byz \in SUBSET Replicas
      /\ Byz \in SUBSET Replicas
  BY AgreementAssumption
<1>6. /\ Cardinality(A \cap Byz) \in Nat
      /\ Cardinality(Byz) \in Nat
      /\ Cardinality(A) \in Nat
  BY <1>5, SubsetOfReplicas
<1>7. F \in Nat /\ Cardinality(Byz) <= F
  BY AgreementAssumption
<1> QED
  BY <1>2, <1>3, <1>4, <1>6, <1>7

(* A set with a member, stated through its cardinality.                    *)
LEMMA NonEmpty ==
    ASSUME NEW A \in SUBSET Replicas, Cardinality(A) >= 1
    PROVE  A # {}
BY FS_EmptySet

(* Two sets of 2F+C+1 replicas share a correct one.                        *)
LEMMA QuorumsMeet ==
    ASSUME NEW A \in SUBSET Replicas, NEW B \in SUBSET Replicas,
           Cardinality(A) >= SlowQuorum, Cardinality(B) >= SlowQuorum
    PROVE  \E r \in Correct : r \in A /\ r \in B
<1>1. /\ Cardinality(A) \in Nat
      /\ Cardinality(B) \in Nat
      /\ A \cap B \in SUBSET Replicas
      /\ (A \cap B) \cap Correct \in SUBSET Replicas
  BY SubsetOfReplicas DEF Correct
<1>2. /\ Cardinality(A \cap B) \in Nat
      /\ Cardinality((A \cap B) \cap Correct) \in Nat
  BY <1>1, SubsetOfReplicas
<1>3. Cardinality(A \cap B) >= Cardinality(A) + Cardinality(B) - (3*F + 2*C + 1)
  BY Overlap
<1>4. Cardinality((A \cap B) \cap Correct) >= Cardinality(A \cap B) - F
  BY <1>1, CorrectPart
<1>5. F \in Nat /\ C \in Nat
  BY AgreementAssumption
<1>6. Cardinality((A \cap B) \cap Correct) >= 1
  BY <1>1, <1>2, <1>3, <1>4, <1>5 DEF SlowQuorum
<1> QED
  BY <1>1, <1>6, NonEmpty

-----------------------------------------------------------------------------
(* Type correctness.                                                       *)

(* The inductive invariant.  The type of sent needs the rest: a message is *)
(* made from the proposal of its sender, which must have one.              *)
IInv == TypeOK /\ CertificatesAreBacked

(* A replica with a PrePrepare message has one that a primary can make.    *)
LEMMA HasProposal ==
    ASSUME TypeOK, NEW r \in Correct, hasPrePrepareMsg(r)
    PROVE  /\ pp[r] \in PrePrepares
           /\ pp[r].digest \in Digests
BY DEF TypeOK, hasPrePrepareMsg, PrePrepares

(* Every proposal and signature a replica takes over has its type.         *)
LEMMA TypeStep == IInv /\ [Next]_vars => TypeOK'
<1> SUFFICES ASSUME IInv, [Next]_vars PROVE TypeOK'
  OBVIOUS
<1> USE DEF TypeOK
<1>0. TypeOK
  BY DEF IInv
<1>1. ASSUME NEW r \in Correct, NEW m \in PrePrepares, AcceptPrePrepare(r, m)
      PROVE  TypeOK'
  BY <1>0, <1>1, Zenon DEF AcceptPrePrepare, PrepareShareAfter, isPrepared
<1>2. CASE PrimaryStartsSlowPath
  BY <1>0, <1>2 DEF PrimaryStartsSlowPath, PrepareShareAfter, isPrepared
<1>3. ASSUME NEW r \in Correct, RecvStartSlowCommit(r) PROVE TypeOK'
  BY <1>0, <1>3 DEF RecvStartSlowCommit, PrepareShareAfter, isPrepared,
     hasPrePrepareMsg
<1>4. ASSUME NEW r \in Correct, CombineProofs(r) PROVE TypeOK'
  <2>1. pp[r] \in PrePrepares
    BY <1>0, <1>4, HasProposal DEF CombineProofs, IInv, CertificatesAreBacked
  <2>2. ProofMsg(pp[r]) \in Msgs
    BY <2>1 DEF Msgs
  <2> QED
    BY <1>0, <1>4, <2>2 DEF CombineProofs
<1>5. ASSUME NEW r \in Correct, RecvFullCommitProof(r) PROVE TypeOK'
  BY <1>0, <1>5 DEF RecvFullCommitProof
<1>6. CASE CombinePrepares
  <2>1. pp[Primary].digest \in Digests
    BY <1>0, <1>6, HasProposal DEF CombinePrepares, Prepare
  <2>2. PrepareMsg(pp[Primary].digest) \in Msgs
    BY <2>1 DEF Msgs
  <2> QED
    BY <1>0, <1>6, <2>2 DEF CombinePrepares, Prepare
<1>7. ASSUME NEW r \in Correct, RecvPrepareFull(r) PROVE TypeOK'
  BY <1>0, <1>7 DEF RecvPrepareFull, Prepare
<1>8. CASE CombineCommits
  <2>1. pp[Primary].digest \in Digests
    BY <1>0, <1>8, HasProposal DEF CombineCommits, Commit, IInv, CertificatesAreBacked
  <2>2. CommitMsg(pp[Primary].digest) \in Msgs
    BY <2>1 DEF Msgs
  <2> QED
    BY <1>0, <1>8, <2>2 DEF CombineCommits, Commit
<1>9. ASSUME NEW r \in Correct, RecvCommitFull(r) PROVE TypeOK'
  BY <1>0, <1>9 DEF RecvCommitFull, Commit
<1>10. CASE UNCHANGED vars
  BY <1>0, <1>10 DEF vars
<1> QED
  BY <1>1, <1>2, <1>3, <1>4, <1>5, <1>6, <1>7, <1>8, <1>9, <1>10 DEF Next

-----------------------------------------------------------------------------
(* Shares are never taken back.                                            *)

(* A step changes no proposal and withdraws no share.                      *)
Grows ==
    \A r \in Correct :
        /\ hasPrePrepareMsg(r) => pp'[r] = pp[r]
        /\ proof[r] => proof'[r]
        /\ prepareShare[r] => prepareShare'[r]
        /\ commitShare[r] => commitShare'[r]

(* Every step is one of those.  A replica that signs a commit share had    *)
(* signed none before, as it was not prepared.                             *)
LEMMA StepGrows == IInv /\ [Next]_vars => Grows
<1> SUFFICES ASSUME IInv, [Next]_vars, NEW q \in Correct
             PROVE  /\ hasPrePrepareMsg(q) => pp'[q] = pp[q]
                    /\ proof[q] => proof'[q]
                    /\ prepareShare[q] => prepareShare'[q]
                    /\ commitShare[q] => commitShare'[q]
  BY DEF Grows
<1> USE DEF IInv, TypeOK
<1>1. ASSUME NEW r \in Correct, NEW m \in PrePrepares, AcceptPrePrepare(r, m)
      PROVE  /\ hasPrePrepareMsg(q) => pp'[q] = pp[q]
             /\ proof[q] => proof'[q]
             /\ prepareShare[q] => prepareShare'[q]
             /\ commitShare[q] => commitShare'[q]
  BY <1>1 DEF AcceptPrePrepare, PrepareShareAfter
<1>2. CASE PrimaryStartsSlowPath
  BY <1>2 DEF PrimaryStartsSlowPath, PrepareShareAfter
<1>3. CASE \E r \in Correct : RecvStartSlowCommit(r)
  BY <1>3 DEF RecvStartSlowCommit, PrepareShareAfter
<1>4. CASE \E r \in Correct : CombineProofs(r) \/ RecvFullCommitProof(r)
  BY <1>4 DEF CombineProofs, RecvFullCommitProof
<1>5. CASE CombinePrepares \/ \E r \in Correct : RecvPrepareFull(r)
  <2>1. PICK r \in Correct : Prepare(r)
    BY <1>5 DEF CombinePrepares, RecvPrepareFull
  <2>2. ~commitShare[r]
    BY <2>1 DEF Prepare, CertificatesAreBacked
  <2> QED
    BY <2>1, <2>2 DEF Prepare
<1>6. CASE CombineCommits \/ \E r \in Correct : RecvCommitFull(r)
  BY <1>6 DEF CombineCommits, RecvCommitFull, Commit
<1>7. CASE UNCHANGED vars
  BY <1>7 DEF vars
<1> QED
  BY <1>1, <1>2, <1>3, <1>4, <1>5, <1>6, <1>7 DEF Next

(* Hence a combined signature that can be built can still be built later.  *)
LEMMA CertificatesLast ==
    ASSUME IInv, Grows
    PROVE  /\ \A d \in Digests : PrepareExists(d) => PrepareExists(d)'
           /\ \A d \in Digests : CommitExists(d) => CommitExists(d)'
           /\ \A m \in PrePrepares :
                ProofExists(m.digest, m.path) => ProofExists(m.digest, m.path)'
<1>1. ASSUME NEW S \in SUBSET Replicas, NEW T \in SUBSET Replicas, S \subseteq T,
             NEW k \in Nat, Cardinality(S) >= k
      PROVE  Cardinality(T) >= k
  <2>1. /\ IsFiniteSet(T)
        /\ Cardinality(T) \in Nat
        /\ Cardinality(S) \in Nat
    BY SubsetOfReplicas
  <2>2. Cardinality(S) <= Cardinality(T)
    BY <1>1, <2>1, FS_Subset
  <2> QED
    BY <1>1, <2>1, <2>2
<1>2. /\ F \in Nat
      /\ C \in Nat
      /\ Byz \subseteq Replicas
  BY AgreementAssumption
<1>3. SlowQuorum \in Nat /\ OptimisticQuorum \in Nat /\ FastQuorum \in Nat
  BY <1>2 DEF SlowQuorum, OptimisticQuorum, FastQuorum
<1>4. \A r \in Correct : proof[r] \/ prepareShare[r] \/ commitShare[r]
                            => pp'[r] = pp[r]
  BY DEF IInv, CertificatesAreBacked, Grows
<1>5. ASSUME NEW d \in Digests, PrepareExists(d) PROVE PrepareExists(d)'
  <2>1. PrepareSigners(d) \subseteq PrepareSigners(d)'
    BY <1>4 DEF PrepareSigners, Grows
  <2>2. PrepareSigners(d) \in SUBSET Replicas /\ PrepareSigners(d)' \in SUBSET Replicas
    BY <1>2 DEF PrepareSigners, Correct
  <2> QED
    BY <1>1, <1>3, <1>5, <2>1, <2>2 DEF PrepareExists
<1>6. ASSUME NEW d \in Digests, CommitExists(d) PROVE CommitExists(d)'
  <2>1. CommitSigners(d) \subseteq CommitSigners(d)'
    BY <1>4 DEF CommitSigners, Grows
  <2>2. CommitSigners(d) \in SUBSET Replicas /\ CommitSigners(d)' \in SUBSET Replicas
    BY <1>2 DEF CommitSigners, Correct
  <2> QED
    BY <1>1, <1>3, <1>6, <2>1, <2>2 DEF CommitExists
<1>7. ASSUME NEW m \in PrePrepares, ProofExists(m.digest, m.path)
      PROVE  ProofExists(m.digest, m.path)'
  <2>1. ProofSigners(m.digest, m.path) \subseteq ProofSigners(m.digest, m.path)'
    BY <1>4 DEF ProofSigners, Grows
  <2>2. /\ ProofSigners(m.digest, m.path) \in SUBSET Replicas
        /\ ProofSigners(m.digest, m.path)' \in SUBSET Replicas
    BY <1>2 DEF ProofSigners, Correct
  <2>3. Threshold(m.path) \in Nat
    BY <1>3 DEF Threshold
  <2> QED
    BY <1>1, <1>7, <2>1, <2>2, <2>3 DEF ProofExists
<1> QED
  BY <1>5, <1>6, <1>7

-----------------------------------------------------------------------------
(* The invariant is inductive.                                             *)

(* Messages of different kinds, digests or paths are different.            *)
LEMMA MsgsDiffer ==
    /\ \A m, n \in PrePrepares : ProofMsg(m) = ProofMsg(n) => m = n
    /\ \A d, e \in Digests : PrepareMsg(d) = PrepareMsg(e) => d = e
    /\ \A d, e \in Digests : CommitMsg(d) = CommitMsg(e) => d = e
    /\ \A m \in PrePrepares, d \in Digests :
        ProofMsg(m) # PrepareMsg(d) /\ ProofMsg(m) # CommitMsg(d)
    /\ \A d, e \in Digests : PrepareMsg(d) # CommitMsg(e)
BY DEF ProofMsg, PrepareMsg, CommitMsg, PrePrepares

(* What a replica signed and accepted stays in order.                      *)
LEMMA ReplicasInOrder ==
    ASSUME IInv, [Next]_vars, NEW q \in Correct
    PROVE  /\ proof'[q] \/ prepareShare'[q] \/ prepared'[q] => hasPrePrepareMsg(q)'
           /\ commitShare'[q] => prepared'[q]
           /\ commitFull'[q] => commitShare'[q]
           /\ fullProof'[q] => proof'[q]
<1> DEFINE Good ==
        /\ proof[q] \/ prepareShare[q] \/ prepared[q] => hasPrePrepareMsg(q)
        /\ commitShare[q] => prepared[q]
        /\ commitFull[q] => commitShare[q]
        /\ fullProof[q] => proof[q]
<1> SUFFICES Good'
  OBVIOUS
<1>0. TypeOK /\ Good
  BY DEF IInv, CertificatesAreBacked
<1> USE DEF TypeOK, hasPrePrepareMsg
<1>1. ASSUME NEW r \in Correct, NEW m \in PrePrepares, AcceptPrePrepare(r, m)
      PROVE  Good'
  <2>1. m # NoPP
    BY DigestAssumption DEF PrePrepares, NoPP
  <2> QED
    BY <1>0, <1>1, <2>1 DEF AcceptPrePrepare, PrepareShareAfter
<1>2. CASE PrimaryStartsSlowPath
  BY <1>0, <1>2 DEF PrimaryStartsSlowPath, PrepareShareAfter
<1>3. CASE \E r \in Correct : RecvStartSlowCommit(r)
  BY <1>0, <1>3 DEF RecvStartSlowCommit, PrepareShareAfter
<1>4. CASE \E r \in Correct : CombineProofs(r) \/ RecvFullCommitProof(r)
  BY <1>0, <1>4 DEF CombineProofs, RecvFullCommitProof
<1>5. CASE CombinePrepares \/ \E r \in Correct : RecvPrepareFull(r)
  <2>1. PICK r \in Correct : Prepare(r)
    BY <1>5 DEF CombinePrepares, RecvPrepareFull
  <2>2. ~commitFull[r]
    BY <2>1 DEF Prepare, IInv, CertificatesAreBacked
  <2> QED
    BY <1>0, <2>1, <2>2 DEF Prepare
<1>6. CASE CombineCommits \/ \E r \in Correct : RecvCommitFull(r)
  BY <1>0, <1>6 DEF CombineCommits, RecvCommitFull, Commit
<1>7. CASE UNCHANGED vars
  BY <1>0, <1>7 DEF vars
<1> QED
  BY <1>1, <1>2, <1>3, <1>4, <1>5, <1>6, <1>7, Zenon DEF Next

(* A replica that accepts or sends a certificate in a step has shares      *)
(* behind it; the older certificates keep theirs.                          *)
LEMMA BackedStep ==
    ASSUME IInv, [Next]_vars
    PROVE  /\ \A m \in PrePrepares :
                (ProofMsg(m) \in sent' \/ \E r \in Correct : fullProof'[r] /\ pp'[r] = m)
                    => ProofExists(m.digest, m.path)
           /\ \A d \in Digests :
                (PrepareMsg(d) \in sent' \/ \E r \in Correct : prepared'[r] /\ pp'[r].digest = d)
                    => PrepareExists(d)
           /\ \A d \in Digests :
                (CommitMsg(d) \in sent' \/ \E r \in Correct : commitFull'[r] /\ pp'[r].digest = d)
                    => CommitExists(d)
<1> DEFINE BackedBy(sn, fp, pr, cf, p) ==
        /\ \A m \in PrePrepares :
            (ProofMsg(m) \in sn \/ \E r \in Correct : fp[r] /\ p[r] = m)
                => ProofExists(m.digest, m.path)
        /\ \A d \in Digests :
            (PrepareMsg(d) \in sn \/ \E r \in Correct : pr[r] /\ p[r].digest = d)
                => PrepareExists(d)
        /\ \A d \in Digests :
            (CommitMsg(d) \in sn \/ \E r \in Correct : cf[r] /\ p[r].digest = d)
                => CommitExists(d)
<1> SUFFICES BackedBy(sent', fullProof', prepared', commitFull', pp')
  OBVIOUS
<1>0. BackedBy(sent, fullProof, prepared, commitFull, pp)
  BY DEF IInv, CertificatesAreBacked
<1>t. TypeOK /\ CertificatesAreBacked
  BY DEF IInv
<1>a. \A r \in Correct : fullProof[r] \/ prepared[r] \/ commitFull[r]
                            => pp[r] # NoPP
  BY <1>t DEF CertificatesAreBacked, hasPrePrepareMsg
<1>1. ASSUME NEW r \in Correct, NEW m \in PrePrepares, AcceptPrePrepare(r, m)
      PROVE  BackedBy(sent', fullProof', prepared', commitFull', pp')
  BY <1>0, <1>t, <1>a, <1>1 DEF AcceptPrePrepare, hasPrePrepareMsg, TypeOK
<1>2. CASE PrimaryStartsSlowPath
  BY <1>0, <1>2, Zenon DEF PrimaryStartsSlowPath
<1>3. CASE \E r \in Correct : RecvStartSlowCommit(r)
  BY <1>0, <1>3 DEF RecvStartSlowCommit
<1>4. ASSUME NEW r \in Correct, CombineProofs(r) \/ RecvFullCommitProof(r)
      PROVE  BackedBy(sent', fullProof', prepared', commitFull', pp')
  <2>1. pp[r] \in PrePrepares
    BY Zenon, <1>4, <1>t, HasProposal
    DEF CombineProofs, RecvFullCommitProof, CertificatesAreBacked
  <2>2. ProofExists(pp[r].digest, pp[r].path)
    BY <1>0, <1>4, <2>1 DEF CombineProofs, RecvFullCommitProof, ProofArrives
  <2>3. \A q \in Correct : fullProof'[q] => q = r \/ fullProof[q]
    BY <1>4, <1>t DEF CombineProofs, RecvFullCommitProof, TypeOK
  <2>4. sent' \subseteq sent \cup {ProofMsg(pp[r])}
    BY <1>4, Zenon DEF CombineProofs, RecvFullCommitProof
  <2>5. UNCHANGED <<pp, prepared, commitFull>>
    BY <1>4 DEF CombineProofs, RecvFullCommitProof
  <2> QED
    BY Zenon, <1>0, <2>1, <2>2, <2>3, <2>4, <2>5, MsgsDiffer
<1>5. CASE CombinePrepares \/ \E r \in Correct : RecvPrepareFull(r)
  <2>1. PICK r \in Correct :
            /\ Prepare(r)
            /\ PrepareArrives(r) \/ PrepareExists(pp[r].digest)
            /\ sent' \subseteq sent \cup {PrepareMsg(pp[r].digest)}
    BY <1>5 DEF CombinePrepares, RecvPrepareFull
  <2>2. pp[r].digest \in Digests
    BY <2>1, <1>t, HasProposal DEF Prepare
  <2>3. PrepareExists(pp[r].digest)
    BY <1>0, <2>1, <2>2 DEF PrepareArrives
  <2>4. \A q \in Correct : prepared'[q] => q = r \/ prepared[q]
    BY <2>1, <1>t DEF Prepare, TypeOK
  <2>5. UNCHANGED <<pp, fullProof, commitFull>>
    BY <2>1 DEF Prepare
  <2> QED
    BY Zenon, <1>0, <2>1, <2>2, <2>3, <2>4, <2>5, MsgsDiffer
<1>6. CASE CombineCommits \/ \E r \in Correct : RecvCommitFull(r)
  <2>1. PICK r \in Correct :
            /\ Commit(r)
            /\ CommitArrives(r) \/ CommitExists(pp[r].digest)
            /\ sent' \subseteq sent \cup {CommitMsg(pp[r].digest)}
    BY <1>6 DEF CombineCommits, RecvCommitFull
  <2>2. pp[r].digest \in Digests
    BY <2>1, <1>t, HasProposal, Zenon DEF Commit, CertificatesAreBacked
  <2>3. CommitExists(pp[r].digest)
    BY <1>0, <2>1, <2>2 DEF CommitArrives
  <2>4. \A q \in Correct : commitFull'[q] => q = r \/ commitFull[q]
    BY <2>1, <1>t DEF Commit, TypeOK
  <2>5. UNCHANGED <<pp, fullProof, prepared>>
    BY <2>1, Zenon DEF Commit
  <2> QED
    BY Zenon, <1>0, <2>1, <2>2, <2>3, <2>4, <2>5, MsgsDiffer
<1>7. CASE UNCHANGED vars
  BY <1>0, <1>7 DEF vars
<1> QED
  BY <1>1, <1>2, <1>3, <1>4, <1>5, <1>6, <1>7, Zenon DEF Next

(* The initial state satisfies the invariant: nothing is signed.           *)
LEMMA InitInv == Init => IInv
<1> SUFFICES ASSUME Init PROVE IInv
  OBVIOUS
<1>1. TypeOK
  BY DEF Init, TypeOK
<1>2. CertificatesAreBacked
  BY DEF Init, CertificatesAreBacked
<1> QED
  BY <1>1, <1>2 DEF IInv

(* Every step preserves it.                                                *)
LEMMA StepInv == IInv /\ [Next]_vars => IInv'
<1> SUFFICES ASSUME IInv, [Next]_vars PROVE IInv'
  OBVIOUS
<1>1. TypeOK'
  BY TypeStep
<1>2. Grows
  BY StepGrows
<1>3. CertificatesAreBacked'
  BY <1>2, ReplicasInOrder, BackedStep, CertificatesLast, Zenon DEF CertificatesAreBacked
<1> QED
  BY <1>1, <1>3 DEF IInv

(* In every behaviour the variables have their types, and the certificates *)
(* that correct replicas hold or sent are backed by signed shares.         *)
THEOREM Invariance == Spec => [](TypeOK /\ CertificatesAreBacked)
<1>1. IInv => TypeOK /\ CertificatesAreBacked
  BY DEF IInv
<1> QED
  BY <1>1, InitInv, StepInv, PTL DEF Spec

-----------------------------------------------------------------------------
(* The signers of what a replica commits.                                  *)

(* A committed replica has a proposal, and 2F+C+1 replicas, counting the   *)
(* Byzantine ones, signed for its digest; on a fast path 3F+C+1.           *)
LEMMA CommitQuorum ==
    ASSUME IInv, NEW r \in Correct, isCommitted(r)
    PROVE  /\ pp[r].digest \in Digests
           /\ \E S \in SUBSET Replicas :
                /\ Cardinality(S) >= SlowQuorum
                /\ S \cap Correct \subseteq Holders(pp[r].digest)
                /\ \/ S \cap Correct \subseteq Certified(pp[r].digest)
                   \/ Cardinality(S) >= FastQuorum
<1>0. TypeOK /\ CertificatesAreBacked
  BY DEF IInv
<1>1. pp[r] \in PrePrepares /\ pp[r].digest \in Digests
  BY <1>0, HasProposal, Zenon DEF isCommitted, CertificatesAreBacked
<1>2. F \in Nat /\ C \in Nat /\ Byz \subseteq Replicas
  BY AgreementAssumption
<1>3. CASE fullProof[r]
  <2> DEFINE S == ProofSigners(pp[r].digest, pp[r].path)
  <2>1. S \in SUBSET Replicas
    BY <1>2 DEF ProofSigners, Correct
  <2>2. Cardinality(S) >= Threshold(pp[r].path)
    BY <1>0, <1>1, <1>3, Zenon DEF CertificatesAreBacked, ProofExists
  <2>3. Cardinality(S) \in Nat
    BY <2>1, SubsetOfReplicas
  <2>4. Cardinality(S) >= FastQuorum /\ Cardinality(S) >= SlowQuorum
    BY <1>2, <2>2, <2>3 DEF Threshold, FastQuorum, OptimisticQuorum, SlowQuorum
  <2>5. S \cap Correct \subseteq Holders(pp[r].digest)
    BY <1>1 DEF ProofSigners, Holders, Correct
  <2> QED
    BY <1>1, <2>1, <2>4, <2>5
<1>4. CASE commitFull[r]
  <2> DEFINE S == CommitSigners(pp[r].digest)
  <2>1. S \in SUBSET Replicas
    BY <1>2 DEF CommitSigners, Correct
  <2>2. Cardinality(S) >= SlowQuorum
    BY <1>0, <1>1, <1>4 DEF CertificatesAreBacked, CommitExists
  <2>3. /\ S \cap Correct \subseteq Holders(pp[r].digest)
        /\ S \cap Correct \subseteq Certified(pp[r].digest)
    BY <1>0, Zenon DEF CommitSigners, Holders, Certified, Correct, CertificatesAreBacked
  <2> QED
    BY <1>1, <2>1, <2>2, <2>3
<1> QED
  BY <1>3, <1>4 DEF isCommitted

(* Two quorums share a correct replica, and it has one proposal.           *)
LEMMA InvConsistent == IInv => Consistency
<1> SUFFICES ASSUME IInv, NEW r \in Correct, NEW q \in Correct,
                    isCommitted(r), isCommitted(q)
             PROVE  pp[r].digest = pp[q].digest
  BY DEF Consistency
<1>1. PICK S \in SUBSET Replicas :
        /\ Cardinality(S) >= SlowQuorum
        /\ S \cap Correct \subseteq Holders(pp[r].digest)
  BY CommitQuorum
<1>2. PICK T \in SUBSET Replicas :
        /\ Cardinality(T) >= SlowQuorum
        /\ T \cap Correct \subseteq Holders(pp[q].digest)
  BY CommitQuorum
<1>3. PICK x \in Correct : x \in S /\ x \in T
  BY <1>1, <1>2, QuorumsMeet
<1> QED
  BY <1>1, <1>2, <1>3 DEF Holders

(* Correct replicas never commit different requests in a view.             *)
THEOREM Agreed == Spec => []Consistency
BY InitInv, StepInv, InvConsistent, PTL DEF Spec

(* A quorum of view-change messages meets a commit quorum in F+C+1 correct *)
(* replicas if the commit was on a fast path, and in one otherwise.        *)
LEMMA InvRecoverable == IInv => CommittedIsRecoverable
<1> SUFFICES ASSUME IInv, NEW r \in Correct, isCommitted(r)
             PROVE  /\ \A d \in Digests \ {pp[r].digest} : ~PrepareExists(d)
                    /\ \A Q \in SUBSET Replicas :
                        Cardinality(Q) = ViewChangeQuorum =>
                            \/ Q \cap Certified(pp[r].digest) # {}
                            \/ Cardinality(Q \cap Holders(pp[r].digest)) >= F + C + 1
  BY DEF CommittedIsRecoverable
<1>1. PICK S \in SUBSET Replicas :
        /\ Cardinality(S) >= SlowQuorum
        /\ S \cap Correct \subseteq Holders(pp[r].digest)
        /\ \/ S \cap Correct \subseteq Certified(pp[r].digest)
           \/ Cardinality(S) >= FastQuorum
  BY CommitQuorum
<1>2. ASSUME NEW d \in Digests, d # pp[r].digest, PrepareExists(d)
      PROVE  FALSE
  <2>1. PrepareSigners(d) \in SUBSET Replicas
    BY AgreementAssumption DEF PrepareSigners, Correct
  <2>2. PICK x \in Correct : x \in S /\ x \in PrepareSigners(d)
    BY <1>1, <1>2, <2>1, QuorumsMeet DEF PrepareExists
  <2> QED
    BY <1>1, <1>2, <2>2 DEF Holders, PrepareSigners, Correct
<1>3. ASSUME NEW Q \in SUBSET Replicas, Cardinality(Q) = ViewChangeQuorum
      PROVE  \/ Q \cap Certified(pp[r].digest) # {}
             \/ Cardinality(Q \cap Holders(pp[r].digest)) >= F + C + 1
  <2> DEFINE X == (Q \cap S) \cap Correct
  <2>1. /\ Q \cap S \in SUBSET Replicas
        /\ X \in SUBSET Replicas
        /\ Q \cap Holders(pp[r].digest) \in SUBSET Replicas
    BY DEF Correct
  <2>2. /\ Cardinality(S) \in Nat
        /\ Cardinality(Q \cap S) \in Nat
        /\ Cardinality(X) \in Nat
        /\ IsFiniteSet(Q \cap Holders(pp[r].digest))
        /\ Cardinality(Q \cap Holders(pp[r].digest)) \in Nat
    BY <2>1, SubsetOfReplicas
  <2>3. Cardinality(Q \cap S) >= Cardinality(Q) + Cardinality(S) - (3*F + 2*C + 1)
    BY Overlap
  <2>4. Cardinality(X) >= Cardinality(Q \cap S) - F
    BY <2>1, CorrectPart
  <2>5. F \in Nat /\ C \in Nat
    BY AgreementAssumption
  <2>6. Cardinality(X) >= Cardinality(S) - (2*F)
    BY <1>3, <2>2, <2>3, <2>4, <2>5 DEF ViewChangeQuorum
  <2>7. CASE S \cap Correct \subseteq Certified(pp[r].digest)
    <3>1. Cardinality(X) >= 1
      BY <1>1, <2>2, <2>5, <2>6 DEF SlowQuorum
    <3>2. X # {}
      BY <2>1, <3>1, NonEmpty
    <3> QED
      BY <2>7, <3>2
  <2>8. CASE Cardinality(S) >= FastQuorum
    <3>1. Cardinality(X) >= F + C + 1
      BY <2>2, <2>5, <2>6, <2>8 DEF FastQuorum
    <3>2. X \subseteq Q \cap Holders(pp[r].digest)
      BY <1>1
    <3>3. Cardinality(X) <= Cardinality(Q \cap Holders(pp[r].digest))
      BY <2>2, <3>2, FS_Subset
    <3> QED
      BY <2>2, <2>5, <3>1, <3>3
  <2> QED
    BY <1>1, <2>7, <2>8
<1> QED
  BY <1>2, <1>3

(* What a correct replica committed in a view can be recovered, and        *)
(* nothing else, from the messages of any view-change quorum.              *)
THEOREM Recoverable == Spec => []CommittedIsRecoverable
BY InitInv, StepInv, InvRecoverable, PTL DEF Spec
=============================================================================
