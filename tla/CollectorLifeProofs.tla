------------------------ MODULE CollectorLifeProofs ------------------------
(***************************************************************************)
(* Proofs about CollectorLife, for any number of replicas and shares, any  *)
(* window and any number of views and sequence numbers.                    *)
(***************************************************************************)
EXTENDS CollectorLife, FiniteSetTheorems, TLAPS

(* A leaf that names no prover is for the SMT solver.                      *)
USE SMTT(90)

-----------------------------------------------------------------------------
(* The operations on a collector.                                          *)

(* The result of a job that c started or waits for.                        *)
JobOf(c, j) ==
    /\ j \in JobType
    /\ j.key = c.expected
    /\ j.kind = "combined" => c.candidate # "none"
    /\ j.bad \subseteq BadShares(c)

(* trySendToBkThread leaves the collector alone, or sends one job for it,  *)
(* if none is running, and then waits for it.                              *)
LEMMA TrySend ==
    ASSUME NEW c \in CollectorType, NEW o \in trySendToBkThread(c)
    PROVE  \/ o = Outcome(c, {})
           \/ /\ ~c.processing
              /\ c.expected # NotSet
              /\ \E j : JobOf(c, j) /\ o = InBackground(c, j)
<1>1. CASE c.processing \/ c.expected = NotSet
  BY <1>1 DEF trySendToBkThread
<1>2. CASE ~c.processing /\ c.expected # NotSet /\ c.candidate # "none"
  <2>1. o = InBackground(c, CombinedSigVerificationJob(c))
    BY <1>2 DEF trySendToBkThread
  <2>2. JobOf(c, CombinedSigVerificationJob(c))
    BY <1>2 DEF JobOf, JobType, CombinedSigVerificationJob, CollectorType
  <2> QED
    BY <1>2, <2>1, <2>2
<1>3. CASE ~c.processing /\ c.expected # NotSet /\ c.candidate = "none"
  <2>1. CASE c.unknown >= Required
    <3>1. PICK S \in kSubset(Required, UnknownShares(c)) :
             o = InBackground(c, SignaturesProcessingJob(c, S))
      BY <1>3, <2>1 DEF trySendToBkThread
    <3>2. SignaturesProcessingJob(c, S).bad \subseteq BadShares(c)
      BY DEF SignaturesProcessingJob, replicasWithBadSigs
    <3>3. SignaturesProcessingJob(c, S) \in JobType
      BY <1>3, <3>2 DEF SignaturesProcessingJob, JobType, CollectorType, BadShares
    <3>4. JobOf(c, SignaturesProcessingJob(c, S))
      BY <3>2, <3>3 DEF JobOf, SignaturesProcessingJob
    <3> QED
      BY <1>3, <3>1, <3>4
  <2>2. CASE ~(c.unknown >= Required)
    BY <1>3, <2>2 DEF trySendToBkThread
  <2> QED
    BY <2>1, <2>2
<1> QED
  BY <1>1, <1>2, <1>3

-----------------------------------------------------------------------------
(* The inductive invariant, for an entry at key n with collector c and     *)
(* results J on their way.  Results belong to the present or to the past   *)
(* of the entry, at most one to the present; the collector waits for that  *)
(* one, and has not changed in a way that makes it useless.  If lost is    *)
(* FALSE the collector waits for a result only if one is on its way; that  *)
(* part is kept by all steps but those that drop a result for the present  *)
(* key, and is no part of the invariant of the specification.              *)
Good(lost, n, c, J) ==
    /\ n \in Keys
    /\ c \in CollectorType
    /\ J \subseteq JobType
    /\ c.unknown = Cardinality(UnknownShares(c))
    /\ c.expected \in {NotSet, n}
    /\ c.combined \/ c.processing => c.expected = n
    /\ \A j \in J : j.key[1] <= n[1] /\ j.key[2] <= n[2]
    /\ \A j \in J : j.key = n => c.processing /\ ~c.combined /\ JobOf(c, j)
    /\ \A i, j \in J : i.key = n /\ j.key = n => i = j
    /\ c.processing => lost \/ \E j \in J : j.key = n

IInv == collecting \in BOOLEAN /\ Good(TRUE, now, coll, jobs)

(* The key of an entry is not the unset one: sequence numbers start at 1.  *)
LEMMA KeyIsSet == ASSUME NEW n \in Keys PROVE n # NotSet
BY DEF Keys, NotSet

(* Trying to start a job keeps the invariant.                              *)
LEMMA SendKeeps ==
    ASSUME NEW lost \in BOOLEAN, NEW n, NEW c, NEW J, Good(lost, n, c, J),
           ~c.combined, NEW o \in trySendToBkThread(c)
    PROVE  Good(lost, n, o.coll, J \cup o.jobs)
<1>0. c \in CollectorType /\ n \in Keys
  BY DEF Good
<1>1. CASE o = Outcome(c, {})
  <2>1. o.coll = c /\ J \cup o.jobs = J
    BY <1>1 DEF Outcome
  <2> QED
    BY <2>1, Zenon
<1>2. CASE ~c.processing /\ c.expected # NotSet
           /\ \E j : JobOf(c, j) /\ o = InBackground(c, j)
  <2>1. PICK j : JobOf(c, j) /\ o = InBackground(c, j)
    BY <1>2
  <2> DEFINE d == [c EXCEPT !.processing = TRUE]
  <2>2. o.coll = d /\ J \cup o.jobs = J \cup {j}
    BY <2>1 DEF InBackground, Outcome
  <2>3. /\ d \in CollectorType
        /\ d.processing
        /\ d.unknown = c.unknown
        /\ d.expected = c.expected
        /\ d.combined = c.combined
        /\ d.candidate = c.candidate
        /\ d.replicasInfo = c.replicasInfo
    BY <1>0, Zenon DEF CollectorType
  <2>4. UnknownShares(d) = UnknownShares(c) /\ BadShares(d) = BadShares(c)
    BY <2>3 DEF UnknownShares, BadShares
  <2>5. c.expected = n
    BY <1>2 DEF Good
  <2>6. j \in JobType /\ j.key = n /\ JobOf(d, j)
    BY <2>1, <2>3, <2>4, <2>5 DEF JobOf
  <2>7. \A i \in J : i.key # n
    BY <1>2 DEF Good
  <2>8. n[1] <= n[1] /\ n[2] <= n[2]
    BY <1>0 DEF Keys
  <2> HIDE DEF d
  <2> QED
    BY <2>2, <2>3, <2>4, <2>5, <2>6, <2>7, <2>8 DEF Good
<1> QED
  BY <1>0, <1>1, <1>2, TrySend

(* The collector with other shares and another count.                      *)
WithShares(c, f, k) == [c EXCEPT !.replicasInfo = f, !.unknown = k]

LEMMA NewShares ==
    ASSUME NEW c \in CollectorType, NEW f \in [Replicas -> ShareStates],
           NEW k \in Nat
    PROVE  /\ WithShares(c, f, k) \in CollectorType
           /\ WithShares(c, f, k).processing = c.processing
           /\ WithShares(c, f, k).unknown = k
           /\ WithShares(c, f, k).expected = c.expected
           /\ WithShares(c, f, k).combined = c.combined
           /\ WithShares(c, f, k).candidate = c.candidate
           /\ WithShares(c, f, k).replicasInfo = f
BY Zenon DEF CollectorType, WithShares

(* A new share is counted.                                                 *)
LEMMA ShareKeeps ==
    ASSUME NEW lost \in BOOLEAN, NEW n, NEW c, NEW J, Good(lost, n, c, J),
           NEW r \in Replicas, NEW s \in {"good", "bad"},
           ~hasPartialMsgFromReplica(c, r)
    PROVE  Good(lost, n, WithShares(c, [c.replicasInfo EXCEPT ![r] = s],
                              c.unknown + 1), J)
<1> DEFINE f == [c.replicasInfo EXCEPT ![r] = s]
           k == c.unknown + 1
           d == WithShares(c, f, k)
<1>0. c \in CollectorType
  BY DEF Good
<1>a. f \in [Replicas -> ShareStates] /\ k \in Nat
  BY <1>0 DEF CollectorType, ShareStates
<1>1. /\ d \in CollectorType
      /\ d.processing = c.processing
      /\ d.unknown = c.unknown + 1
      /\ d.expected = c.expected
      /\ d.combined = c.combined
      /\ d.candidate = c.candidate
      /\ d.replicasInfo = [c.replicasInfo EXCEPT ![r] = s]
  BY <1>0, <1>a, NewShares
<1> HIDE DEF d
<1>2. UnknownShares(d) = UnknownShares(c) \cup {r}
  BY <1>0, <1>1 DEF UnknownShares, CollectorType
<1>3. r \notin UnknownShares(c) /\ IsFiniteSet(UnknownShares(c))
  BY CollectorAssumption, FS_Subset DEF UnknownShares, hasPartialMsgFromReplica
<1>4. Cardinality(UnknownShares(d)) = Cardinality(UnknownShares(c)) + 1
  BY <1>2, <1>3, FS_AddElement
<1>5. BadShares(c) \subseteq BadShares(d)
  BY <1>0, <1>1 DEF BadShares, CollectorType, hasPartialMsgFromReplica
<1>6. \A j : JobOf(c, j) => JobOf(d, j)
  BY <1>1, <1>5 DEF JobOf
<1>7. Good(lost, n, d, J)
  BY <1>1, <1>4, <1>6 DEF Good
<1> QED
  BY <1>7 DEF d

(* A candidate may come while a job for shares runs.                       *)
WithCandidate(c, s) == [c EXCEPT !.candidate = s]

LEMMA CandidateKeeps ==
    ASSUME NEW lost \in BOOLEAN, NEW n, NEW c, NEW J, Good(lost, n, c, J),
           NEW s \in {"good", "bad"}
    PROVE  /\ Good(lost, n, WithCandidate(c, s), J)
           /\ WithCandidate(c, s).combined = c.combined
<1> DEFINE d == WithCandidate(c, s)
<1>1. /\ d \in CollectorType
      /\ d.processing = c.processing
      /\ d.unknown = c.unknown
      /\ d.expected = c.expected
      /\ d.combined = c.combined
      /\ d.candidate = s
      /\ d.replicasInfo = c.replicasInfo
  BY DEF CollectorType, Good, WithCandidate
<1> HIDE DEF d
<1>2. UnknownShares(d) = UnknownShares(c) /\ BadShares(d) = BadShares(c)
  BY <1>1 DEF UnknownShares, BadShares
<1>3. \A j : JobOf(c, j) => JobOf(d, j)
  BY <1>1, <1>2 DEF JobOf
<1> QED
  BY <1>1, <1>2, <1>3 DEF Good, d

-----------------------------------------------------------------------------
(* The collector once the result of its job has come: bad shares found, a  *)
(* combined signature obtained, a candidate rejected.                      *)
SharesFailed(c, j) ==
    [c EXCEPT !.processing = FALSE,
              !.replicasInfo = [r \in Replicas |->
                    IF r \in j.bad THEN "invalid" ELSE c.replicasInfo[r]],
              !.unknown = c.unknown - Cardinality(j.bad)]
Combined(c) ==
    [c EXCEPT !.processing = FALSE, !.candidate = "none", !.combined = TRUE]
Rejected(c) == [c EXCEPT !.processing = FALSE, !.candidate = "none"]

(* What the invariant says of a result for the present key.                *)
LEMMA Awaited ==
    ASSUME NEW lost \in BOOLEAN, NEW n, NEW c, NEW J, Good(lost, n, c, J),
           NEW j \in J, j.key = n
    PROVE  /\ c.processing /\ ~c.combined /\ JobOf(c, j)
           /\ c.expected = n
           /\ \A i \in J \ {j} : i.key # n
BY DEF Good, JobOf

(* The shares found bad are taken off the count.                           *)
LEMMA FailedKeeps ==
    ASSUME NEW lost \in BOOLEAN, NEW n, NEW c, NEW J, Good(lost, n, c, J),
           NEW j \in J, j.key = n
    PROVE  /\ Good(lost, n, SharesFailed(c, j), J \ {j})
           /\ ~SharesFailed(c, j).combined
<1> DEFINE d == SharesFailed(c, j)
           f == [r \in Replicas |->
                    IF r \in j.bad THEN "invalid" ELSE c.replicasInfo[r]]
<1>0. c \in CollectorType
  BY DEF Good
<1>1. JobOf(c, j) /\ ~c.combined /\ \A i \in J \ {j} : i.key # n
  BY Awaited
<1>2. j.bad \subseteq UnknownShares(c) /\ j.bad \subseteq Replicas
  BY <1>1 DEF JobOf, BadShares, UnknownShares
<1>3. IsFiniteSet(UnknownShares(c)) /\ IsFiniteSet(j.bad)
  BY <1>2, CollectorAssumption, FS_Subset DEF UnknownShares
<1>4. /\ Cardinality(UnknownShares(c) \ j.bad)
            = Cardinality(UnknownShares(c)) - Cardinality(j.bad)
      /\ Cardinality(UnknownShares(c) \ j.bad) \in Nat
  <2>1. UnknownShares(c) \cap j.bad = j.bad
    BY <1>2
  <2>2. /\ IsFiniteSet(UnknownShares(c) \ j.bad)
        /\ Cardinality(UnknownShares(c) \ j.bad)
              = Cardinality(UnknownShares(c))
                    - Cardinality(UnknownShares(c) \cap j.bad)
    BY <1>3, FS_Difference, Zenon
  <2>3. Cardinality(UnknownShares(c) \ j.bad) \in Nat
    BY <2>2, FS_CardinalityType, Zenon
  <2> QED
    BY <2>1, <2>2, <2>3, Zenon
<1>5. c.unknown - Cardinality(j.bad) = Cardinality(UnknownShares(c) \ j.bad)
  BY <1>4 DEF Good
<1>6. f \in [Replicas -> ShareStates] /\ c.unknown - Cardinality(j.bad) \in Nat
  BY <1>0, <1>4, <1>5 DEF CollectorType, ShareStates
<1>7. /\ d \in CollectorType
      /\ ~d.processing
      /\ d.unknown = Cardinality(UnknownShares(c) \ j.bad)
      /\ d.expected = c.expected
      /\ d.combined = c.combined
      /\ d.replicasInfo = f
  BY <1>0, <1>5, <1>6, Zenon DEF CollectorType, SharesFailed
<1>8. UnknownShares(d) = UnknownShares(c) \ j.bad
  BY <1>7 DEF UnknownShares
<1> HIDE DEF d
<1>9. Good(lost, n, d, J \ {j}) /\ ~d.combined
  BY <1>1, <1>7, <1>8 DEF Good
<1> QED
  BY <1>9 DEF d

(* A combined signature ends the work of the collector.                    *)
LEMMA CombinedKeeps ==
    ASSUME NEW lost \in BOOLEAN, NEW n, NEW c, NEW J, Good(lost, n, c, J),
           NEW j \in J, j.key = n
    PROVE  Good(lost, n, Combined(c), J \ {j})
<1> DEFINE d == Combined(c)
<1>0. c \in CollectorType
  BY DEF Good
<1>1. c.expected = n /\ \A i \in J \ {j} : i.key # n
  BY Awaited
<1>2. /\ d \in CollectorType
      /\ ~d.processing
      /\ d.unknown = c.unknown
      /\ d.expected = c.expected
      /\ d.replicasInfo = c.replicasInfo
  BY <1>0, Zenon DEF CollectorType, Combined
<1>3. UnknownShares(d) = UnknownShares(c)
  BY <1>2 DEF UnknownShares
<1> HIDE DEF d
<1>4. Good(lost, n, d, J \ {j})
  BY <1>1, <1>2, <1>3 DEF Good
<1> QED
  BY <1>4 DEF d

(* A rejected candidate leaves the shares as they are.                     *)
LEMMA RejectedKeeps ==
    ASSUME NEW lost \in BOOLEAN, NEW n, NEW c, NEW J, Good(lost, n, c, J),
           NEW j \in J, j.key = n
    PROVE  Good(lost, n, Rejected(c), J \ {j}) /\ ~Rejected(c).combined
<1> DEFINE d == Rejected(c)
<1>0. c \in CollectorType
  BY DEF Good
<1>1. ~c.combined /\ \A i \in J \ {j} : i.key # n
  BY Awaited
<1>2. /\ d \in CollectorType
      /\ ~d.processing
      /\ d.unknown = c.unknown
      /\ d.expected = c.expected
      /\ d.combined = c.combined
      /\ d.replicasInfo = c.replicasInfo
  BY <1>0, Zenon DEF CollectorType, Rejected
<1>3. UnknownShares(d) = UnknownShares(c)
  BY <1>2 DEF UnknownShares
<1> HIDE DEF d
<1>4. Good(lost, n, d, J \ {j}) /\ ~d.combined
  BY <1>1, <1>2, <1>3 DEF Good
<1> QED
  BY <1>4 DEF d

-----------------------------------------------------------------------------
(* Setting the expected digest, and starting over at a later key.          *)
WithExpected(c, n) == [c EXCEPT !.expected = n]

(* Nothing was expected, so no job was running.                            *)
LEMMA ExpectedKeeps ==
    ASSUME NEW lost \in BOOLEAN, NEW n, NEW c, NEW J, Good(lost, n, c, J),
           c.expected = NotSet
    PROVE  Good(lost, n, WithExpected(c, n), J) /\ ~WithExpected(c, n).combined
<1> DEFINE d == WithExpected(c, n)
<1>0. c \in CollectorType /\ n \in Keys /\ n # NotSet
  BY KeyIsSet DEF Good
<1>1. ~c.combined
  BY <1>0 DEF Good
<1>2. \A j \in J : j.key # n
  BY <1>0 DEF Good, JobOf
<1>3. ~c.processing
  BY <1>0 DEF Good
<1>4. /\ d \in CollectorType
      /\ d.processing = c.processing
      /\ d.unknown = c.unknown
      /\ d.expected = n
      /\ d.combined = c.combined
      /\ d.replicasInfo = c.replicasInfo
  BY <1>0 DEF CollectorType, WithExpected
<1>5. UnknownShares(d) = UnknownShares(c)
  BY <1>4 DEF UnknownShares
<1> HIDE DEF d
<1>6. Good(lost, n, d, J) /\ ~d.combined
  BY <1>0, <1>1, <1>2, <1>3, <1>4, <1>5 DEF Good
<1> QED
  BY <1>6 DEF d

(* An empty collector satisfies the invariant at a key later than those of *)
(* all the results on their way.                                           *)
LEMMA EmptyIsGood ==
    ASSUME NEW lost \in BOOLEAN, NEW n \in Keys, NEW J \in SUBSET JobType,
           \A j \in J : j.key[1] <= n[1] /\ j.key[2] <= n[2] /\ j.key # n
    PROVE  Good(lost, n, EmptyCollector, J)
<1> DEFINE d == EmptyCollector
<1>1. /\ d \in CollectorType
      /\ ~d.processing
      /\ d.unknown = 0
      /\ d.expected = NotSet
      /\ ~d.combined
  BY DEF EmptyCollector, CollectorType, ShareStates
<1>2. UnknownShares(d) = {}
  BY DEF EmptyCollector, UnknownShares
<1>3. Cardinality({}) = 0
  BY FS_EmptySet
<1> HIDE DEF d
<1>4. Good(lost, n, d, J)
  BY <1>1, <1>2, <1>3 DEF Good
<1> QED
  BY <1>4 DEF d

-----------------------------------------------------------------------------
(* The actions.                                                            *)
LEMMA PartialStep ==
    ASSUME NEW lost \in BOOLEAN, Good(lost, now, coll, jobs),
           NEW r \in Replicas, NEW s \in {"good", "bad"}, AddPartial(r, s)
    PROVE  Good(lost, now', coll', jobs')
<1> DEFINE d == WithShares(coll, [coll.replicasInfo EXCEPT ![r] = s],
                           coll.unknown + 1)
<1>1. PICK o \in addMsgWithPartialSignature(coll, r, s) :
         coll' = o.coll /\ jobs' = jobs \cup o.jobs /\ now' = now
  BY DEF AddPartial, Handle, Take
<1>2. CASE coll.combined \/ hasPartialMsgFromReplica(coll, r)
  <2>1. o = Outcome(coll, {})
    BY <1>1, <1>2 DEF addMsgWithPartialSignature
  <2>2. coll' = coll /\ jobs' = jobs
    BY <1>1, <2>1 DEF Outcome
  <2> QED
    BY <1>1, <2>2
<1>3. CASE ~coll.combined /\ ~hasPartialMsgFromReplica(coll, r)
  <2>1. o \in trySendToBkThread(d)
    BY <1>1, <1>3 DEF addMsgWithPartialSignature, WithShares
  <2>2. Good(lost, now, d, jobs)
    BY <1>3, ShareKeeps, Zenon
  <2>3. ~d.combined
    BY <1>3, NewShares, Zenon DEF Good, WithShares, CollectorType
  <2> HIDE DEF d
  <2>4. Good(lost, now, o.coll, jobs \cup o.jobs)
    BY <2>1, <2>2, <2>3, SendKeeps
  <2> QED
    BY <1>1, <2>4
<1> QED
  BY <1>2, <1>3

LEMMA CombinedStep ==
    ASSUME NEW lost \in BOOLEAN, Good(lost, now, coll, jobs),
           NEW s \in {"good", "bad"}, AddCombined(s)
    PROVE  Good(lost, now', coll', jobs')
<1> DEFINE d == WithCandidate(coll, s)
<1>1. PICK o \in addMsgWithCombinedSignature(coll, s) :
         coll' = o.coll /\ jobs' = jobs \cup o.jobs /\ now' = now
  BY DEF AddCombined, Handle, Take
<1>2. CASE coll.combined \/ coll.candidate # "none"
  <2>1. o = Outcome(coll, {})
    BY <1>1, <1>2 DEF addMsgWithCombinedSignature
  <2>2. coll' = coll /\ jobs' = jobs
    BY <1>1, <2>1 DEF Outcome
  <2> QED
    BY <1>1, <2>2
<1>3. CASE ~coll.combined /\ ~(coll.candidate # "none")
  <2>1. o \in trySendToBkThread(d)
    BY <1>1, <1>3 DEF addMsgWithCombinedSignature, WithCandidate
  <2>2. Good(lost, now, d, jobs) /\ d.combined = coll.combined
    BY CandidateKeeps
  <2> HIDE DEF d
  <2>3. Good(lost, now, o.coll, jobs \cup o.jobs)
    BY <1>3, <2>1, <2>2, SendKeeps
  <2> QED
    BY <1>1, <2>3
<1> QED
  BY <1>2, <1>3

LEMMA ExpectedStep ==
    ASSUME NEW lost \in BOOLEAN, Good(lost, now, coll, jobs),
           SetExpected
    PROVE  Good(lost, now', coll', jobs')
<1> DEFINE d == WithExpected(coll, now)
<1>1. PICK o \in setExpected(coll, now) :
         coll' = o.coll /\ jobs' = jobs \cup o.jobs /\ now' = now
  BY DEF SetExpected, Handle, Take
<1>2. o \in trySendToBkThread(d)
  BY <1>1 DEF setExpected, WithExpected
<1>3. Good(lost, now, d, jobs) /\ ~d.combined
  BY ExpectedKeeps DEF SetExpected
<1> HIDE DEF d
<1>4. Good(lost, now, o.coll, jobs \cup o.jobs)
  BY <1>2, <1>3, SendKeeps
<1> QED
  BY <1>1, <1>4

(* A result may be dropped: one of the past, or any once one was lost.     *)
LEMMA DropKeeps ==
    ASSUME NEW lost \in BOOLEAN, NEW n, NEW c, NEW J, Good(lost, n, c, J),
           NEW j \in J, lost \/ j.key # n
    PROVE  Good(lost, n, c, J \ {j})
<1>1. c.processing => lost \/ \E i \in J \ {j} : i.key = n
  BY DEF Good
<1> QED
  BY <1>1 DEF Good

LEMMA ReportStep ==
    ASSUME NEW lost \in BOOLEAN, Good(lost, now, coll, jobs),
           NEW j \in jobs, JobDone(j), lost \/ ~collecting
    PROVE  Good(lost, now', coll', jobs')
<1>0. now' = now /\ Good(lost, now, coll, jobs)
  BY DEF JobDone
<1>1. CASE ~(~collecting /\ j.key = now)
  <2>1. coll' = coll /\ jobs' = jobs \ {j}
    BY <1>1 DEF JobDone, Report
  <2>2. Good(lost, now, coll, jobs \ {j})
    BY <1>0, <1>1, DropKeeps
  <2> QED
    BY <1>0, <2>1, <2>2
<1>2. CASE ~collecting /\ j.key = now
  <2>1. PICK o \in onCompletion(coll, j) :
           coll' = o.coll /\ jobs' = (jobs \ {j}) \cup o.jobs
    BY <1>2 DEF JobDone, Report
  <2>2. CASE o \in {Outcome(Combined(coll), {})}
    <3>1. coll' = Combined(coll) /\ jobs' = jobs \ {j}
      BY <2>1, <2>2 DEF Outcome
    <3>2. Good(lost, now, Combined(coll), jobs \ {j})
      BY <1>0, <1>2, CombinedKeeps
    <3> QED
      BY <1>0, <3>1, <3>2
  <2>3. CASE o \in trySendToBkThread(Rejected(coll))
    <3>1. Good(lost, now, Rejected(coll), jobs \ {j}) /\ ~Rejected(coll).combined
      BY <1>0, <1>2, RejectedKeeps
    <3>2. Good(lost, now, o.coll, (jobs \ {j}) \cup o.jobs)
      BY <2>3, <3>1, SendKeeps
    <3> QED
      BY <1>0, <2>1, <3>2
  <2>4. CASE o \in trySendToBkThread(SharesFailed(coll, j))
    <3>1. /\ Good(lost, now, SharesFailed(coll, j), jobs \ {j})
          /\ ~SharesFailed(coll, j).combined
      BY <1>0, <1>2, FailedKeeps
    <3>2. Good(lost, now, o.coll, (jobs \ {j}) \cup o.jobs)
      BY <2>4, <3>1, SendKeeps
    <3> QED
      BY <1>0, <2>1, <3>2
  <2>5. \/ o \in {Outcome(Combined(coll), {})}
        \/ o \in trySendToBkThread(Rejected(coll))
        \/ o \in trySendToBkThread(SharesFailed(coll, j))
    BY <2>1 DEF onCompletion, onCompletionOfCombinedSigVerification,
                onSharesCombined, onSharesFailed, Combined, Rejected, SharesFailed
  <2> QED
    BY <2>2, <2>3, <2>4, <2>5
<1> QED
  BY <1>1, <1>2

LEMMA ResetStep ==
    ASSUME NEW lost \in BOOLEAN, Good(lost, now, coll, jobs),
           MoveToHigherView \/ AdvanceWindow
    PROVE  Good(lost, now', coll', jobs')
<1>1. /\ now \in Keys
      /\ jobs \in SUBSET JobType
      /\ \A j \in jobs : j.key[1] <= now[1] /\ j.key[2] <= now[2]
      /\ \A j \in jobs : j.key \in Keys
  BY DEF Good, JobType
<1>2. coll' = EmptyCollector /\ jobs' = jobs
  BY DEF MoveToHigherView, AdvanceWindow, resetContent
<1>3. /\ now' \in Keys
      /\ \A j \in jobs : /\ j.key[1] <= now'[1]
                         /\ j.key[2] <= now'[2]
                         /\ j.key # now'
  BY <1>1, CollectorAssumption DEF MoveToHigherView, AdvanceWindow, Keys
<1>4. Good(lost, now', EmptyCollector, jobs)
  BY <1>1, <1>3, EmptyIsGood
<1> QED
  BY <1>2, <1>4

(* The end of a state transfer keeps the entry, or starts it over.         *)
LEMMA TransferStep ==
    ASSUME NEW lost \in BOOLEAN, Good(lost, now, coll, jobs),
           NEW seq \in now[1] .. MaxSeq, TransferringComplete(seq)
    PROVE  Good(lost, now', coll', jobs')
<1>1. /\ now \in Keys
      /\ jobs \in SUBSET JobType
      /\ \A j \in jobs : j.key[1] <= now[1] /\ j.key[2] <= now[2]
      /\ \A j \in jobs : j.key \in Keys
  BY DEF Good, JobType
<1>2. now' = <<seq, now[2]>> /\ jobs' = jobs
  BY DEF TransferringComplete
<1>3. CASE seq = now[1]
  <2>1. now' = now /\ coll' = coll
    BY <1>1, <1>2, <1>3 DEF TransferringComplete, Keys
  <2> QED
    BY <1>2, <2>1
<1>4. CASE seq # now[1]
  <2>1. coll' = EmptyCollector
    BY <1>4 DEF TransferringComplete, resetContent
  <2>2. /\ now' \in Keys
        /\ \A j \in jobs : /\ j.key[1] <= now'[1]
                           /\ j.key[2] <= now'[2]
                           /\ j.key # now'
    BY <1>1, <1>2, <1>4, CollectorAssumption DEF Keys
  <2>3. Good(lost, now', EmptyCollector, jobs)
    BY <1>1, <2>2, EmptyIsGood
  <2> QED
    BY <1>2, <2>1, <2>3
<1> QED
  BY <1>3, <1>4

-----------------------------------------------------------------------------
(* Each action, and a stuttering step, keeps the invariant; if state is    *)
(* not being collected, it also loses no result.                           *)
LEMMA StepKeeps ==
    ASSUME NEW lost \in BOOLEAN, Good(lost, now, coll, jobs),
           [Next]_vars, lost \/ ~collecting
    PROVE  Good(lost, now', coll', jobs')
<1>1. CASE \E r \in Replicas, s \in {"good", "bad"} : AddPartial(r, s)
  BY <1>1, PartialStep
<1>2. CASE \E s \in {"good", "bad"} : AddCombined(s)
  BY <1>2, CombinedStep
<1>3. CASE SetExpected
  BY <1>3, ExpectedStep
<1>4. CASE \E j \in jobs : JobDone(j)
  BY <1>4, ReportStep
<1>5. CASE MoveToHigherView \/ AdvanceWindow
  BY <1>5, ResetStep
<1>6. CASE StartCollectingState
  BY <1>6 DEF StartCollectingState
<1>7. CASE \E seq \in now[1] .. MaxSeq : TransferringComplete(seq)
  BY <1>7, TransferStep
<1>8. CASE UNCHANGED vars
  BY <1>8 DEF vars
<1> QED
  BY <1>1, <1>2, <1>3, <1>4, <1>5, <1>6, <1>7, <1>8 DEF Next

(* The invariant of the specification.                                     *)
THEOREM Invariant == Spec => []IInv
<1>1. Init => IInv
  <2> SUFFICES ASSUME Init PROVE IInv
    OBVIOUS
  <2>1. now \in Keys /\ {} \in SUBSET JobType
    BY CollectorAssumption DEF Init, Keys
  <2>2. Good(TRUE, now, EmptyCollector, {})
    BY <2>1, EmptyIsGood, Zenon
  <2> QED
    BY <2>2, Zenon DEF Init, IInv
<1>2. IInv /\ [Next]_vars => IInv'
  <2> SUFFICES ASSUME IInv, [Next]_vars PROVE IInv'
    OBVIOUS
  <2>1. Good(TRUE, now', coll', jobs')
    BY StepKeeps, Zenon DEF IInv
  <2>2. collecting' \in BOOLEAN
    BY Zenon DEF IInv, Next, vars, AddPartial, AddCombined, SetExpected, Handle,
           JobDone, MoveToHigherView, AdvanceWindow, StartCollectingState,
           TransferringComplete
  <2> QED
    BY <2>1, <2>2, Zenon DEF IInv
<1> QED
  BY <1>1, <1>2, PTL DEF Spec

(* The collector keeps its types, the unsigned share counter included.     *)
THEOREM Typed == Spec => []TypeOK
<1>1. IInv => TypeOK
  BY DEF IInv, Good, TypeOK
<1> QED
  BY <1>1, Invariant, PTL

(* The Asserts of the three completion handlers hold for every result that *)
(* passes the handlers' view and window guards.                            *)
THEOREM ResultsMeet == Spec => []ResultMeetsItsCollector
<1>1. IInv => ResultMeetsItsCollector
  BY DEF IInv, Good, JobOf, ResultMeetsItsCollector, CompletionAsserts
<1> QED
  BY <1>1, Invariant, PTL

(* No two results of jobs of the present key are ever on their way.        *)
THEOREM OneJob == Spec => []OneJobInFlight
<1>1. IInv => OneJobInFlight
  BY DEF IInv, Good, OneJobInFlight
<1> QED
  BY <1>1, Invariant, PTL

(* numberOfUnknownSignatures counts the shares that may still be good.     *)
THEOREM CounterExact == Spec => []UnknownIsExact
<1>1. IInv => UnknownIsExact
  BY DEF IInv, Good, UnknownIsExact
<1> QED
  BY <1>1, Invariant, PTL

(* Only a state transfer makes a collector wait for a result that does not *)
(* come: any other step of a collector whose result is on its way leaves   *)
(* it idle or with a result on its way.                                    *)
THEOREM LostOnlyCollecting == Spec => LostOnlyWhileCollecting
<1>1. IInv /\ [Next]_vars => [ResultLost' => ResultLost \/ collecting]_vars
  <2> SUFFICES ASSUME IInv, [Next]_vars, ~ResultLost, ~collecting
               PROVE  ~ResultLost'
    OBVIOUS
  <2>1. Good(FALSE, now, coll, jobs)
    BY DEF IInv, Good, ResultLost
  <2>2. Good(FALSE, now', coll', jobs')
    BY <2>1, StepKeeps, Zenon
  <2> QED
    BY <2>2 DEF Good, ResultLost
<1> QED
  BY <1>1, Invariant, PTL DEF Spec, LostOnlyWhileCollecting
=============================================================================
