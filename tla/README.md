# Verification of concord-rcanopus

TLA+ specifications of the Byzantine fault tolerant replication engine in
`src/bftengine` and of the RCanopus global membership service that runs on it
(`src/bftengine/tests/membership_service`), with TLC runs and TLAPS proofs.
Paths without a directory are under `src/bftengine/src/bftengine/`.

## 1. The system

`N = 3f + 2c + 1` replicas order client requests; up to `f` are Byzantine and
`c` more may be slow. A replica runs one dispatcher thread
(`ReplicaImp::processMessages`) that handles messages, timers and results of
background jobs one at a time, and a thread pool for threshold signatures.

| Part | State | Operations | Talks to |
|---|---|---|---|
| Message certificate (`MsgsCertificate.hpp`) | messages per sender, classes of equivalent ones, best class | `addMsg`, `tryToMarkComplete`, `resetAndFree`, `bestCorrectMsg` | client (replies), checkpoints, state transfer |
| Signature collector (`CollectorOfThresholdSignatures.hpp`) | shares, candidate and combined signature, job running, expected digest | `addMsgWith...Signature`, `setExpected`, `onCompletion...`, reset | thread pool, `SeqNumInfo` |
| Partial proofs (`PartialProofsSet.cpp`) | proofs per fast path, own proof, full proof | `addMsg`, `addSelfMsgAndPPDigest`, combination job | `SeqNumInfo`, thread pool |
| Log entry (`SeqNumInfo.cpp`) | proposal, two collectors, proof set, flags | `addMsg`, `addSelf...`, `forceComplete`, `resetAndFree` | handlers of `ReplicaImp` |
| Active window (`SequenceWithActiveWindow.hpp`) | circular array of entries | `get`, `advanceActiveWindow`, `resetAll` | main log, checkpoint log |
| Replica (`ReplicaImp.cpp`) | view, log, last executed and stable numbers | one handler per message, timer and result | all of the above |
| View change (`ViewsManager`, `ViewChangeSafetyLogic`) | view-change and new-view messages, restrictions | `add`, `tryToEnterView`, `exitFromCurrentView` | replica |
| Checkpoints (`CheckpointInfo.cpp`) | certificate per checkpoint | `addCheckpointMsg`, `tryToMark...` | replica, state transfer |
| Clients manager, retransmissions, controllers, message queue, thread pool | see `PROJECT.json` | | replica |
| State transfer (`bcstatetransfer`) | checkpoints, fetched pages and blocks | messages, timers | replica, application |
| Client library (`SimpleClient.cpp`) | pending request, reply certificate, retransmission time | `sendRequest`, `onNewMessage` | replicas |
| Membership service (`replica.cpp`, `client.cpp`) | five CouchDB documents and a topology | reads, writes, emulators query; gRPC gateway | engine, client library |

How a request commits. The primary sends a PrePrepare that names the path to
try first. On a *fast path* every replica signs a partial proof; a collector
combines `N` of them (OPTIMISTIC_FAST) or `3f+c+1` (FAST_WITH_THRESHOLD, only
if c > 0) into a full commit proof. On the *slow path* `2f+c+1` prepare shares,
then `2f+c+1` commit shares, are combined by the primary. The slow path may
start while the fast one is under way, and both work on the same log entry.

The behaviours that make this hard: the two paths compete; messages overtake
each other; shares may be bad; a background result may come back when its
entry serves another view or another sequence number; a Byzantine primary
proposes different requests; a view change has to find what was committed from
any `2f+2c+1` reports; reads are not ordered with writes; a step of an
operation (the database update) may fail. `PROJECT.json` lists them as
*hazards*, each with its line and the property about it.

What correctness means here: replicas never commit different requests for one
number; what was committed survives a view change; no reachable order of
events makes an assertion end a replica; enough good shares, and a correct
primary, lead to commitment, outside a state transfer; certificates stand for
the quorums they claim;
the membership service stores what it says it stored and never serves stale
reads.

## 2. Modules

* **MsgsCertificate**: a certificate as its class table, with messages
  abstracted to the class they are equivalent to. `SelfTrust` and
  `SelfIsRequired` are the two template flags. `markedByOwner` is a history
  variable that says whether the owner itself declared completeness. The queries
  `isInconsistent`, `isEmpty` and `selfMsg` change nothing and are left out.
* **CollectorOfThresholdSignatures**: the operations of a collector as
  operators on a record. A share not yet judged is `"good"` or `"bad"`, which
  the collector cannot see; an operation that may start a job yields the set
  of its outcomes, and a job is represented by the result it will report.
  `replicasWithBadSigs` keeps one fact of the signature library: with
  `2f+c+1 = N-1`, that is with four replicas, the accumulator verifies no share,
  so a failed job finds no bad ones (`BlsThresholdVerifier::newAccumulator`).
* **CollectorLife**: one collector of one log entry over the keys
  `<<seq, view>>` the entry serves, with results that come late. While the
  replica collects state (`collecting`) no message is handled and the handlers
  drop every result; the end of the transfer resets the entry only if it moves
  the window.
* **ReplicaSlot**: one replica and one sequence number over several views. It
  composes two collectors and the proof set into the log entry and has one
  action per handler of `ReplicaImp` that touches it. Peers, network and timers
  may do anything that passes the validity checks. A failing `Assert` puts its
  name in `aborted` and stops the replica (the default build type is Debug).
  Those at `ReplicaImp.cpp:353`, `383`, `512` and `513` (proposal of requests)
  and those of `onNewView` are not modelled.
* **Agreement**: all replicas, one sequence number, one view, all three paths,
  Byzantine replicas. Their shares exist from the start and they pass on
  whatever can be combined. Messages once sent stay available: the code resends
  them and asks for missing ones. Signature jobs take no time here; their
  delays are the subject of the two modules above. An execution that would
  stop a replica (finding 2 below) does not stop it in this module: execution is
  no part of it.
* **Emulators**: the emulators query as functions on a topology, next to a
  reference definition. **MembershipService**: `execute()` of the service at
  every correct replica, writes in the engine's order at each replica's own
  pace, reads at any time, and the client's `2f+c+1` equal replies.
* **MC_...** modules hold symmetry sets and topologies only.
* **AgreementProofs**, **CollectorLifeProofs**: the theorems.

The line-by-line correspondence is the `map` of `PROJECT.json`. Operators whose
name starts with `Mutant` are deliberately wrong variants of the definition
that follows them; each property is checked to fail when its variant is used.

## 3. Runs

| Run | Instance | Shows |
|---|---|---|
| `cert_reply` | f=1, c=1: 6 replicas, 3 message classes | completeness means a quorum of matching replies, no order hides a quorum, the best message is one more than f replicas sent |
| `cert_checkpoint` | f=1, c=1: 6 replicas, 3 message classes | completeness is for the class of the own message, with at most one replica missing (finding 1); no order of the own message and the others hides a quorum |
| `cert_checkpoint_quorum` | f=1, c=0: 4 replicas, 2 classes | **violation**, finding 1 |
| `collector` | f=1, c=1, one faulty, 2 numbers, 2 views, state transfers | assertions on results hold, at most one current job, the share counter is exact, only a state transfer loses a result, otherwise enough good shares complete the collector |
| `slot` | f=1, c=0; replica 1: collector and backup in view 0, primary in view 1; one bad sender | all modelled assertions but one (finding 2) hold under every order of events; committed implies prepared; entries are left clean |
| `slot_execute` | the same, view 0 only | **violation**, finding 2 |
| `agree_c1` | f=1, c=1, Byzantine primary, 2 requests, threshold fast path and slow path | agreement, backed certificates, recoverability |
| `agree_live` | f=1, c=0, correct primary, Byzantine backup, optimistic fast path and slow path | every correct replica commits, under the fairness below |
| `agree_early_slow` | f=1, c=1, all correct | **violation**, finding 3 |
| `member_service` | f=1, 2 documents, 2 entries, 2 writes; trees of two and three levels of virtual nodes | stored content is what the executed writes say; an accepted read is not stale; the emulators query returns right groups and misses at most one |
| `member_wide` | three branches, or three levels of two | **violation**, finding 4 |
| `member_put_fails` | one failed update | **violation**, finding 5 |

Bounds. Two views are enough for a result to meet an entry that was reset, two
sequence numbers for one reused; three classes let two of them compete with the
owner's. One Byzantine replica with two requests is the smallest system in
which a primary can split the correct replicas. `agree_c1` leaves the optimistic
path out to stay small; the theorems hold for every set of paths, and remove
the bounds on replicas, views and numbers as well. Two writes let an entry change
twice, and a replica be two behind. Symmetry is used only where no liveness
property is checked. Runs with `CHECK_DEADLOCK FALSE` are those of systems that
end: a single sequence number is decided once, a replica stops on a failed
assertion.

The collector runs with c = 1 because of the four-replica case: there a job that
fails names no bad share, the next one may take the same shares, and
`GoodSharesComplete` does not hold. It is listed as a hazard. In `slot`, which has
four replicas, failed jobs therefore name no bad share.

Fairness. `CollectorLife!FairSpec`: the pool executes every job and each result
reaches its handler, since internal messages are not lost on the way. The
handler may still drop it. A result dropped because the replica collects state
leaves the collector waiting for nothing until its entry is reset; that
`ResultLost` state is an allowed outcome of `GoodSharesComplete`, and
`LostOnlyWhileCollecting` says that nothing else leads to it. No assumption is
made on when state transfers begin or end.

`Agreement!Fairness`: a correct primary proposes and its slow-path timer fires
(`tryToStartSlowPaths`); messages between correct replicas arrive, because of
retransmission and `ReqMissingDataMsg`; the primary combines signatures when
the shares of correct replicas suffice. The last part rests on
`GoodSharesComplete` and so assumes that no correct replica collects state
and, with four replicas, that the primary is sent no bad share.
`EveryoneCommits` is stated for c = 0: with c > 0 it fails, which is finding 3.
Nothing else is assumed of Byzantine replicas, nor of the fast path's
completion.

## 4. Proofs

`AgreementProofs`, for all f, c, sets of replicas, of Byzantine replicas (at
most f), requests and collectors, from `AgreementAssumption` and
`DigestAssumption`:

* `Invariance`: `Spec => [](TypeOK /\ CertificatesAreBacked)`. Neither conjunct
  is inductive by itself: that a sent message is well typed needs the proposal
  of its sender, and that shares last needs the types.
* `Agreed`: `Spec => []Consistency`. Two quorums of `2f+c+1`, `3f+c+1` or `N`
  shares have at least `f+1` members in common (`QuorumsMeet`), so a correct
  one, which signed for its only proposal.
* `Recoverable`: `Spec => []CommittedIsRecoverable`, by counting: a commit
  certificate means `f+c+1` correct replicas with a prepared certificate,
  of which any `2f+2c+1` replicas include one; a full proof means `2f+c+1`
  correct replicas with the proposal, of which they include `f+c+1`.

`CollectorLifeProofs`, for any number of replicas, required shares, window,
views and sequence numbers, from `CollectorAssumption`: `Invariant` proves the
inductive invariant `IInv`, which is `Good(TRUE, now, coll, jobs)` with the type
of `collecting`, and from it follow `Typed`, `ResultsMeet`, `OneJob` and
`CounterExact`. `Good` adds to the properties that results on their way belong
to the present or an earlier key of the entry (so that none becomes current by
a reset), that the current one is the only one and still fits the collector,
that only a collector with an expected digest waits, and that the bad shares a
result reports are still counted as unknown. That last part is what keeps the
unsigned counter from wrapping. `Good(FALSE, ...)` says moreover that a waiting
collector has a result on its way. It is not invariant, since a state transfer
may drop that result, but `StepKeeps` shows that every step of a replica that is
not collecting state keeps it, and so `LostOnlyCollecting`:
`Spec => LostOnlyWhileCollecting`.

Only model-checked: liveness (`GoodSharesComplete`, `EveryoneCommits`), which
TLAPS does not cover; `MsgsCertificate`, `ReplicaSlot` and
`MembershipService` so far; and the recursive definitions of `Emulators`.

## 5. Findings

1. `MsgsCertificate.hpp:269`: the own message is counted twice when it joins a
   class opened by a peer, so a checkpoint certificate completes one replica
   short of `numOfRequired`.
2. `ReplicaImp.cpp:2818`: `Assert(pps.hasFullProof() == 1)` fails whenever a
   fresh request was committed on the slow path.
3. `ReplicaImp.cpp:484`: a replica that handles StartSlowCommit before its
   PrePrepare sends a prepare share but never makes its partial proof, and
   without one it refuses a full proof. With c >= 1 the others may finish on
   the threshold fast path and sign nothing on the slow one, and that replica
   does not commit in the view.
4. `replica.cpp:404`: the emulators query leaves out the last virtual node when
   there is more than one.
5. `replica.cpp:496`: the result of the CouchDB update is ignored and the reply
   says OK.

## 6. Plan

In order, each with its abstract statement, runs and, where marked, proofs:

1. View change: `ViewsManager` and `computeRestrictionsForSeqNum`, then several
   views of `Agreement` with the restrictions in between; safety across views
   (proof), built on `CommittedIsRecoverable`.
2. Active window: the circular buffer implements a map from sequence numbers
   (refinement, proof). Checkpoints and stability on top of it, with the
   75-number shortcut of `sendCheckpointIfNeeded`.
3. Proposal and execution: `tryToSendPrePrepareMsg` with its limits, the clients
   manager, execution order; at-most-once execution.
4. Client library and gateway: retransmission, resets, time-outs, the
   sequence-number generator made per call, threads sharing one client.
5. Infrastructure: `IncomingMsgsStorage`, `SimpleThreadPool`,
   `RetransmissionsManager`, the controllers, `ReplicasInfo`'s collectors.
6. State transfer: `BCStateTran` with source replacement, and what it leaves
   out of the membership service's state.
7. Proofs for `MsgsCertificate` and for the stale-read property of
   `MembershipService`.

## 7. Not modelled

Threshold cryptography and digests (number theory; abstract shares instead),
socket and TLS communication (messages are delayed, repeated, reordered and
lost freely), message layouts (guards keep the sender and view checks), key
generation, metrics, logging, JSON text, execution proofs (dead code), and the
debug persistent storage, which the replica never uses. In the membership
service: heights of two digits, trees with super leafs at different depths or
virtual nodes with one child, and the CouchDB revision check, since a database
has one writer.
