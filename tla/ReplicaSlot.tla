---------------------------- MODULE ReplicaSlot ----------------------------
(***************************************************************************)
(* One replica's handling of one sequence number, over several views: the  *)
(* SeqNumInfo of the main log with its two signature collectors and its    *)
(* partial-proof set, the message handlers of ReplicaImp that work on it,  *)
(* the results of background jobs, and the execution of the request.       *)
(*                                                                         *)
(* The other replicas, the network and the timers are the environment:     *)
(* any message that passes the validity check of its type may arrive at    *)
(* any time, any number of times, with a good or a bad signature.          *)
(*                                                                         *)
(* When an Assert of a handler does not hold its name enters aborted and   *)
(* the process stops (the build type is Debug, so Assert ends it).         *)
(***************************************************************************)
EXTENDS CollectorOfThresholdSignatures, Sequences

CONSTANTS
    MyId,           \* this replica, 0 .. N-1
    SeqNo,          \* the sequence number
    RequiredFast,   \* 3f+c+1 partial proofs, FAST_WITH_THRESHOLD
    CVal,           \* c: FAST_WITH_THRESHOLD is used only if c > 0
    Faulty,         \* replicas that may send bad signatures
    CollectorViews, \* the views in which this replica collects proofs
    Paths,          \* bound: the first paths a primary uses
    MaxView         \* bound: largest view

ASSUME SlotAssumption ==
    /\ MyId \in Replicas
    /\ MyId \notin Faulty
    /\ SeqNo \in Nat \ {0}
    /\ Paths \subseteq {"OPTIMISTIC_FAST", "FAST_WITH_THRESHOLD", "SLOW"}
    /\ CVal = 0 => "FAST_WITH_THRESHOLD" \notin Paths
    /\ MaxView \in Nat

VARIABLES
    curView,
    viewActive,         \* currentViewIsActive()
    collecting,         \* stateTransfer->isCollectingState()
    belowBound,         \* SeqNo <= strictLowerBoundOfSeqNums
    outside,            \* SeqNo has left the active window (is stable)
    slot,               \* the SeqNumInfo
    jobs,               \* background results on their way
    othersExecuted,     \* lastExecutedSeqNum >= SeqNo - 1
    executed,           \* lastExecutedSeqNum >= SeqNo
    aborted             \* the Asserts that failed

viewVars == <<curView, viewActive, collecting, belowBound, outside>>
vars == <<viewVars, slot, jobs, othersExecuted, executed, aborted>>

N == Cardinality(Replicas)
Peers == Replicas \ {MyId}
primaryOfView(v) == v % N
isCurrentPrimary == primaryOfView(curView) = MyId
Key == <<SeqNo, curView>>

FastPaths == {"OPTIMISTIC_FAST", "FAST_WITH_THRESHOLD"}
NumRequired(path) == IF path = "OPTIMISTIC_FAST" THEN N ELSE RequiredFast

(* A PrePrepare message is represented by the path it starts on.           *)
NoPP == "none"

EmptySlot ==
    [pp |-> NoPP, primary |-> FALSE,
     prepare |-> EmptyCollector, commit |-> EmptyCollector,
     selfProof |-> "none",                        \* selfPartialCommitProof
     participating |-> [p \in FastPaths |-> {}],  \* <<replica, share>>
     fullProof |-> FALSE, forcedCompleted |-> FALSE, slowPathStarted |-> FALSE]

Init ==
    /\ curView = 0
    /\ viewActive = TRUE
    /\ collecting = FALSE
    /\ belowBound = FALSE
    /\ outside = FALSE
    /\ slot = EmptySlot
    /\ jobs = {}
    /\ othersExecuted = FALSE
    /\ executed = FALSE
    /\ aborted = {}

-----------------------------------------------------------------------------
(* SeqNumInfo: queries.                                                    *)
hasPrePrepareMsg(s) == s.pp # NoPP
isPrepared(s) == s.forcedCompleted \/ (hasPrePrepareMsg(s) /\ s.prepare.combined)
isCommitted(s) == s.forcedCompleted \/ s.commit.combined
committedOrHasCommitPartial(s, r) ==
    isCommitted(s) \/ hasPartialMsgFromReplica(s.commit, r)

(* A step of a handler yields a set of results: the slot, the jobs it      *)
(* started, and the Asserts that did not hold.                             *)
Result(s, js, fails) == [slot |-> s, jobs |-> js, fails |-> fails]
Tagged(phase, js) == {[phase |-> phase, res |-> j] : j \in js}
Check(name, cond) == IF cond THEN {} ELSE {name}

OnPrepare(s, outcomes, fails) ==
    {Result([s EXCEPT !.prepare = o.coll], Tagged("prepare", o.jobs), fails) :
        o \in outcomes}
OnCommit(s, outcomes, fails) ==
    {Result([s EXCEPT !.commit = o.coll], Tagged("commit", o.jobs), fails) :
        o \in outcomes}

(* results of F applied to the slot of each result of rs                   *)
Then(rs, F(_)) ==
    UNION {{Result(q.slot, r.jobs \cup q.jobs, r.fails \cup q.fails) :
                q \in F(r.slot)} : r \in rs}

-----------------------------------------------------------------------------
(* SeqNumInfo::addMsg and addSelfMsg of a PrePrepare message.              *)
addPrePrepare(s, pp, mine) ==
    OnPrepare([s EXCEPT !.pp = pp, !.primary = mine],
              setExpected(s.prepare, Key),
              Check("primary", ~s.primary)
              \cup Check("forcedCompleted", ~s.forcedCompleted)
              \cup Check("selfPrepare", ~hasPartialMsgFromReplica(s.prepare, MyId))
              \cup Check("setExpected", SetExpectedAsserts(s.prepare, Key)))

(* PartialProofsSet::tryToCreateFullProof, reached by addImp when the      *)
(* proofs of path are complete.  A job that meets a bad share reports      *)
(* nothing.                                                                *)
FullProofJobs(s, path) ==
    IF /\ s.selfProof = path
       /\ Cardinality(s.participating[path]) = NumRequired(path) - 1
       /\ \A x \in s.participating[path] : x[2] = "good"
    THEN {[phase |-> "proof",
           res |-> [kind |-> "combined", key |-> Key, ok |-> TRUE, bad |-> {}]]}
    ELSE {}

(* Mutant: the own proof is also put among those of the peers, which       *)
(* counts it twice.                                                        *)
MutantSendPartialProof(s) ==
    IF s.fullProof \/ s.selfProof # "none"
    THEN {Result(s, {}, {})}
    ELSE LET t == [s EXCEPT !.selfProof = s.pp,
                            !.participating[s.pp] = @ \cup {<<MyId, "good">>}]
         IN  {Result(t, FullProofJobs(t, s.pp), {})}

(* ReplicaImp::sendPartialProof.  The first call creates and adds the own  *)
(* proof; what addSelfMsgAndPPDigest then Asserts was tested just before,  *)
(* and the path is a valid one (SlotAssumption, PrePrepareMsg.cpp:74).     *)
sendPartialProof(s) ==
    IF s.fullProof \/ s.selfProof # "none"
    THEN {Result(s, {}, {})}
    ELSE LET t == [s EXCEPT !.selfProof = s.pp]
         IN  {Result(t, FullProofJobs(t, s.pp), {})}

(* ReplicaImp::sendPreparePartial.                                         *)
sendPreparePartial(s) ==
    IF \/ hasPartialMsgFromReplica(s.prepare, MyId)
       \/ ~hasPrePrepareMsg(s)
       \/ isPrepared(s)
    THEN {Result(s, {}, {})}
    ELSE OnPrepare(s, addMsgWithPartialSignature(s.prepare, MyId, "good"),
                   Check("forcedCompleted", ~s.forcedCompleted)
                   \cup Check("addSelfPrepare", ~s.prepare.combined))

(* ReplicaImp::sendCommitPartial with addSelfCommitPartialMsgAndDigest.    *)
sendCommitPartial(s) ==
    LET fails == Check("isPrepared", isPrepared(s) /\ hasPrePrepareMsg(s))
        addSelf(t) ==
            OnCommit(t, addMsgWithPartialSignature(t.commit, MyId, "good"),
                     Check("addSelfCommit", ~t.commit.combined))
    IN  IF committedOrHasCommitPartial(s, MyId)
        THEN {Result(s, {}, fails)}
        ELSE Then(OnCommit(s, setExpected(s.commit, Key),
                           fails \cup Check("forcedCompleted", ~s.forcedCompleted)
                           \cup Check("setExpected", SetExpectedAsserts(s.commit, Key))),
                  addSelf)

-----------------------------------------------------------------------------
(* The process runs, and an external message for SeqNo and the current     *)
(* view is dispatched and found relevant (metaMessageHandler_IgnoreWhen-   *)
(* CollectingState, relevantMsgForActiveView).                             *)
Running == aborted = {}

(* Mutant: messages are handled although the view is not active.           *)
MutantRelevantInactive ==
    Running /\ ~collecting /\ ~belowBound /\ ~outside

Relevant ==
    Running /\ ~collecting /\ viewActive /\ ~belowBound /\ ~outside

Continue(r) ==
    /\ slot' = r.slot
    /\ jobs' = jobs \cup r.jobs
    /\ aborted' = r.fails
    /\ UNCHANGED <<viewVars, othersExecuted, executed>>

(* executeReadWriteRequests and executeRequestsInPrePrepareMsg for SeqNo,  *)
(* once all smaller sequence numbers are executed.  A request that is      *)
(* fresh (of a valid client and not answered before; the requests repeated *)
(* by a view change may be answered, its null messages hold none) is       *)
(* executed with the full commit proof, whose presence is Asserted.        *)
Execute(s, others) ==
    IF others /\ ~executed /\ hasPrePrepareMsg(s) /\ isCommitted(s)
    THEN \E fresh \in BOOLEAN :
            LET fails == Check("hasFullProof", fresh => s.fullProof)
            IN  executed' = (fails = {}) /\ aborted' = fails
    ELSE UNCHANGED <<executed, aborted>>

ContinueAndExecute(r) ==
    /\ slot' = r.slot
    /\ jobs' = jobs \cup r.jobs
    /\ UNCHANGED <<viewVars, othersExecuted>>
    /\ IF r.fails = {}
       THEN Execute(r.slot, othersExecuted)
       ELSE aborted' = r.fails /\ UNCHANGED executed

-----------------------------------------------------------------------------
(* The primary proposes SeqNo (tryToSendPrePrepareMsg).                    *)
SendPrePrepare(path) ==
    /\ Relevant
    /\ isCurrentPrimary
    /\ ~hasPrePrepareMsg(slot)
    /\ ~executed
    /\ LET start(s) == IF path = "SLOW"
                       THEN sendPreparePartial([s EXCEPT !.slowPathStarted = TRUE])
                       ELSE sendPartialProof(s)
       IN  \E r \in Then(addPrePrepare(slot, path, TRUE),
                         start) : Continue(r)

(* onMessage(PrePrepareMsg) of the current primary.                        *)
RecvPrePrepare(path) ==
    /\ Relevant
    /\ ~isCurrentPrimary
    /\ ~hasPrePrepareMsg(slot)
    /\ LET start(s) == IF path # "SLOW" /\ ~s.slowPathStarted
                       THEN sendPartialProof(s)
                       ELSE sendPreparePartial([s EXCEPT !.slowPathStarted = TRUE])
       IN  \E r \in Then(addPrePrepare(slot, path, FALSE),
                         start) : Continue(r)

(* tryToStartSlowPaths: the primary's timer.                               *)
StartSlowPath ==
    /\ Relevant
    /\ isCurrentPrimary
    /\ ~executed
    /\ ~slot.fullProof
    /\ ~slot.slowPathStarted
    /\ slot.selfProof # "none"
    /\ \E r \in sendPreparePartial([slot EXCEPT !.slowPathStarted = TRUE]) :
            Continue(r)

(* onMessage(StartSlowCommitMsg).                                          *)
RecvStartSlowCommit ==
    /\ Relevant
    /\ ~isCurrentPrimary
    /\ ~slot.slowPathStarted
    /\ ~isPrepared(slot)
    /\ \E r \in sendPreparePartial([slot EXCEPT !.slowPathStarted = TRUE]) :
            Continue(r)

(* onMessage(PartialCommitProofMsg) with PartialProofsSet::addMsg.         *)
RecvPartialCommitProof(p, path, sig) ==
    /\ Relevant
    /\ curView \in CollectorViews
    /\ sig = "good" \/ p \in Faulty
    /\ ~executed
    /\ ~slot.fullProof
    /\ slot.selfProof \in {"none", path}
    /\ p \notin {x[1] : x \in slot.participating[path]}
    /\ Cardinality(slot.participating[path]) < NumRequired(path) - 1
    /\ LET t == [slot EXCEPT !.participating[path] = @ \cup {<<p, sig>>}]
       IN  Continue(Result(t, FullProofJobs(t, path), {}))

(* onMessage(FullCommitProofMsg): a proof that the own one does not        *)
(* prepare for, or that does not verify, is dropped.                       *)
RecvFullCommitProof ==
    /\ Relevant
    /\ slot.selfProof # "none"
    /\ ~slot.fullProof
    /\ LET t == [slot EXCEPT !.fullProof = TRUE, !.forcedCompleted = TRUE]
       IN  ContinueAndExecute(Result(t, {},
               Check("hasPrePrepareMsg", hasPrePrepareMsg(slot))
               \cup Check("forceComplete", ~slot.forcedCompleted)))

(* Mutant: a share is added although the full commit proof is there.       *)
MutantRecvPreparePartial(p, sig) ==
    /\ Relevant
    /\ isCurrentPrimary
    /\ sig = "good" \/ p \in Faulty
    /\ ~slot.commit.combined /\ ~slot.prepare.combined
    /\ \E r \in OnPrepare(slot, addMsgWithPartialSignature(slot.prepare, p, sig),
                          Check("forcedCompleted", ~slot.forcedCompleted)) :
            Continue(r)

(* onMessage(PreparePartialMsg): answered when the phase is already over.  *)
RecvPreparePartial(p, sig) ==
    /\ Relevant
    /\ isCurrentPrimary
    /\ sig = "good" \/ p \in Faulty
    /\ ~slot.fullProof /\ ~slot.commit.combined /\ ~slot.prepare.combined
    /\ \E r \in OnPrepare(slot, addMsgWithPartialSignature(slot.prepare, p, sig),
                          Check("forcedCompleted", ~slot.forcedCompleted)) :
            Continue(r)

(* onMessage(CommitPartialMsg).                                            *)
RecvCommitPartial(p, sig) ==
    /\ Relevant
    /\ isCurrentPrimary
    /\ sig = "good" \/ p \in Faulty
    /\ ~slot.fullProof /\ ~slot.commit.combined
    /\ \E r \in OnCommit(slot, addMsgWithPartialSignature(slot.commit, p, sig),
                         Check("forcedCompleted", ~slot.forcedCompleted)) :
            Continue(r)

(* onMessage(PrepareFullMsg) of any peer.                                  *)
RecvPrepareFull(sig) ==
    /\ Relevant
    /\ ~slot.fullProof /\ ~slot.commit.combined /\ ~slot.prepare.combined
    /\ \E r \in OnPrepare(slot, addMsgWithCombinedSignature(slot.prepare, sig),
                          Check("forcedCompleted", ~slot.forcedCompleted)) :
            Continue(r)

(* onMessage(CommitFullMsg) of any peer.                                   *)
RecvCommitFull(sig) ==
    /\ Relevant
    /\ ~slot.fullProof /\ ~slot.commit.combined
    /\ \E r \in OnCommit(slot, addMsgWithCombinedSignature(slot.commit, sig),
                         Check("forcedCompleted", ~slot.forcedCompleted)) :
            Continue(r)

-----------------------------------------------------------------------------
(* The results of background jobs, queued as internal messages.  They are  *)
(* dispatched also while state is collected; each handler drops a result   *)
(* the replica has moved away from.                                        *)
ResultIsRelevant(j) ==
    ~collecting /\ viewActive /\ j.res.key = Key /\ ~outside

(* onPrepareCombinedSigFailed, ...Succeeded, onPrepareVerifyCombinedSig-   *)
(* Result.                                                                 *)
PrepareResults(j) ==
    LET asserts == Check("completion", CompletionAsserts(slot.prepare, j.res))
        proceed(s) ==
            IF ~j.res.ok \/ s.fullProof THEN {Result(s, {}, {})}
            ELSE sendCommitPartial(s)
    IN  Then(OnPrepare(slot, onCompletion(slot.prepare, j.res), asserts), proceed)

(* onCommitCombinedSigFailed, ...Succeeded, onCommitVerifyCombinedSig-     *)
(* Result.                                                                 *)
CommitResults(j) ==
    OnCommit(slot, onCompletion(slot.commit, j.res),
             Check("completion", CompletionAsserts(slot.commit, j.res)))

HandleResult(j) ==
    \/ /\ j.phase = "prepare"
       /\ \E r \in PrepareResults(j) :
            /\ slot' = r.slot
            /\ jobs' = (jobs \ {j}) \cup r.jobs
            /\ aborted' = r.fails
       /\ UNCHANGED <<viewVars, othersExecuted, executed>>
    \/ /\ j.phase = "commit"
       /\ \E r \in CommitResults(j) :
            /\ slot' = r.slot
            /\ jobs' = (jobs \ {j}) \cup r.jobs
            /\ UNCHANGED <<viewVars, othersExecuted>>
            /\ IF r.fails # {}
               THEN aborted' = r.fails /\ UNCHANGED executed
               ELSE IF ~j.res.ok \/ (j.res.kind = "shares" /\ slot.fullProof)
               THEN UNCHANGED <<executed, aborted>>
               ELSE Execute(r.slot, othersExecuted)

(* onInternalMsg(FullCommitProofMsg): sent to all, then handled as if      *)
(* received.                                                               *)
HandleFullProof(j) ==
    /\ j.phase = "proof"
    /\ IF ~belowBound /\ slot.selfProof # "none" /\ ~slot.fullProof
       THEN /\ slot' = [slot EXCEPT !.fullProof = TRUE, !.forcedCompleted = TRUE]
            /\ Execute(slot', othersExecuted)
       ELSE UNCHANGED <<slot, executed, aborted>>
    /\ jobs' = jobs \ {j}
    /\ UNCHANGED <<viewVars, othersExecuted>>

JobDone(j) ==
    /\ Running
    /\ IF ResultIsRelevant(j)
       THEN HandleResult(j) \/ HandleFullProof(j)
       ELSE /\ jobs' = jobs \ {j}
            /\ UNCHANGED <<viewVars, slot, othersExecuted, executed, aborted>>

-----------------------------------------------------------------------------
(* A smaller sequence number is executed; the loop of executeReadWrite-    *)
(* Requests goes on with SeqNo.                                            *)
PredecessorsExecuted ==
    /\ Running /\ ~collecting /\ viewActive /\ ~othersExecuted
    /\ othersExecuted' = TRUE
    /\ Execute(slot, TRUE)
    /\ UNCHANGED <<viewVars, slot, jobs>>

(* MoveToHigherView: on leaving an active view the entries of the window   *)
(* are emptied into the ViewChange message.  The PrePrepare message, and   *)
(* the PrepareFull message if there is one, are Asserted to be of the view *)
(* that is left; both have the view that the prepare collector expects.    *)
MoveToHigherView(v) ==
    /\ Running /\ ~collecting
    /\ curView < v
    /\ curView' = v
    /\ viewActive' = FALSE
    /\ IF viewActive /\ ~outside
       THEN /\ slot' = EmptySlot
            /\ aborted' = Check("prevViewInfo",
                    hasPrePrepareMsg(slot) => slot.prepare.expected = Key)
       ELSE UNCHANGED <<slot, aborted>>
    /\ UNCHANGED <<collecting, belowBound, outside, jobs, othersExecuted, executed>>

(* tryToEnterView and onNewView.  SeqNo is among the transferred sequence  *)
(* numbers, or above, or below all of them; an executed one is not above.  *)
EnterView(place) ==
    /\ Running /\ ~collecting /\ ~viewActive
    /\ outside => place = "below"
    /\ executed => place # "above"
    /\ viewActive' = TRUE
    /\ belowBound' = (place = "below")
    /\ UNCHANGED <<curView, collecting, outside, othersExecuted, executed>>
    /\ IF place = "among"
       THEN LET start(s) == sendPreparePartial([s EXCEPT !.slowPathStarted = TRUE])
            IN  \E r \in Then(addPrePrepare(slot, "SLOW", isCurrentPrimary), start) :
                    /\ slot' = r.slot
                    /\ jobs' = jobs \cup r.jobs
                    /\ aborted' = r.fails
       ELSE UNCHANGED <<slot, jobs, aborted>>

(* onSeqNumIsStable for a checkpoint at or above SeqNo: the window moves.  *)
SeqNumIsStable ==
    /\ Running /\ executed /\ ~outside
    /\ outside' = TRUE
    /\ belowBound' = TRUE
    /\ slot' = EmptySlot
    /\ UNCHANGED <<curView, viewActive, collecting, jobs, othersExecuted,
                   executed, aborted>>

(* startCollectingState.                                                   *)
StartCollectingState ==
    /\ Running /\ ~collecting
    /\ collecting' = TRUE
    /\ UNCHANGED <<curView, viewActive, belowBound, outside, slot, jobs,
                   othersExecuted, executed, aborted>>

(* onTransferringCompleteImp: the new state ends below SeqNo - 1 or brings *)
(* nothing new, ends at SeqNo - 1, or covers SeqNo, in which case the      *)
(* window may have to move past it.                                        *)
TransferringComplete(reach, moves) ==
    /\ Running /\ collecting
    /\ collecting' = FALSE
    /\ UNCHANGED <<curView, viewActive, jobs>>
    /\ \/ /\ reach = "below"
          /\ UNCHANGED <<belowBound, outside, slot, othersExecuted, executed, aborted>>
       \/ /\ reach = "upTo"
          /\ ~othersExecuted
          /\ othersExecuted' = TRUE
          /\ IF viewActive THEN Execute(slot, TRUE) ELSE UNCHANGED <<executed, aborted>>
          /\ UNCHANGED <<belowBound, outside, slot>>
       \/ /\ reach = "covers"
          /\ othersExecuted' = TRUE
          /\ executed' = TRUE
          /\ outside' = (outside \/ moves)
          /\ belowBound' = (belowBound \/ moves)
          /\ slot' = IF moves THEN EmptySlot ELSE slot
          /\ UNCHANGED aborted

Next ==
    \/ \E path \in Paths :
            SendPrePrepare(path) \/ RecvPrePrepare(path)
    \/ StartSlowPath
    \/ RecvStartSlowCommit
    \/ \E p \in Peers, sig \in {"good", "bad"} :
            \/ \E path \in FastPaths \cap Paths : RecvPartialCommitProof(p, path, sig)
            \/ RecvPreparePartial(p, sig)
            \/ RecvCommitPartial(p, sig)
    \/ RecvFullCommitProof
    \/ \E sig \in {"good", "bad"} : RecvPrepareFull(sig) \/ RecvCommitFull(sig)
    \/ \E j \in jobs : JobDone(j)
    \/ PredecessorsExecuted
    \/ \E v \in 1 .. MaxView : MoveToHigherView(v)
    \/ \E place \in {"below", "among", "above"} :
            EnterView(place)
    \/ SeqNumIsStable
    \/ StartCollectingState
    \/ \E reach \in {"below", "upTo", "covers"}, moves \in BOOLEAN :
            TransferringComplete(reach, moves)

Spec == Init /\ [][Next]_vars

-----------------------------------------------------------------------------
Keys == {SeqNo} \X (0 .. MaxView)
CollectorType ==
    [expected : {NotSet} \cup Keys, processing : BOOLEAN,
     replicasInfo : [Replicas -> ShareStates], unknown : Nat,
     candidate : {"none", "good", "bad"}, combined : BOOLEAN]

(* The fields of the entry, of the queued results and of the replica have  *)
(* their types; in particular the unsigned share counters do not wrap.     *)
TypeOK ==
    /\ curView \in 0 .. MaxView
    /\ {viewActive, collecting, belowBound, outside, othersExecuted, executed}
         \subseteq BOOLEAN
    /\ slot \in [pp : Paths \cup {NoPP, "SLOW"},
                 primary : BOOLEAN,
                 prepare : CollectorType, commit : CollectorType,
                 selfProof : FastPaths \cup {"none"},
                 participating : [FastPaths -> SUBSET (Peers \X {"good", "bad"})],
                 fullProof : BOOLEAN, forcedCompleted : BOOLEAN,
                 slowPathStarted : BOOLEAN]
    /\ jobs \subseteq [phase : {"prepare", "commit", "proof"},
                       res : [kind : {"shares", "combined"}, key : Keys,
                              ok : BOOLEAN, bad : SUBSET Replicas]]
    /\ aborted \subseteq STRING

(* No order of messages, timers, results, view changes and state transfers *)
(* makes an Assert that an action above names (of SeqNumInfo, of the       *)
(* collectors, of MoveToHigherView, of the handlers of this entry) fail,   *)
(* except the one of the execution on the full commit proof (ReplicaImp    *)
(* .cpp:2818).  Asserts on the primary's counters (ReplicaImp.cpp:353,     *)
(* 383, 512, 513) and of onNewView are about state not modelled here.      *)
AssertsHold == aborted \subseteq {"hasFullProof"}

(* That Assert: whenever a request is executed, the full commit proof of   *)
(* its sequence number is at hand.                                         *)
FullProofAtExecution == "hasFullProof" \notin aborted

(* A committed entry is prepared (isCommitted__gg leaves this open,        *)
(* SeqNumInfo.cpp:267), whatever overtakes the PrePrepare and Prepare      *)
(* messages.                                                               *)
CommittedWasPrepared == isCommitted(slot) => isPrepared(slot)

(* Between two views, and once it left the window, an entry stays empty:   *)
(* no late message or result fills it for the next user.                   *)
IdleSlotIsEmpty == outside \/ ~viewActive => slot = EmptySlot
=============================================================================
