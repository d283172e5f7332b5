-------------------------- MODULE MsgsCertificate --------------------------
(***************************************************************************)
(* The certificate of equivalent messages (MsgsCertificate.hpp) that a     *)
(* replica keeps for a checkpoint (CheckpointInfo), a client for a reply   *)
(* (SimpleClient) and the state transfer for checkpoint summaries.         *)
(*                                                                         *)
(* A message is abstracted to the class of messages it is equivalent to    *)
(* (ExternalFunc::equivalent), so messages are equivalent iff equal.       *)
(* The two template flags are constants: a checkpoint certificate has      *)
(* SelfTrust = SelfIsRequired = TRUE, the other two have both FALSE.       *)
(***************************************************************************)
EXTENDS Integers, FiniteSets, Sequences

CONSTANTS
    Replicas,          \* numOfReps replicas can contribute a message
    SelfId,            \* the owner, a member of Replicas or not (a client)
    Msgs,              \* the message classes
    NoMsg,             \* no message from a replica
    MaxFails,          \* maxFails
    Required,          \* numOfRequired
    SelfTrust,
    SelfIsRequired

ASSUME CertificateAssumption ==
    /\ IsFiniteSet(Replicas)
    /\ NoMsg \notin Msgs
    /\ MaxFails \in Nat
    /\ Required \in Nat \ {0, 1}     \* 2f+c+1 or f+1 with f >= 1 (ReplicaConfig)
    /\ SelfTrust \in BOOLEAN
    /\ SelfIsRequired \in BOOLEAN
    /\ SelfIsRequired => SelfTrust   \* static_assert in the constructor

VARIABLES
    msgsFromReplicas,    \* [Replicas -> Msgs \cup {NoMsg}]
    msgClasses,          \* sequence of [size, representativeReplica]
    complete,
    bestClass,           \* index into msgClasses, or NULL_CLASS
    sizeOfBestClass,
    hasTrustedSelfClass,
    markedByOwner        \* history: the owner itself called tryToMarkComplete

classVars == <<msgClasses, bestClass, sizeOfBestClass, hasTrustedSelfClass>>
vars == <<msgsFromReplicas, complete, classVars, markedByOwner>>

NULL_CLASS == 0

Received == {r \in Replicas : msgsFromReplicas[r] # NoMsg}
hasMsgFromReplica(r) == r \in Received

Init ==
    /\ msgsFromReplicas = [r \in Replicas |-> NoMsg]
    /\ msgClasses = <<>>
    /\ complete = FALSE
    /\ bestClass = NULL_CLASS
    /\ sizeOfBestClass = 0
    /\ hasTrustedSelfClass = FALSE
    /\ markedByOwner = FALSE

-----------------------------------------------------------------------------
(* The classes whose representative message is equivalent to m.            *)
ClassesOf(m) ==
    {i \in DOMAIN msgClasses :
        msgsFromReplicas[msgClasses[i].representativeReplica] = m}

Representative(s, r) == [size |-> s, representativeReplica |-> r]

(* Mutant: the largest class is not what bestClass and its size follow.    *)
MutantJoinLatestClass(i) ==
    LET size == msgClasses[i].size + 1
    IN  /\ msgClasses' = [msgClasses EXCEPT ![i].size = size]
        /\ bestClass' = i
        /\ sizeOfBestClass' = sizeOfBestClass + 1
        /\ complete' = (/\ sizeOfBestClass' >= Required
                        /\ SelfIsRequired => hasMsgFromReplica(SelfId))
        /\ UNCHANGED hasTrustedSelfClass

(* Mutant: the comparison with the required size is strict.                *)
MutantJoinStrict(i) ==
    LET size == msgClasses[i].size + 1
        best == size > sizeOfBestClass
    IN  /\ msgClasses' = [msgClasses EXCEPT ![i].size = size]
        /\ bestClass' = IF best THEN i ELSE bestClass
        /\ sizeOfBestClass' = IF best THEN size ELSE sizeOfBestClass
        /\ complete' = (/\ bestClass' = i
                        /\ sizeOfBestClass' > Required
                        /\ SelfIsRequired => hasMsgFromReplica(SelfId))
        /\ UNCHANGED hasTrustedSelfClass

(* Mutant: the largest size is kept without the class it belongs to.       *)
MutantBestClassStale(i) ==
    LET size == msgClasses[i].size + 1
        best == size > sizeOfBestClass
    IN  /\ msgClasses' = [msgClasses EXCEPT ![i].size = size]
        /\ sizeOfBestClass' = IF best THEN size ELSE sizeOfBestClass
        /\ complete' = (/\ bestClass = i
                        /\ sizeOfBestClass' >= Required
                        /\ SelfIsRequired => hasMsgFromReplica(SelfId))
        /\ UNCHANGED <<bestClass, hasTrustedSelfClass>>

(* A class is opened for a message no class matches, unless the trusted    *)
(* class of the owner's message is the only one that counts.               *)
OpenClass(r) ==
    /\ UNCHANGED <<complete, hasTrustedSelfClass>>
    /\ IF hasTrustedSelfClass \/ Len(msgClasses) >= Cardinality(Replicas)
       THEN UNCHANGED <<msgClasses, bestClass, sizeOfBestClass>>
       ELSE /\ msgClasses' = Append(msgClasses, Representative(1, r))
            /\ IF bestClass = NULL_CLASS
               THEN bestClass' = Len(msgClasses) + 1 /\ sizeOfBestClass' = 1
               ELSE UNCHANGED <<bestClass, sizeOfBestClass>>

(* A message of class i is counted; a best class that reaches the required *)
(* size completes the certificate when the owner's message is there if     *)
(* needed.                                                                 *)
JoinClass(i) ==
    LET size == msgClasses[i].size + 1
        best == size > sizeOfBestClass
    IN  /\ msgClasses' = [msgClasses EXCEPT ![i].size = size]
        /\ bestClass' = IF best THEN i ELSE bestClass
        /\ sizeOfBestClass' = IF best THEN size ELSE sizeOfBestClass
        /\ complete' = (/\ bestClass' = i
                        /\ sizeOfBestClass' >= Required
                        /\ SelfIsRequired => hasMsgFromReplica(SelfId))
        /\ UNCHANGED hasTrustedSelfClass

addPeerMsg(m, r) ==
    \/ ClassesOf(m) = {} /\ OpenClass(r)
    \/ \E i \in ClassesOf(m) : (\A j \in ClassesOf(m) : i <= j) /\ JoinClass(i)

(* Mutant: the owner inherits the size of the best class, equal or not.    *)
MutantSelfClassSize(m) ==
    sizeOfBestClass + 1

(* The owner's message replaces all classes by its own.  A matching class  *)
(* is incremented in place and its size is incremented again when it is    *)
(* copied (lines 269 and 280).                                             *)
SelfClassSize(m) ==
    IF ClassesOf(m) = {}
    THEN 1
    ELSE msgClasses[CHOOSE i \in ClassesOf(m) :
                      \A j \in ClassesOf(m) : i <= j].size + 1 + 1

addSelfMsg(m) ==
    /\ msgClasses' = <<Representative(SelfClassSize(m), SelfId)>>
    /\ bestClass' = 1
    /\ sizeOfBestClass' = SelfClassSize(m)
    /\ hasTrustedSelfClass' = TRUE
    /\ complete' = (SelfClassSize(m) >= Required)

(* A second message of the same replica is dropped.                        *)
addMsg(m, r) ==
    /\ ~hasMsgFromReplica(r)
    /\ msgsFromReplicas' = [msgsFromReplicas EXCEPT ![r] = m]
    /\ UNCHANGED markedByOwner
    /\ \/ complete /\ UNCHANGED <<complete, classVars>>
       \/ ~complete /\ SelfTrust /\ r = SelfId /\ addSelfMsg(m)
       \/ ~complete /\ ~(SelfTrust /\ r = SelfId) /\ addPeerMsg(m, r)

(* CheckpointInfo::tryToMarkCheckpointCertificateCompleted, called when    *)
(* the replica learns in another way that the checkpoint is stable.        *)
tryToMarkComplete ==
    /\ SelfTrust
    /\ SelfIsRequired => hasMsgFromReplica(SelfId)
    /\ complete' = TRUE
    /\ markedByOwner' = (markedByOwner \/ ~complete)
    /\ UNCHANGED <<msgsFromReplicas, classVars>>

(* Mutant: the reset forgets the best class.                               *)
MutantResetKeepsBestClass ==
    /\ complete' = FALSE
    /\ markedByOwner' = FALSE
    /\ msgsFromReplicas' = [r \in Replicas |-> NoMsg]
    /\ msgClasses' = <<>>
    /\ hasTrustedSelfClass' = FALSE
    /\ UNCHANGED <<bestClass, sizeOfBestClass>>

resetAndFree ==
    /\ complete' = FALSE
    /\ markedByOwner' = FALSE
    /\ IF Received = {}
       THEN UNCHANGED <<msgsFromReplicas, classVars>>
       ELSE /\ msgsFromReplicas' = [r \in Replicas |-> NoMsg]
            /\ msgClasses' = <<>>
            /\ bestClass' = NULL_CLASS
            /\ sizeOfBestClass' = 0
            /\ hasTrustedSelfClass' = FALSE

Next ==
    \/ \E m \in Msgs, r \in Replicas : addMsg(m, r)
    \/ tryToMarkComplete
    \/ resetAndFree

Spec == Init /\ [][Next]_vars

-----------------------------------------------------------------------------
(* bestCorrectMsg(): the message a caller may rely on.                     *)
bestCorrectMsg ==
    IF hasTrustedSelfClass \/ sizeOfBestClass >= MaxFails + 1
    THEN msgsFromReplicas[msgClasses[bestClass].representativeReplica]
    ELSE NoMsg

Supporters(m) == {r \in Replicas : msgsFromReplicas[r] = m}

(* The fields of the certificate have their types, and the indexes stay    *)
(* inside the class table that addPeerMsg and bestCorrectMsg read.         *)
TypeOK ==
    /\ msgsFromReplicas \in [Replicas -> Msgs \cup {NoMsg}]
    /\ msgClasses \in Seq([size : Nat, representativeReplica : Replicas])
    /\ complete \in BOOLEAN
    /\ bestClass \in 0 .. Len(msgClasses)
    /\ sizeOfBestClass \in Nat
    /\ hasTrustedSelfClass \in BOOLEAN
    /\ markedByOwner \in BOOLEAN

(* A certificate that addMsg completed (not the owner's own call) holds    *)
(* numOfRequired equivalent messages of distinct replicas.                 *)
CompleteHasQuorum ==
    complete /\ ~markedByOwner =>
        \E m \in Msgs : Cardinality(Supporters(m)) >= Required

(* Where the owner is trusted and required, a certificate that addMsg      *)
(* completed is one for the owner's own message, backed by the peers that  *)
(* sent the same: peers who agree on another message, be they a quorum and *)
(* there before the owner's message or after it, never complete it.  One   *)
(* vote is allowed for: addSelfMsg may count the own message twice.        *)
CompleteForOwnMsg ==
    complete /\ ~markedByOwner /\ SelfIsRequired =>
        /\ hasMsgFromReplica(SelfId)
        /\ Cardinality(Supporters(msgsFromReplicas[SelfId])) + 1 >= Required

(* No order of arrival hides a quorum: once the required number of         *)
(* replicas (the owner among them, where it is required) sent equivalent   *)
(* messages, the certificate is complete.                                  *)
QuorumCompletes ==
    \A m \in Msgs :
        /\ Cardinality(Supporters(m)) >= Required
        /\ SelfTrust => SelfId \in Supporters(m)
        => complete

(* The message bestCorrectMsg hands out, when it is not the trusted one of *)
(* the owner, was sent by more replicas than may fail.                     *)
BestMsgIsCorrect ==
    bestCorrectMsg # NoMsg /\ ~hasTrustedSelfClass =>
        Cardinality(Supporters(bestCorrectMsg)) >= MaxFails + 1
=============================================================================
