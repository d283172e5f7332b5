------------------------- MODULE MembershipService -------------------------
(***************************************************************************)
(* The global membership service (tests/membership_service/replica.cpp):   *)
(* the application every replica runs on top of the agreement engine.  Its *)
(* state is five documents in the replica's own CouchDB; a write replaces  *)
(* one entry of one document, a read returns one entry or, for emulators,  *)
(* the entries of the super leafs EmulatorGroups finds.                    *)
(*                                                                         *)
(* The engine is external: all correct replicas execute the same writes in *)
(* the same order, log, at their own pace; a read is not ordered, the      *)
(* client sends it to all replicas and takes an answer that 2f+c+1 of them *)
(* give.  A faulty replica may give any answer, so it counts for every     *)
(* answer.                                                                 *)
(***************************************************************************)
EXTENDS Emulators, FiniteSets, TLC

CONSTANTS
    Replicas, Byz, F, C,
    Topologies,     \* the network topologies considered
    WriteIds,       \* the BGIDs and SLIDs written to
    Modes,          \* the documents written to and read
    Values,         \* what a request can carry
    MaxWrites,      \* bound: number of writes
    MaxPutFailures  \* bound: CouchDB updates that fail

AllModes == {"quorum_size", "public_keys", "byzantine_groups", "super_leafs",
             "emulators"}

ASSUME ServiceAssumption ==
    /\ Byz \subseteq Replicas
    /\ Cardinality(Byz) <= F
    /\ Cardinality(Replicas) = 3 * F + 2 * C + 1
    /\ Modes \subseteq AllModes
    /\ \A t \in Topologies : WriteIds \subseteq SuperLeafs(t)

Correct == Replicas \ Byz

VARIABLES
    topo,           \* the "configuration" document, never written
    log,            \* the writes ordered by the engine
    done,           \* correct replica -> number of writes executed
    db,             \* correct replica -> document -> entry
    failures,       \* CouchDB updates that failed so far
    query,          \* the client's read in progress, or NoQuery
    answers         \* correct replica -> <<answer to query>>, or NoAnswer

vars == <<topo, log, done, db, failures, query, answers>>

NoQuery == [mode |-> "none"]
NoAnswer == <<>>
NoAnswers == [r \in Correct |-> NoAnswer]
Writes == [mode : Modes, id : WriteIds, value : Values]

(* populate.sh loads every CouchDB with the same entries.                  *)
Populated == [value |-> "initial", cert |-> 0]

(* Mutant: the proof of the next sequence number is stored.                *)
MutantEntry(w, n) == [value |-> w.value, cert |-> n + 1]

(* The entry written by the n-th write: leaders and monitors are stored    *)
(* with the full commit proof of the write, the other entries with the     *)
(* certificate that the request carries.                                   *)
Entry(w, n) ==
    [value |-> w.value,
     cert |-> IF w.mode \in {"byzantine_groups", "super_leafs"} THEN n ELSE 0]

Init ==
    /\ topo \in Topologies
    /\ log = <<>>
    /\ done = [r \in Correct |-> 0]
    /\ db = [r \in Correct |->
                [m \in AllModes |-> [i \in SuperLeafs(topo) |-> Populated]]]
    /\ failures = 0
    /\ query = NoQuery
    /\ answers = NoAnswers

(* The engine commits a write.                                             *)
Order(w) ==
    /\ Len(log) < MaxWrites
    /\ log' = Append(log, w)
    /\ UNCHANGED <<topo, done, db, failures, query, answers>>

(* Mutant: the other entries of the document are not copied.               *)
MutantNewBody(doc, w, n) ==
    [i \in DOMAIN doc |-> IF i = w.id THEN Entry(w, n) ELSE Populated]

(* The document put back: all entries but the written one are copied.      *)
NewBody(doc, w, n) ==
    [i \in DOMAIN doc |-> IF i = w.id THEN Entry(w, n) ELSE doc[i]]

(* execute() of a write.  The reply says OK whatever couch.put returns.    *)
ExecuteWrite(r, ok) ==
    /\ done[r] < Len(log)
    /\ ok \/ failures < MaxPutFailures
    /\ LET n == done[r] + 1
           w == log[n]
       IN  /\ done' = [done EXCEPT ![r] = n]
           /\ db' = IF ok
                    THEN [db EXCEPT ![r][w.mode] = NewBody(@, w, n)]
                    ELSE db
    /\ failures' = IF ok THEN failures ELSE failures + 1
    /\ UNCHANGED <<topo, log, query, answers>>

-----------------------------------------------------------------------------
(* 2f+c+1 equal replies, those of faulty replicas included.                *)
MutantIsReplyQuorum(S) == Cardinality(S) + Cardinality(Byz) >= F + C + 1

IsReplyQuorum(S) == Cardinality(S) + Cardinality(Byz) >= 2 * F + C + 1

MaxHeight == Cardinality({n \in DOMAIN topo \ SuperLeafs(topo) :
                            Below(topo, CHOOSE s \in SuperLeafs(topo) : TRUE, n)})

(* What documents d answer to q.                                           *)
Answer(d, q) ==
    IF q.mode # "emulators" \/ q.height = 0
    THEN d[q.mode][q.id]
    ELSE IF q.height > MaxHeight
    THEN [value |-> "Error height is greater than max height", cert |-> 0]
    ELSE {[vnode |-> g.vnode, leafs |-> [n \in g.leafs |-> d["emulators"][n]]] :
            g \in EmulatorGroups(topo, q.id, q.height)}

(* How many writes the client has seen complete.                           *)
Completed ==
    CHOOSE n \in 0 .. Len(log) :
        /\ n = 0 \/ IsReplyQuorum({r \in Correct : done[r] >= n})
        /\ n = Len(log) \/ ~IsReplyQuorum({r \in Correct : done[r] >= n + 1})

StartRead(m, i, h) ==
    /\ query = NoQuery
    /\ h = 0 \/ m = "emulators"
    /\ query' = [mode |-> m, id |-> i, height |-> h, floor |-> Completed]
    /\ UNCHANGED <<topo, log, done, db, failures, answers>>

(* execute() of the read at one replica.                                   *)
ExecuteRead(r) ==
    /\ query # NoQuery
    /\ answers[r] = NoAnswer
    /\ answers' = [answers EXCEPT ![r] = <<Answer(db[r], query)>>]
    /\ UNCHANGED <<topo, log, done, db, failures, query>>

Accepted(a) == a # NoAnswer /\ IsReplyQuorum({r \in Correct : answers[r] = a})

(* Complete certificate: sendRequest returns its answer.                   *)
EndRead ==
    /\ \E r \in Correct : Accepted(answers[r])
    /\ query' = NoQuery
    /\ answers' = NoAnswers
    /\ UNCHANGED <<topo, log, done, db, failures>>

(* The replies so far are dropped and the request is sent to all again:    *)
(* every clientPeriodicResetThresh transmissions, and when the replies are *)
(* inconsistent.                                                           *)
ResetReplies ==
    /\ answers # NoAnswers
    /\ answers' = NoAnswers
    /\ UNCHANGED <<topo, log, done, db, failures, query>>

Next ==
    \/ \E w \in Writes : Order(w)
    \/ \E r \in Correct, ok \in BOOLEAN : ExecuteWrite(r, ok)
    \/ \E m \in Modes, i \in WriteIds, h \in 0 .. MaxHeight + 1 : StartRead(m, i, h)
    \/ \E r \in Correct : ExecuteRead(r)
    \/ EndRead
    \/ ResetReplies

Spec == Init /\ [][Next]_vars

-----------------------------------------------------------------------------
Stored == [value : Values \cup {"initial"}, cert : 0 .. MaxWrites]

(* The documents hold entries, and no replica is ahead of the engine.      *)
TypeOK ==
    /\ topo \in Topologies
    /\ log \in Seq(Writes) /\ Len(log) <= MaxWrites
    /\ \A r \in Correct : done[r] \in 0 .. Len(log)
    /\ db \in [Correct -> [AllModes -> [SuperLeafs(topo) -> Stored]]]
    /\ failures \in 0 .. MaxPutFailures

(* Reference: an entry is what the last of the first n writes to it says.  *)
Content(n) ==
    [m \in AllModes |-> [i \in SuperLeafs(topo) |->
        LET mine == {k \in 1 .. n : log[k].mode = m /\ log[k].id = i}
        IN  IF mine = {} THEN Populated
            ELSE LET k == CHOOSE k \in mine : \A j \in mine : j <= k
                 IN  Entry(log[k], k)]]

(* A replica that has answered "OK" to its first n writes holds exactly    *)
(* what they say: "a proof that the request was successfuly carried out"   *)
(* (README.md).                                                            *)
WritesCarriedOut == \A r \in Correct : db[r] = Content(done[r])

(* An answer the client accepts is the one after some write that is no     *)
(* earlier than the last it saw complete when it asked: reads are never    *)
(* stale, though they are not ordered with the writes.                     *)
ReadsAreRecent ==
    \A r \in Correct :
        Accepted(answers[r]) =>
            \E n \in query.floor .. Len(log) :
                answers[r] = <<Answer(Content(n), query)>>

Queries == (SuperLeafs(topo)) \X (1 .. MaxHeight)

(* The emulators query "returns all the parts of the 'Leaf Only Tree' of   *)
(* which the node is not aware of" (README.md).                            *)
EmulatorsComplete ==
    \A q \in Queries :
        UNION {g.leafs : g \in EmulatorGroups(topo, q[1], q[2])}
            = UnknownLeafs(topo, q[1], q[2])

(* It never returns a part that the node is aware of, a virtual node it    *)
(* returns comes with all its super leafs that the node does not know, and *)
(* at most one virtual node is missing, none where there is only one.      *)
EmulatorsSound ==
    \A q \in Queries :
        LET unknown == UnknownLeafs(topo, q[1], q[2])
            groups == EmulatorGroups(topo, q[1], q[2])
            parents == {topo[n].parent : n \in unknown}
        IN  /\ \A g \in groups :
                g.leafs # {} /\ g.leafs = {n \in unknown : topo[n].parent = g.vnode}
            /\ Cardinality(groups) + 1 >= Cardinality(parents)
            /\ groups # {}
=============================================================================
