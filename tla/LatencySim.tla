----------------------------- MODULE LatencySim -----------------------------
(***************************************************************************)
(* The PBFT agreement-latency simulator scripts/analysis/latency_sim.py:   *)
(* one client and REPLICA_COUNT replicas exchange the normal-case PBFT     *)
(* messages through a heap of (arrival time, message) pairs that           *)
(* message_loop pops until it is empty.  A message sent at time t from a   *)
(* to b arrives at t + PING_TIME_MAP[a][b] / 2; the ping table is          *)
(* symmetric (make_map_reflexive) and zero from a node to itself.          *)
(*                                                                          *)
(* The measured round-trip times are replaced by any symmetric table over  *)
(* the small sets Pings (between replicas) and ClientPings (to the         *)
(* client), so one run covers every relative order of arrivals those       *)
(* tables produce.  Entries with the same arrival time are  *)
(* ordered by Message.__lt__, i.e. by msgtype as a string; entries equal   *)
(* in both are popped in either order, as heapq does not fix it.  The      *)
(* LaTeX output (GENERATE_LATEX) and the trace printing are not modelled.  *)
(***************************************************************************)
EXTENDS Integers, Sequences, FiniteSets

CONSTANTS
    ReplicaCount,    \* Replica.REPLICA_COUNT
    LeaderId,        \* Replica.LEADER_ID
    PrepareQuorum,   \* Replica.PREPARE_QUORUM
    CommitQuorum,    \* Replica.COMMIT_QUORUM
    ReplyQuorum,     \* Client.REPLY_QUORUM
    ClientId,        \* the client's id, -1 in run()
    PassiveChoices,  \* values Replica.PASSIVE_REPLICA is set to
    None,            \* Python's None
    Pings,           \* round-trip times a ping table may hold between replicas
    ClientPings      \* ... and between the client and a replica

VARIABLES
    ping,       \* PING_TIME_MAP over node ids, symmetric: [link -> time]
    passive,    \* Replica.PASSIVE_REPLICA
    heap,       \* the heap: a set of [t |-> arrival time, m |-> message]
    step,       \* Replica.step of every replica
    prepares,   \* Replica.prepares
    commits,    \* Replica.commits
    replies,    \* Client.replies
    finish,     \* the values time_to_finish was assigned, in order
    failed,     \* InvalidMessage was raised out of message_loop
    replyTimes  \* history: arrival times of the REPLY messages the client handled

vars == <<ping, passive, heap, step, prepares, commits, replies, finish, failed, replyTimes>>

-----------------------------------------------------------------------------

INIT == "init"
REQUEST == "request"
PREPREPARE == "preprepare"
PREPARE == "prepare"
COMMIT == "commit"
REPLY == "reply"

Replicas == 0..(ReplicaCount - 1)
Nodes == Replicas \cup {ClientId}
Links == {{a, b} : a, b \in Nodes} \ {{n} : n \in Nodes}

Msg(type, sender, dest) == [type |-> type, sender |-> sender, dest |-> dest]

\* Message.__lt__ compares msgtype strings; this is their alphabetical rank.
TypeRank == [t \in {COMMIT, INIT, PREPARE, PREPREPARE, REPLY, REQUEST} |->
                CASE t = COMMIT -> 1 [] t = INIT -> 2 [] t = PREPARE -> 3
                  [] t = PREPREPARE -> 4 [] t = REPLY -> 5 [] t = REQUEST -> 6]

\* PING_TIME_MAP[src_ip][dest_ip] / 2.
Delay(a, b) == IF a = b THEN 0 ELSE ping[{a, b}] \div 2

\* (t1, m1) < (t2, m2) for the heap's tuples.
Before(e, f) == e.t < f.t \/ (e.t = f.t /\ TypeRank[e.m.type] < TypeRank[f.m.type])

\* heappop may return any entry no other entry sorts before.
Top == {e \in heap : \A f \in heap : ~Before(f, e)}

\* insert_message for every message of a handler's output, sent at time t.
Sent(t, out) == {[t |-> t + Delay(m.sender, m.dest), m |-> m] : m \in out}

Broadcast(type, r) == {Msg(type, r, i) : i \in Replicas}

-----------------------------------------------------------------------------

\* run(): fresh replicas and client, and the INIT message at time 0.
Init ==
    /\ ping \in {p \in [Links -> Pings \cup ClientPings] :
                    \A l \in Links : p[l] \in IF ClientId \in l THEN ClientPings ELSE Pings}
    /\ passive \in PassiveChoices
    /\ heap = {[t |-> 0, m |-> Msg(INIT, None, ClientId)]}
    /\ step = [r \in Replicas |-> None]
    /\ prepares = [r \in Replicas |-> {}]
    /\ commits = [r \in Replicas |-> {}]
    /\ replies = {}
    /\ finish = <<>>
    /\ failed = FALSE
    /\ replyTimes = <<>>

\* Replica.handle of the passive replica: the message is dropped.
PassiveDrop(e) ==
    /\ e.m.dest = passive
    /\ heap' = heap \ {e}
    /\ UNCHANGED <<ping, passive, step, prepares, commits, replies, finish, failed, replyTimes>>

\* Replica.handle of the leader for the client's REQUEST: PREPREPARE to
\* every replica, itself included, and no step checks.
LeaderRequest(e) ==
    /\ e.m.dest = LeaderId /\ e.m.dest # passive
    /\ e.m.type = REQUEST
    /\ heap' = (heap \ {e}) \cup Sent(e.t, Broadcast(PREPREPARE, LeaderId))
    /\ UNCHANGED <<ping, passive, step, prepares, commits, replies, finish, failed, replyTimes>>

\* The if/elif chain of Replica.handle accepts the message; otherwise it
\* raises InvalidMessage.
Expected(m) ==
    \/ m.type = PREPREPARE /\ m.sender = LeaderId
    \/ m.type = PREPARE /\ m.sender # LeaderId
    \/ m.type = COMMIT

\* A variant that does not count the leader's PREPREPARE as a prepare.
PrepareSendersNoPrePrepare(r, m) ==
    IF m.type = PREPARE THEN prepares[r] \cup {m.sender} ELSE prepares[r]

\* self.prepares after the if/elif chain: the PREPREPARE branch and the
\* PREPARE branch both add the sender.
PrepareSenders(r, m) ==
    IF m.type \in {PREPREPARE, PREPARE} THEN prepares[r] \cup {m.sender} ELSE prepares[r]

\* A variant in which the leader, too, broadcasts PREPARE.
PrepareBroadcastLeaderToo(r, s1) ==
    IF s1 = PREPREPARE THEN Broadcast(PREPARE, r) ELSE {}

\* The step PREPREPARE -> PREPARE: every replica but the leader sends
\* PREPARE to all replicas.
PrepareBroadcast(r, s1) ==
    IF s1 = PREPREPARE /\ LeaderId # r THEN Broadcast(PREPARE, r) ELSE {}

\* Replica.handle for every other message: record it, then advance the
\* step PREPREPARE -> PREPARE -> COMMIT -> REPLY as far as the recorded
\* prepares and commits allow, broadcasting at each step.  An unexpected
\* message raises InvalidMessage, which ends run().
ReplicaHandle(e) ==
    LET r == e.m.dest
        m == e.m
        s1 == IF m.type = PREPREPARE THEN PREPREPARE ELSE step[r]
        p1 == PrepareSenders(r, m)
        c1 == IF m.type = COMMIT THEN commits[r] \cup {m.sender} ELSE commits[r]
        s2 == IF s1 = PREPREPARE THEN PREPARE ELSE s1
        o2 == PrepareBroadcast(r, s1)
        toCommit == s2 = PREPARE /\ Cardinality(p1) >= PrepareQuorum
        s3 == IF toCommit THEN COMMIT ELSE s2
        o3 == IF toCommit THEN Broadcast(COMMIT, r) ELSE {}
        toReply == s3 = COMMIT /\ Cardinality(c1) >= CommitQuorum
        s4 == IF toReply THEN REPLY ELSE s3
        o4 == IF toReply THEN {Msg(REPLY, r, ClientId)} ELSE {}
    IN  /\ r \in Replicas /\ r # passive
        /\ ~(m.type = REQUEST /\ r = LeaderId)
        /\ IF Expected(m)
           THEN /\ heap' = (heap \ {e}) \cup Sent(e.t, o2 \cup o3 \cup o4)
                /\ step' = [step EXCEPT ![r] = s4]
                /\ prepares' = [prepares EXCEPT ![r] = p1]
                /\ commits' = [commits EXCEPT ![r] = c1]
                /\ UNCHANGED failed
           ELSE /\ failed' = TRUE
                /\ UNCHANGED <<heap, step, prepares, commits>>
        /\ UNCHANGED <<ping, passive, replies, finish, replyTimes>>

\* A variant that returns None for every reply from the quorum on.
CompletesAtLeast(old, new) ==
    Cardinality(old) # Cardinality(new) /\ Cardinality(new) >= ReplyQuorum

\* old_len != cur_len and cur_len == REPLY_QUORUM.
Completes(old, new) ==
    Cardinality(old) # Cardinality(new) /\ Cardinality(new) = ReplyQuorum

\* Client.handle: INIT sends the REQUEST to the leader; a REPLY is
\* recorded, and the REPLY_QUORUM-th distinct one returns None, upon which
\* message_loop sets time_to_finish; anything else is ignored.
ClientHandle(e) ==
    LET m == e.m
        isInit == m.type = INIT /\ m.sender = None
        isReply == m.type = REPLY /\ m.sender # None /\ m.sender >= 0
        r1 == IF isReply THEN replies \cup {m.sender} ELSE replies
        success == isReply /\ Completes(replies, r1)
        out == IF isInit THEN {Msg(REQUEST, ClientId, LeaderId)} ELSE {}
    IN  /\ m.dest = ClientId
        /\ heap' = (heap \ {e}) \cup Sent(e.t, out)
        /\ replies' = r1
        /\ finish' = IF success THEN Append(finish, e.t) ELSE finish
        /\ replyTimes' = IF m.type = REPLY THEN Append(replyTimes, e.t) ELSE replyTimes
        /\ UNCHANGED <<ping, passive, step, prepares, commits, failed>>

\* One iteration of the while loop of message_loop.
Deliver ==
    /\ ~failed
    /\ \E e \in Top :
        \/ PassiveDrop(e)
        \/ LeaderRequest(e)
        \/ ReplicaHandle(e)
        \/ ClientHandle(e)

\* The heap is empty, or InvalidMessage ended the program.
Done == (heap = {} \/ failed) /\ UNCHANGED vars

Next == Deliver \/ Done

\* message_loop pops until the heap is empty.
Spec == Init /\ [][Next]_vars /\ WF_vars(Deliver)

-----------------------------------------------------------------------------

Messages == [type : DOMAIN TypeRank, sender : Nodes \cup {None}, dest : Nodes]

TypeOK ==
    /\ passive \in PassiveChoices
    /\ heap \subseteq [t : Nat, m : Messages]
    /\ step \in [Replicas -> {None, PREPARE, COMMIT, REPLY}]
    /\ prepares \in [Replicas -> SUBSET Replicas]
    /\ commits \in [Replicas -> SUBSET Replicas]
    /\ replies \subseteq Replicas

\* Replica.handle raises InvalidMessage for any message its if/elif chain
\* does not expect: a REQUEST at a non-leader, a PREPREPARE from a
\* non-leader, a PREPARE from the leader.  The chain tests only type and
\* sender, so this rests on who sends what: the leader alone receives the
\* request and sends PREPREPARE, and it does not broadcast PREPARE.  No
\* replica is ever handed such a message.
NoInvalidMessage == ~failed

\* The "Agreement in X ms" that run() prints is the last value assigned to
\* time_to_finish.  It is the arrival time of the REPLY_QUORUM-th reply the
\* client handled (None while there are fewer), and it is assigned once.
ReportedTime == IF finish = <<>> THEN None ELSE finish[Len(finish)]

FinishAtQuorum ==
    /\ Len(finish) <= 1
    /\ ReportedTime = IF Len(replyTimes) >= ReplyQuorum THEN replyTimes[ReplyQuorum] ELSE None

\* With PASSIVE_REPLICA unset or set to a replica other than the leader,
\* the remaining replicas still reach the prepare, commit and reply
\* quorums: message_loop always ends with time_to_finish set.
ClientFinishes == <>(finish # <<>>)

=============================================================================
