------------------------------ MODULE Transport -----------------------------
(***************************************************************************)
(* The two transports under the event loop.  Every process has a runner    *)
(* thread, which polls its inbound queue and sends, and a listener thread, *)
(* which takes the requests of the peers and puts them into the queue.  A  *)
(* send is a remote call that the runner waits for, so while it is under   *)
(* way the runner neither polls nor ticks.                                 *)
(*                                                                         *)
(* gRPC and HTTPS differ in four places: what a full queue answers, the    *)
(* recipient check in poll, the time limit of a call, and where an address *)
(* that cannot be bound is found out.  What the runner sends, and when, is *)
(* RaftNode and RaftCluster; here it is any message to any node.           *)
(***************************************************************************)
EXTENDS Naturals, Sequences, FiniteSets

CONSTANTS
    Node,
    Nil,
    Kinds,         \* the transports: a subset of {"grpc", "https"}
    QueueSize,     \* capacity of an inbound queue (256 in both transports)
    Senders,       \* bound: the nodes that send
    MaxSends,      \* bound: sends of each of them
    Leaders,       \* bound: the senders of requests; the others respond
    MaxFaults      \* bound: wrong entries in peer tables, ports not bound,
                   \* exits, cut links, broken calls

ASSUME TransportAssumption ==
    /\ Nil \notin Node
    /\ Kinds \subseteq {"grpc", "https"}
    /\ QueueSize \in Nat \ {0}
    /\ Senders \subseteq Node
    /\ MaxSends \in Nat /\ MaxFaults \in Nat

VARIABLES
    kind,      \* the transport the cluster uses
    address,   \* address[i][p] : the process at the address i has for p
    runner,    \* runner[i] : "running" or "ended"
    listener,  \* listener[i] : "starting", "serving", "failed" or "none"
    queue,     \* queue[i] : the inbound channel
    call,      \* call[i] : the call the runner is waiting for, or Nil
    stray,     \* requests whose caller has given up, still on their way
    silent,    \* pairs of processes between which packets vanish
    faults,    \* faults so far (bound only)
    made,      \* history: made[i][k] is the k-th send of i
    outcomes,  \* history: outcomes[i][k] is what that send returned
    polled     \* history: polled[i] is what the polls of i took, in order

vars == <<kind, address, runner, listener, queue, call, stray, silent, faults,
          made, outcomes, polled>>

-----------------------------------------------------------------------------
(* Messages and their encodings.                                           *)

\* A request names its sender in the body (candidate_id, leader_id); a
\* response does so in the field from.
RaftMessage(i, id) ==
    IF i \in Leaders
    THEN [type |-> "request", id |-> id, leader_id |-> i]
    ELSE [type |-> "response", id |-> id, from |-> i]

\* What travels of a message: a response goes without its sender, which is
\* only in the envelope.
Payload(message) ==
    IF message.type = "response" THEN [type |-> "response", id |-> message.id]
                                 ELSE message

\* encode_message and message_to_wire
Encode(from, to, message) ==
    [from |-> from, to |-> to, payload |-> Payload(message)]

MessageOf(e) ==
    IF e.payload.type = "response"
    THEN [type |-> "response", id |-> e.payload.id, from |-> e.from]
    ELSE e.payload

\* decode_envelope and wire_to_message.  (Where usize has 64 bits the
\* conversions of the indices succeed, and no sender leaves out the payload.)
Decode(e) == [from |-> e.from, message |-> MessageOf(e)]

Messages == {RaftMessage(i, id) : i \in Node, id \in 1 .. MaxSends}

Envelopes == {Encode(i, to, m) : i \in Node, to \in Node, m \in Messages}

Calls == [at : Node, envelope : Envelopes,
          answer : {"none", "accepted", "rejected"}]

ASSUME CallAssumption == Nil \notin Calls

-----------------------------------------------------------------------------

\* The peer table of --peer: every other node at its address.
RightTable(i) == [p \in Node |-> IF p = i THEN Nil ELSE p]

\* An entry of a peer table may name another process or be missing.
WrongEntries(table) ==
    {q \in Senders \X Node : table[q[1]][q[2]] # RightTable(q[1])[q[2]]}

\* start answers as soon as the listener thread exists.  (A process whose
\* start fails never runs, as one that exits at once.)
Init ==
    /\ kind \in Kinds
    /\ address \in [Node -> [Node -> Node \cup {Nil}]]
    /\ \A i \in Node :
          /\ address[i][i] = Nil
          /\ \A p \in Node : address[i][p] # i
          /\ i \notin Senders => address[i] = RightTable(i)
    /\ faults = Cardinality(WrongEntries(address))
    /\ faults <= MaxFaults
    /\ runner = [i \in Node |-> "running"]
    /\ listener = [i \in Node |-> "starting"]
    /\ queue = [i \in Node |-> << >>]
    /\ call = [i \in Node |-> Nil]
    /\ stray = {}
    /\ silent = {}
    /\ made = [i \in Node |-> << >>]
    /\ outcomes = [i \in Node |-> << >>]
    /\ polled = [i \in Node |-> << >>]

Fault == faults < MaxFaults /\ faults' = faults + 1

\* The process is gone, and its queue with it.
Exit(i) ==
    /\ runner' = [runner EXCEPT ![i] = "ended"]
    /\ listener' = [listener EXCEPT ![i] = "none"]
    /\ queue' = [queue EXCEPT ![i] = << >>]
    /\ UNCHANGED <<kind, address, call, stray, silent, made, outcomes, polled>>

\* The listener thread gets its port, or ends (with an error in gRPC, with a
\* panic in HTTPS) and drops the sending end of the queue.
Bind(i) ==
    /\ listener[i] = "starting"
    /\ \/ /\ listener' = [listener EXCEPT ![i] = "serving"]
          /\ UNCHANGED faults
       \/ /\ listener' = [listener EXCEPT ![i] = "failed"]
          /\ Fault
    /\ UNCHANGED <<kind, address, runner, queue, call, stray, silent, made,
                   outcomes, polled>>

-----------------------------------------------------------------------------
(* The runner.                                                             *)

\* The runner is between two calls.
InControl(i) == runner[i] = "running" /\ call[i] = Nil

\* send: a peer without an address is dropped at once.
Send(i, to) ==
    LET id == Len(made[i]) + 1
        message == RaftMessage(i, id)
    IN  /\ InControl(i)
        /\ i \in Senders /\ id <= MaxSends
        /\ made' = [made EXCEPT ![i] =
                      Append(@, [to |-> to, message |-> message])]
        /\ IF address[i][to] = Nil
           THEN /\ outcomes' = [outcomes EXCEPT ![i] = Append(@, "Dropped")]
                /\ UNCHANGED call
           ELSE /\ call' = [call EXCEPT ![i] =
                      [at       |-> address[i][to],
                       envelope |-> Encode(i, to, message),
                       answer   |-> "none"]]
                /\ UNCHANGED outcomes
        /\ UNCHANGED <<kind, address, runner, listener, queue, stray, silent,
                       faults, polled>>

\* The call comes back.
Finish(i, outcome) ==
    /\ outcomes' = [outcomes EXCEPT ![i] = Append(@, outcome)]
    /\ call' = [call EXCEPT ![i] = Nil]

\* Mutant: poll takes every message for its own.
SkipsNothing(i, e) == FALSE

\* gRPC skips what is not for this node and polls on; HTTPS does not look.
Skips(i, e) == kind = "grpc" /\ e.to # i

Poll(i) ==
    LET e == Head(queue[i])
    IN  /\ InControl(i)
        /\ queue[i] # << >>
        /\ queue' = [queue EXCEPT ![i] = Tail(@)]
        /\ polled' = [polled EXCEPT ![i] = Append(@,
              [envelope |-> e, inbound |-> IF Skips(i, e) THEN Nil
                                           ELSE Decode(e)])]
        /\ UNCHANGED <<kind, address, runner, listener, call, stray, silent,
                       faults, made, outcomes>>

\* Mutant: a closed channel is taken for an empty one.
PollIgnoresDisconnect(i) ==
    /\ InControl(i)
    /\ queue[i] = << >>
    /\ listener[i] = "failed"
    /\ UNCHANGED vars

\* The channel is empty and closed: poll fails, and so does run.
PollDisconnected(i) ==
    /\ InControl(i)
    /\ queue[i] = << >>
    /\ listener[i] = "failed"
    /\ Exit(i)
    /\ UNCHANGED faults

\* Command::Shutdown
Shutdown(i) ==
    /\ InControl(i)
    /\ Fault
    /\ Exit(i)

-----------------------------------------------------------------------------
(* The listener and the network between the two.                           *)

Cut(i, j) == {i, j} \in silent

\* try_send into the queue of j.
Enqueue(j, e) ==
    queue' = IF Len(queue[j]) < QueueSize
             THEN [queue EXCEPT ![j] = Append(@, e)]
             ELSE queue

\* Mutant: gRPC does not look at the result of try_send either.
AnswerAccepted(j) == "accepted"

\* What the listener answers: gRPC says whether the message was queued,
\* HTTPS says 200 in any case.
Answer(j) ==
    IF Len(queue[j]) < QueueSize \/ kind = "https" THEN "accepted"
                                                   ELSE "rejected"

\* Mutant: the listener waits for a free place.
HandleWhenFree(i) ==
    LET c == call[i]
    IN  /\ c # Nil /\ c.answer = "none"
        /\ listener[c.at] = "serving" /\ ~Cut(i, c.at)
        /\ Len(queue[c.at]) < QueueSize
        /\ Enqueue(c.at, c.envelope)
        /\ call' = [call EXCEPT ![i].answer = Answer(c.at)]
        /\ UNCHANGED <<kind, address, runner, listener, stray, silent, faults,
                       made, outcomes, polled>>

\* send_message and handle_raft
Handle(i) ==
    LET c == call[i]
    IN  /\ c # Nil /\ c.answer = "none"
        /\ listener[c.at] = "serving" /\ ~Cut(i, c.at)
        /\ Enqueue(c.at, c.envelope)
        /\ call' = [call EXCEPT ![i].answer = Answer(c.at)]
        /\ UNCHANGED <<kind, address, runner, listener, stray, silent, faults,
                       made, outcomes, polled>>

Return(i) ==
    /\ call[i] # Nil /\ call[i].answer # "none" /\ ~Cut(i, call[i].at)
    /\ Finish(i, IF call[i].answer = "accepted" THEN "Sent" ELSE "Dropped")
    /\ UNCHANGED <<kind, address, runner, listener, queue, stray, silent,
                   faults, made, polled>>

\* Mutant: a call that broke is made again.
BreakRetried(i) ==
    /\ call[i] # Nil
    /\ Fault
    /\ call' = [call EXCEPT ![i].answer = "none"]
    /\ UNCHANGED <<kind, address, runner, listener, queue, stray, silent, made,
                   outcomes, polled>>

\* The call ends without an answer.  The message is dropped for the sender,
\* but the listener may have it already, and may still get it when it does
\* not.
GiveUp(i) ==
    LET c == call[i]
    IN  /\ Finish(i, "Dropped")
        /\ \/ UNCHANGED stray
           \/ /\ c.answer = "none" /\ listener[c.at] = "serving"
              /\ stray' = stray \cup {[at |-> c.at, envelope |-> c.envelope]}
        /\ UNCHANGED <<kind, address, runner, listener, queue, silent, made,
                       polled>>

\* Nobody listens at the address, or the 30 seconds of the HTTPS client are
\* over.  The gRPC client sets no limit.
Fail(i) ==
    /\ call[i] # Nil
    /\ IF Cut(i, call[i].at) THEN kind = "https"
                             ELSE listener[call[i].at] # "serving"
    /\ GiveUp(i)
    /\ UNCHANGED faults

\* The connection breaks, or an answer takes too long.
Break(i) ==
    /\ call[i] # Nil
    /\ Fault
    /\ GiveUp(i)

\* A request whose caller has given up is handled; nobody hears the answer.
HandleStray(s) ==
    /\ listener[s.at] = "serving" /\ ~Cut(s.envelope.from, s.at)
    /\ Enqueue(s.at, s.envelope)
    /\ stray' = stray \ {s}
    /\ UNCHANGED <<kind, address, runner, listener, call, silent, faults, made,
                   outcomes, polled>>

CutLink(i, j) ==
    /\ i # j
    /\ Fault
    /\ silent' = silent \cup {{i, j}}
    /\ UNCHANGED <<kind, address, runner, listener, queue, call, stray, made,
                   outcomes, polled>>

HealLink(link) ==
    /\ silent' = silent \ {link}
    /\ UNCHANGED <<kind, address, runner, listener, queue, call, stray, faults,
                   made, outcomes, polled>>

Next ==
    \/ \E i \in Node :
          \/ Bind(i)
          \/ \E to \in Node \ {i} : Send(i, to)
          \/ Poll(i) \/ PollDisconnected(i) \/ Shutdown(i)
          \/ Handle(i) \/ Return(i) \/ Fail(i) \/ Break(i)
    \/ \E s \in stray : HandleStray(s)
    \/ \E i, j \in Node : CutLink(i, j)
    \/ \E link \in silent : HealLink(link)

\* The threads run, and packets arrive where the link carries them.
Fairness ==
    \A i \in Node :
        /\ WF_vars(Bind(i))
        /\ WF_vars(Poll(i)) /\ WF_vars(PollDisconnected(i))
        /\ WF_vars(Handle(i)) /\ WF_vars(Return(i)) /\ WF_vars(Fail(i))

Spec == Init /\ [][Next]_vars /\ Fairness

-----------------------------------------------------------------------------
(* Properties.                                                             *)

\* What the polls of j handed to the loop (poll skips the others).
Handed(j) == {k \in DOMAIN polled[j] : polled[j][k].inbound # Nil}

\* Every message the loop gets is one that its sender sent, unchanged and
\* under the sender's name although a response travels without it, and it
\* was sent to the address at which it arrived; under gRPC it was meant for
\* this node also where a peer table is wrong (lib.rs, line 109), while an
\* HTTPS node takes what was meant for another.
HandedAsSent ==
    \A j \in Node : \A k \in Handed(j) :
        LET in == polled[j][k].inbound
            s  == made[in.from][in.message.id]
        IN  /\ in.message = s.message
            /\ address[in.from][s.to] = j
            /\ kind = "grpc" => s.to = j

\* Position k of polled[j] holds the id-th send of i.
IsSend(j, k, i, id) ==
    /\ polled[j][k].envelope.from = i
    /\ polled[j][k].envelope.payload.id = id

\* No send arrives twice, and two sends of a node to the same process arrive
\* in the order they were made, except that one which the sender has given
\* up (SendOutcome::Dropped after a broken connection or a timeout) may
\* arrive late.
InOrderAtMostOnce ==
    \A i, j \in Node : \A k, l \in DOMAIN polled[j] :
        \A a, b \in DOMAIN made[i] :
            (k < l /\ IsSend(j, k, i, a) /\ IsSend(j, l, i, b)) =>
                \/ a < b
                \/ a > b /\ outcomes[i][b] = "Dropped"

\* The id-th send of i is in the queue of j or was polled there.
Arrived(j, i, id) ==
    \/ \E k \in DOMAIN polled[j] : IsSend(j, k, i, id)
    \/ \E k \in DOMAIN queue[j] :
          queue[j][k].from = i /\ queue[j][k].payload.id = id

\* A message that gRPC reports as Sent is in the queue of the process at its
\* address, or was polled there, as long as that process runs: the send that
\* finds the queue full is reported as dropped.  HTTPS makes no such promise
\* (handle_raft answers 200 also when it drops the message).
SentIsNotLost ==
    \A i \in Node : \A id \in DOMAIN outcomes[i] :
        LET j == address[i][made[i][id].to]
        IN  (kind = "grpc" /\ outcomes[i][id] = "Sent") =>
                runner[j] = "ended" \/ Arrived(j, i, id)

\* A gRPC call to a peer whose packets vanish: the client sets no time limit.
Stuck(i) == kind = "grpc" /\ call[i] # Nil /\ Cut(i, call[i].at)

\* Every send returns, so that the loop gets back to its ticks and its queue,
\* however full the queues are and although all runners may be sending to
\* each other.  The one exception: gRPC waits without limit for a peer whose
\* packets vanish.
SendReturns == \A i \in Node : []<>(call[i] = Nil) \/ <>[]Stuck(i)

\* A process that could not bind its port does not stay up unreachable: the
\* closed channel ends its loop, unless a send keeps it for ever.
UnreachableEnds ==
    \A i \in Node : <>[](listener[i] # "failed") \/ <>[]Stuck(i)

-----------------------------------------------------------------------------
(* Why the three invariants above hold.                                    *)

Sends == [to : Node, message : Messages]

Outcomes == {"Sent", "Dropped"}

Polls ==
    [envelope : Envelopes, inbound : {Decode(e) : e \in Envelopes} \cup {Nil}]

TransportType ==
    /\ kind \in {"grpc", "https"}
    /\ address \in [Node -> [Node -> Node \cup {Nil}]]
    /\ runner \in [Node -> {"running", "ended"}]
    /\ listener \in [Node -> {"starting", "serving", "failed", "none"}]
    /\ queue \in [Node -> Seq(Envelopes)]
    /\ call \in [Node -> Calls \cup {Nil}]
    /\ stray \subseteq [at : Node, envelope : Envelopes]
    /\ made \in [Node -> Seq(Sends)]
    /\ outcomes \in [Node -> Seq(Outcomes)]
    /\ polled \in [Node -> Seq(Polls)]

\* e is the id-th send of i, and j is where i sent it.
Carries(e, i, id, j) ==
    /\ e = Encode(i, made[i][id].to, made[i][id].message)
    /\ j = address[i][made[i][id].to]

Genuine(e, j) ==
    \E i \in Node : \E id \in DOMAIN made[i] : Carries(e, i, id, j)

\* The sends have their outcomes, except for the one that is under way.
Counted(i) ==
    /\ call[i] = Nil => Len(made[i]) = Len(outcomes[i])
    /\ call[i] # Nil => Len(made[i]) = Len(outcomes[i]) + 1
    /\ \A id \in DOMAIN made[i] : made[i][id].message = RaftMessage(i, id)
    /\ \A id \in DOMAIN outcomes[i] :
          outcomes[i][id] = "Sent" => address[i][made[i][id].to] \in Node

SendsAreCounted == \A i \in Node : Counted(i)

\* A call that is not answered has not arrived, and an accepted one has.
Current(i) ==
    call[i] # Nil =>
        LET c  == call[i]
            id == Len(made[i])
        IN  /\ Carries(c.envelope, i, id, c.at)
            /\ c.answer = "none" => \A j \in Node : ~Arrived(j, i, id)
            /\ (kind = "grpc" /\ c.answer = "accepted") =>
                  runner[c.at] = "ended" \/ Arrived(c.at, i, id)

CallsAreCurrent == \A i \in Node : Current(i)

\* A request whose caller has given up counts as dropped, and arrives once
\* at most.
GivenUp(s) ==
    \E i \in Node : \E id \in DOMAIN outcomes[i] :
        /\ Carries(s.envelope, i, id, s.at)
        /\ outcomes[i][id] = "Dropped"
        /\ \A j \in Node : ~Arrived(j, i, id)

StraysAreDropped == \A s \in stray : GivenUp(s)

ArrivedAsSent ==
    \A j \in Node :
        /\ \A k \in DOMAIN queue[j] : Genuine(queue[j][k], j)
        /\ \A k \in DOMAIN polled[j] :
              LET e == polled[j][k].envelope
              IN  /\ Genuine(e, j)
                  /\ polled[j][k].inbound = IF Skips(j, e) THEN Nil
                                                          ELSE Decode(e)

\* e may arrive before f.
Precedes(e, f) ==
    e.from = f.from =>
        \/ e.payload.id < f.payload.id
        \/ /\ e.payload.id > f.payload.id
           /\ f.payload.id \in DOMAIN outcomes[f.from]
           /\ outcomes[f.from][f.payload.id] = "Dropped"

\* What was polled came before what is in the queue.
ArrivedInOrder ==
    \A j \in Node :
        /\ \A k, l \in DOMAIN polled[j] :
              k < l => Precedes(polled[j][k].envelope, polled[j][l].envelope)
        /\ \A k \in DOMAIN polled[j] : \A l \in DOMAIN queue[j] :
              Precedes(polled[j][k].envelope, queue[j][l])
        /\ \A k, l \in DOMAIN queue[j] :
              k < l => Precedes(queue[j][k], queue[j][l])

\* Every send is in one place at a time, on its way or arrived, and what has
\* arrived is in order: send, send_message, handle_raft and poll together.
TransportInv ==
    /\ TransportType
    /\ SendsAreCounted
    /\ CallsAreCurrent
    /\ StraysAreDropped
    /\ ArrivedAsSent
    /\ ArrivedInOrder
    /\ SentIsNotLost
=============================================================================
