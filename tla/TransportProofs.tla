--------------------------- MODULE TransportProofs --------------------------
(***************************************************************************)
(* What the loop gets from a transport is what was sent, in order and at   *)
(* most once, and what gRPC reports as sent has arrived: proofs for any    *)
(* number of processes, sends and faults.                                  *)
(***************************************************************************)
EXTENDS Transport, TLAPS

-----------------------------------------------------------------------------
(* Encodings.                                                              *)

\* encode_message keeps the number of a message.
LEMMA PayloadKeepsId ==
    ASSUME NEW i, NEW id
    PROVE  Payload(RaftMessage(i, id)).id = id
BY DEF Payload, RaftMessage

\* decode_envelope undoes encode_message: a response gets its sender back.
LEMMA DecodeUndoesEncode ==
    ASSUME NEW i, NEW id, NEW to
    PROVE  /\ MessageOf(Encode(i, to, RaftMessage(i, id))) = RaftMessage(i, id)
           /\ RaftMessage(i, id).id = id
BY DEF Payload, RaftMessage, Encode, MessageOf

LEMMA EncodeFields ==
    ASSUME NEW i, NEW to, NEW m
    PROVE  /\ Encode(i, to, m).from = i
           /\ Encode(i, to, m).to = to
           /\ Encode(i, to, m).payload = Payload(m)
BY DEF Encode

\* An envelope names its send.
LEMMA CarriesNames ==
    ASSUME SendsAreCounted, NEW i \in Node, NEW id \in DOMAIN made[i],
           NEW e, NEW j, Carries(e, i, id, j)
    PROVE  e.from = i /\ e.payload.id = id /\ e.to = made[i][id].to
<1>1. made[i][id].message = RaftMessage(i, id)
  BY DEF SendsAreCounted, Counted
<1>2. e = Encode(i, made[i][id].to, RaftMessage(i, id))
  BY <1>1 DEF Carries
<1>3. e.from = i /\ e.to = made[i][id].to /\ e.payload = Payload(RaftMessage(i, id))
  BY <1>2, EncodeFields
<1> QED
  BY <1>3, PayloadKeepsId

LEMMA GenuineNames ==
    ASSUME SendsAreCounted, NEW e, NEW j, Genuine(e, j)
    PROVE  /\ e.from \in Node
           /\ e.payload.id \in DOMAIN made[e.from]
           /\ Carries(e, e.from, e.payload.id, j)
BY CarriesNames DEF Genuine

\* Only what was sent arrives.
LEMMA ArrivedIsMade ==
    ASSUME SendsAreCounted, ArrivedAsSent,
           NEW j \in Node, NEW i \in Node, NEW id, Arrived(j, i, id)
    PROVE  id \in DOMAIN made[i]
BY GenuineNames DEF ArrivedAsSent, Arrived, IsSend

-----------------------------------------------------------------------------
(* Types.                                                                  *)

LEMMA GrowType ==
    ASSUME NEW S, NEW f \in [Node -> Seq(S)], NEW i \in Node, NEW x \in S
    PROVE  [f EXCEPT ![i] = Append(@, x)] \in [Node -> Seq(S)]
OBVIOUS

LEMMA TypeInit == Init => TransportType
<1> SUFFICES ASSUME Init
             PROVE  TransportType
  OBVIOUS
<1>1. /\ queue \in [Node -> Seq(Envelopes)]
      /\ made \in [Node -> Seq(Sends)]
      /\ outcomes \in [Node -> Seq(Outcomes)]
      /\ polled \in [Node -> Seq(Polls)]
  BY DEF Init
<1>2. kind \in {"grpc", "https"}
  BY TransportAssumption DEF Init
<1> QED
  BY <1>1, <1>2 DEF Init, TransportType

LEMMA SendType ==
    ASSUME TransportType, NEW i \in Node, NEW to \in Node, Send(i, to)
    PROVE  /\ TransportType'
           /\ Encode(i, to, RaftMessage(i, Len(made[i]) + 1)) \in Envelopes
<1> DEFINE id == Len(made[i]) + 1
           m  == RaftMessage(i, id)
<1>1. id \in 1 .. MaxSends
  BY TransportAssumption DEF TransportType, Send
<1>2. m \in Messages
  BY <1>1 DEF Messages
<1>3. Encode(i, to, m) \in Envelopes
  BY <1>2 DEF Envelopes
<1>4. [to |-> to, message |-> m] \in Sends
  BY <1>2 DEF Sends
<1>5. made' \in [Node -> Seq(Sends)]
  BY <1>4, GrowType DEF TransportType, Send
<1>6. outcomes' \in [Node -> Seq(Outcomes)]
  <2>1. CASE address[i][to] = Nil
    <3>1. outcomes' = [outcomes EXCEPT ![i] = Append(@, "Dropped")]
      BY <2>1 DEF Send
    <3>2. "Dropped" \in Outcomes
      BY DEF Outcomes
    <3> QED
      BY <3>1, <3>2, GrowType DEF TransportType
  <2>2. CASE address[i][to] # Nil
    BY <2>2 DEF TransportType, Send
  <2> QED
    BY <2>1, <2>2
<1>7. ASSUME address[i][to] # Nil
      PROVE  [at |-> address[i][to], envelope |-> Encode(i, to, m),
              answer |-> "none"] \in Calls
  BY <1>3, <1>7 DEF TransportType, Calls
<1>8. call' \in [Node -> Calls \cup {Nil}]
  BY <1>7 DEF TransportType, Send
<1> QED
  BY <1>3, <1>5, <1>6, <1>8 DEF TransportType, Send

LEMMA PollType ==
    ASSUME TransportType, NEW i \in Node, Poll(i)
    PROVE  TransportType'
<1> DEFINE e == Head(queue[i])
           p == [envelope |-> e, inbound |-> IF Skips(i, e) THEN Nil
                                             ELSE Decode(e)]
<1>1. e \in Envelopes
  BY DEF TransportType, Poll
<1>2. p \in Polls
  BY <1>1 DEF Polls
<1>3. queue' \in [Node -> Seq(Envelopes)]
  BY DEF TransportType, Poll
<1>4. polled' = [polled EXCEPT ![i] = Append(@, p)]
  BY DEF Poll
<1>5. polled' \in [Node -> Seq(Polls)]
  <2> HIDE DEF p
  <2> QED
    BY <1>2, <1>4, GrowType DEF TransportType
<1> QED
  BY <1>3, <1>5 DEF TransportType, Poll

LEMMA EnqueueType ==
    ASSUME TransportType, NEW j \in Node, NEW e \in Envelopes, Enqueue(j, e)
    PROVE  queue' \in [Node -> Seq(Envelopes)]
BY DEF TransportType, Enqueue

LEMMA FinishType ==
    ASSUME TransportType, NEW i \in Node, NEW o \in Outcomes,
           Finish(i, o)
    PROVE  /\ outcomes' \in [Node -> Seq(Outcomes)]
           /\ call' \in [Node -> Calls \cup {Nil}]
BY GrowType DEF TransportType, Finish

LEMMA HandleType ==
    ASSUME TransportType, NEW i \in Node, Handle(i)
    PROVE  TransportType'
<1>1. call[i] \in Calls
  BY DEF TransportType, Handle
<1>2. queue' \in [Node -> Seq(Envelopes)]
  BY <1>1, EnqueueType DEF Handle, Calls
<1>3. [call[i] EXCEPT !.answer = Answer(call[i].at)] \in Calls
  BY <1>1 DEF Calls, Answer
<1>4. call' \in [Node -> Calls \cup {Nil}]
  BY <1>3 DEF TransportType, Handle
<1> QED
  BY <1>2, <1>4 DEF TransportType, Handle

LEMMA GiveUpType ==
    ASSUME TransportType, NEW i \in Node, call[i] # Nil, GiveUp(i)
    PROVE  TransportType'
<1>1. call[i] \in Calls
  BY DEF TransportType
<1>2. [at |-> call[i].at, envelope |-> call[i].envelope]
          \in [at : Node, envelope : Envelopes]
  BY <1>1 DEF Calls
<1>3. stray' \subseteq [at : Node, envelope : Envelopes]
  BY <1>2 DEF TransportType, GiveUp
<1>4. /\ outcomes' \in [Node -> Seq(Outcomes)]
      /\ call' \in [Node -> Calls \cup {Nil}]
  BY FinishType DEF GiveUp, Outcomes
<1> QED
  BY <1>3, <1>4 DEF TransportType, GiveUp

LEMMA ExitType ==
    ASSUME TransportType, NEW i \in Node, Exit(i)
    PROVE  TransportType'
<1>1. /\ runner' \in [Node -> {"running", "ended"}]
      /\ listener' \in [Node -> {"starting", "serving", "failed", "none"}]
  BY DEF TransportType, Exit
<1>2. queue' \in [Node -> Seq(Envelopes)]
  BY DEF TransportType, Exit
<1> QED
  BY <1>1, <1>2 DEF TransportType, Exit

LEMMA TypeNext ==
    ASSUME TransportType, [Next]_vars
    PROVE  TransportType'
<1>1. ASSUME NEW i \in Node, Bind(i)
      PROVE  TransportType'
  BY <1>1 DEF TransportType, Bind
<1>2. ASSUME NEW i \in Node, PollDisconnected(i) \/ Shutdown(i)
      PROVE  TransportType'
  BY <1>2, ExitType DEF PollDisconnected, Shutdown
<1>3. ASSUME NEW i \in Node, Return(i)
      PROVE  TransportType'
  <2>1. /\ outcomes' \in [Node -> Seq(Outcomes)]
        /\ call' \in [Node -> Calls \cup {Nil}]
    BY <1>3, FinishType DEF Return, Outcomes
  <2> QED
    BY <1>3, <2>1 DEF TransportType, Return
<1>4. ASSUME NEW i \in Node, Fail(i) \/ Break(i)
      PROVE  TransportType'
  BY <1>4, GiveUpType DEF Fail, Break
<1>5. ASSUME NEW s \in stray, HandleStray(s)
      PROVE  TransportType'
  <2>1. queue' \in [Node -> Seq(Envelopes)]
    BY <1>5, EnqueueType DEF HandleStray, TransportType
  <2> QED
    BY <1>5, <2>1 DEF TransportType, HandleStray
<1>6. ASSUME NEW i \in Node, NEW j \in Node, CutLink(i, j)
      PROVE  TransportType'
  BY <1>6 DEF TransportType, CutLink
<1>7. ASSUME NEW link \in silent, HealLink(link)
      PROVE  TransportType'
  BY <1>7 DEF TransportType, HealLink
<1>8. CASE UNCHANGED vars
  BY <1>8 DEF TransportType, vars
<1> QED
  BY <1>1, <1>2, <1>3, <1>4, <1>5, <1>6, <1>7, <1>8, SendType, PollType,
     HandleType DEF Next

-----------------------------------------------------------------------------
(* The invariant: steps that move no message.                              *)

\* Tables, sends and outcomes are never taken back.
Grows ==
    /\ kind' = kind /\ address' = address
    /\ \A i \in Node : \A id \in DOMAIN made[i] :
          id \in DOMAIN made'[i] /\ made'[i][id] = made[i][id]
    /\ \A i \in Node : \A id \in DOMAIN outcomes[i] :
          id \in DOMAIN outcomes'[i] /\ outcomes'[i][id] = outcomes[i][id]

LEMMA AppendGrows ==
    ASSUME NEW S, NEW f \in [Node -> Seq(S)], NEW i \in Node, NEW x,
           NEW g, g = [f EXCEPT ![i] = Append(@, x)]
    PROVE  /\ \A k \in Node : \A id \in DOMAIN f[k] :
                 id \in DOMAIN g[k] /\ g[k][id] = f[k][id]
           /\ Len(g[i]) = Len(f[i]) + 1
           /\ DOMAIN g[i] = DOMAIN f[i] \cup {Len(f[i]) + 1}
           /\ g[i][Len(f[i]) + 1] = x
           /\ \A k \in Node : k # i => g[k] = f[k]
OBVIOUS

\* What has arrived stays genuine, in order and where it is.
LEMMA StayKeeps ==
    ASSUME Grows, UNCHANGED <<queue, polled>>, SendsAreCounted,
           ArrivedAsSent, ArrivedInOrder
    PROVE  /\ ArrivedAsSent'
           /\ ArrivedInOrder'
           /\ \A j, i, id : Arrived(j, i, id)' = Arrived(j, i, id)
<1>1. ArrivedAsSent'
  BY DEF Grows, ArrivedAsSent, Genuine, Carries, Skips
<1>2. ArrivedInOrder'
  <2>1. \A j \in Node :
          /\ \A k \in DOMAIN queue[j] : queue[j][k].from \in Node
          /\ \A k \in DOMAIN polled[j] : polled[j][k].envelope.from \in Node
    BY GenuineNames DEF ArrivedAsSent
  <2> QED
    BY <2>1 DEF Grows, ArrivedInOrder, Precedes
<1>3. \A j, i, id : Arrived(j, i, id)' = Arrived(j, i, id)
  BY DEF Arrived, IsSend
<1> QED
  BY <1>1, <1>2, <1>3

\* What a sender knows of its sends while others act.
LEMMA OthersKeep ==
    ASSUME TransportType, NEW k \in Node, Counted(k), Current(k),
           made'[k] = made[k], outcomes'[k] = outcomes[k], call'[k] = call[k],
           kind' = kind, address' = address,
           \A j \in Node : runner[j] = "ended" => runner'[j] = "ended",
           \A j \in Node, id \in Nat : Arrived(j, k, id)' => Arrived(j, k, id),
           \A j \in Node, id \in Nat :
              Arrived(j, k, id) => Arrived(j, k, id)' \/ runner'[j] = "ended"
    PROVE  Counted(k)' /\ Current(k)'
<1>1. Counted(k)'
  BY DEF Counted
<1>2. ASSUME call[k] # Nil
      PROVE  call[k].at \in Node /\ Len(made[k]) \in Nat
  BY <1>2 DEF TransportType, Calls
<1>3. Current(k)'
  BY <1>2 DEF Current, Carries
<1> QED
  BY <1>1, <1>3

\* SentIsNotLost for the sends of one process.
SentArrives(i) ==
    \A id \in DOMAIN outcomes[i] :
        LET j == address[i][made[i][id].to]
        IN  (kind = "grpc" /\ outcomes[i][id] = "Sent") =>
                runner[j] = "ended" \/ Arrived(j, i, id)

LEMMA SentKeeps ==
    ASSUME TransportType, NEW k \in Node, Counted(k), SentArrives(k),
           \A id \in DOMAIN outcomes[k] : made'[k][id] = made[k][id],
           outcomes'[k] = outcomes[k],
           kind' = kind, address' = address,
           \A j \in Node : runner[j] = "ended" => runner'[j] = "ended",
           \A j \in Node, id \in Nat :
              Arrived(j, k, id) => Arrived(j, k, id)' \/ runner'[j] = "ended"
    PROVE  SentArrives(k)'
<1>1. \A id \in DOMAIN outcomes[k] : id \in Nat
  BY DEF TransportType
<1>2. SUFFICES ASSUME NEW id \in DOMAIN outcomes[k], kind = "grpc",
                      outcomes[k][id] = "Sent",
                      NEW j, j = address[k][made[k][id].to]
               PROVE  runner'[j] = "ended" \/ Arrived(j, k, id)'
  BY DEF SentArrives
<1>3. j \in Node
  BY <1>2 DEF Counted
<1>4. runner[j] = "ended" \/ Arrived(j, k, id)
  BY <1>2 DEF SentArrives
<1> QED
  BY <1>1, <1>2, <1>3, <1>4

LEMMA OutcomesAreOfSends ==
    ASSUME TransportType, NEW k \in Node, Counted(k)
    PROVE  DOMAIN outcomes[k] \subseteq DOMAIN made[k]
BY DEF TransportType, Counted

\* Requests that were given up stay so while nothing of them arrives.
LEMMA StraysKeep ==
    ASSUME TransportType, SendsAreCounted, Grows, NEW s, GivenUp(s),
           \A j \in Node, k \in Node, id \in Nat :
              (Arrived(j, k, id)' /\ Carries(s.envelope, k, id, s.at)) =>
                  Arrived(j, k, id)
    PROVE  GivenUp(s)'
<1>0. PICK i \in Node : \E id \in DOMAIN outcomes[i] :
        /\ Carries(s.envelope, i, id, s.at)
        /\ outcomes[i][id] = "Dropped"
        /\ \A j \in Node : ~Arrived(j, i, id)
  BY DEF GivenUp
<1>1. PICK id \in DOMAIN outcomes[i] :
        /\ Carries(s.envelope, i, id, s.at)
        /\ outcomes[i][id] = "Dropped"
        /\ \A j \in Node : ~Arrived(j, i, id)
  BY <1>0
<1>2. id \in Nat /\ id \in DOMAIN made[i]
  BY OutcomesAreOfSends DEF TransportType, SendsAreCounted
<1>3. Carries(s.envelope, i, id, s.at)'
  BY <1>1, <1>2 DEF Carries, Grows
<1>4. id \in DOMAIN outcomes'[i] /\ outcomes'[i][id] = "Dropped"
  BY <1>1 DEF Grows
<1>5. \A j \in Node : ~Arrived(j, i, id)'
  BY <1>1, <1>2
<1> QED
  BY <1>3, <1>4, <1>5 DEF GivenUp

LEMMA IdleKeeps ==
    ASSUME TransportInv, TransportType',
           UNCHANGED <<kind, address, runner, queue, call, stray, made,
                       outcomes, polled>>
    PROVE  TransportInv'
<1> USE DEF TransportInv
<1>1. Grows
  BY DEF Grows
<1>2. /\ ArrivedAsSent' /\ ArrivedInOrder'
      /\ \A j, i, id : Arrived(j, i, id)' = Arrived(j, i, id)
  BY <1>1, StayKeeps
<1>3. SendsAreCounted' /\ CallsAreCurrent'
  BY <1>2, OthersKeep DEF SendsAreCounted, CallsAreCurrent
<1>5. StraysAreDropped'
  BY <1>1, <1>2, StraysKeep DEF StraysAreDropped
<1>6. SentIsNotLost'
  BY <1>2 DEF SentIsNotLost
<1> QED
  BY <1>2, <1>3, <1>5, <1>6

\* A send that is made is not under way anywhere else.
LEMMA SendKeeps ==
    ASSUME TransportInv, TransportType', NEW i \in Node, NEW to \in Node,
           Send(i, to)
    PROVE  TransportInv'
<1> USE DEF TransportInv
<1>0. PICK id \in Nat : id = Len(made[i]) + 1
  BY DEF TransportType
<1> DEFINE m == RaftMessage(i, id)
<1>1. Counted(i) /\ call[i] = Nil /\ Len(made[i]) = Len(outcomes[i])
  BY DEF Send, InControl, SendsAreCounted, Counted
<1>2. made' = [made EXCEPT ![i] = Append(@, [to |-> to, message |-> m])]
  BY <1>0 DEF Send
<1>3. /\ \A k \in Node : \A n \in DOMAIN made[k] :
            n \in DOMAIN made'[k] /\ made'[k][n] = made[k][n]
      /\ Len(made'[i]) = id
      /\ DOMAIN made'[i] = DOMAIN made[i] \cup {id}
      /\ made'[i][id] = [to |-> to, message |-> m]
      /\ \A k \in Node : k # i => made'[k] = made[k]
  <2> HIDE DEF m
  <2>1. PICK x : x = [to |-> to, message |-> m]
    OBVIOUS
  <2>2. made \in [Node -> Seq(Sends)] /\ made' = [made EXCEPT ![i] = Append(@, x)]
    BY <1>2, <2>1 DEF TransportType
  <2> QED
    BY <1>0, <2>1, <2>2, AppendGrows
<1>4. made'[i][id].to = to /\ made'[i][id].message = m
  BY <1>3
<1>5. id \notin DOMAIN made[i] /\ id \notin DOMAIN outcomes[i]
  BY <1>0, <1>1 DEF TransportType
<1>6. \A n \in DOMAIN outcomes[i] : made'[i][n] = made[i][n]
  BY <1>1, <1>3, OutcomesAreOfSends
<1>7. UNCHANGED <<stray, runner, address, kind, queue, polled>>
  BY DEF Send
<1> HIDE DEF m
<1>8. CASE address[i][to] = Nil
  <2>1. outcomes' = [outcomes EXCEPT ![i] = Append(@, "Dropped")] /\ call' = call
    BY <1>8 DEF Send
  <2>2. Len(outcomes[i]) + 1 = id
    BY <1>0, <1>1
  <2>3. /\ \A k \in Node : \A n \in DOMAIN outcomes[k] :
              n \in DOMAIN outcomes'[k] /\ outcomes'[k][n] = outcomes[k][n]
        /\ Len(outcomes'[i]) = id
        /\ DOMAIN outcomes'[i] = DOMAIN outcomes[i] \cup {id}
        /\ outcomes'[i][id] = "Dropped"
        /\ \A k \in Node : k # i => outcomes'[k] = outcomes[k]
    BY <2>1, <2>2, AppendGrows DEF TransportType
  <2>4. Grows
    BY <1>3, <1>7, <2>3 DEF Grows
  <2>5. /\ ArrivedAsSent' /\ ArrivedInOrder'
        /\ \A j, k, n : Arrived(j, k, n)' = Arrived(j, k, n)
    BY <1>7, <2>4, StayKeeps
  <2>6. Counted(i)'
    <3>1. call'[i] = Nil /\ Len(made'[i]) = Len(outcomes'[i])
      BY <1>1, <1>3, <2>1, <2>3
    <3>2. \A n \in DOMAIN made'[i] : made'[i][n].message = RaftMessage(i, n)
      BY <1>1, <1>3, <1>4 DEF Counted, m
    <3>3. \A n \in DOMAIN outcomes'[i] :
             outcomes'[i][n] = "Sent" => address'[i][made'[i][n].to] \in Node
      BY <1>1, <1>6, <1>7, <2>3 DEF Counted
    <3> QED
      BY <3>1, <3>2, <3>3 DEF Counted
  <2>7. Current(i)'
    BY <1>1, <2>1 DEF Current
  <2>8. SentArrives(i)'
    <3>1. SentArrives(i)
      BY DEF SentIsNotLost, SentArrives
    <3> QED
      BY <1>6, <1>7, <2>3, <2>5, <3>1 DEF SentArrives
  <2>9. ASSUME NEW k \in Node, k # i
        PROVE  Counted(k)' /\ Current(k)' /\ SentArrives(k)'
    <3>1. Counted(k) /\ Current(k) /\ SentArrives(k)
      BY DEF SendsAreCounted, CallsAreCurrent, SentIsNotLost, SentArrives
    <3>2. made'[k] = made[k] /\ outcomes'[k] = outcomes[k]
      BY <1>3, <2>3, <2>9
    <3>3. Counted(k)' /\ Current(k)'
      BY <1>7, <2>1, <2>5, <3>1, <3>2, OthersKeep
    <3>4. SentArrives(k)'
      BY <1>7, <2>5, <3>1, <3>2, SentKeeps
    <3> QED
      BY <3>3, <3>4
  <2>10. StraysAreDropped'
    BY <1>7, <2>4, <2>5, StraysKeep DEF StraysAreDropped
  <2>11. SendsAreCounted' /\ CallsAreCurrent'
    BY <2>6, <2>7, <2>9 DEF SendsAreCounted, CallsAreCurrent
  <2>12. SentIsNotLost'
    BY <2>8, <2>9 DEF SentIsNotLost, SentArrives
  <2> QED
    BY <2>5, <2>10, <2>11, <2>12
<1>9. CASE address[i][to] # Nil
  <2>1. PICK c : c = [at |-> address[i][to], envelope |-> Encode(i, to, m),
                      answer |-> "none"]
    OBVIOUS
  <2>13. outcomes' = outcomes /\ call' = [call EXCEPT ![i] = c]
    BY <1>0, <1>9, <2>1 DEF Send, m
  <2>2. c \in Calls
    <3>1. Encode(i, to, m) \in Envelopes
      BY <1>0, SendType DEF m
    <3>2. address[i][to] \in Node
      BY <1>9 DEF TransportType
    <3> QED
      BY <2>1, <3>1, <3>2 DEF Calls
  <2>3. call'[i] # Nil
    BY <2>13, <2>2, CallAssumption DEF TransportType
  <2>4. Grows
    BY <1>3, <1>7, <2>13 DEF Grows
  <2>5. /\ ArrivedAsSent' /\ ArrivedInOrder'
        /\ \A j, k, n : Arrived(j, k, n)' = Arrived(j, k, n)
    BY <1>7, <2>4, StayKeeps
  <2>6. Counted(i)'
    <3>1. Len(made'[i]) = Len(outcomes'[i]) + 1
      BY <1>0, <1>1, <1>3, <2>13
    <3>2. \A n \in DOMAIN made'[i] : made'[i][n].message = RaftMessage(i, n)
      BY <1>1, <1>3, <1>4 DEF Counted, m
    <3>3. \A n \in DOMAIN outcomes'[i] :
             outcomes'[i][n] = "Sent" => address'[i][made'[i][n].to] \in Node
      BY <1>1, <1>6, <1>7, <2>13 DEF Counted
    <3> QED
      BY <2>3, <3>1, <3>2, <3>3 DEF Counted
  <2>7. Current(i)'
    <3>1. \A j \in Node : ~Arrived(j, i, id)'
      <4>1. \A j \in Node : ~Arrived(j, i, id)
        BY <1>5, ArrivedIsMade
      <4> QED
        BY <2>5, <4>1
    <3>2. call'[i] = c
      BY <2>13 DEF TransportType
    <3>3. /\ c.envelope = Encode(i, to, m)
          /\ c.at = address[i][to]
          /\ c.answer = "none"
      BY <2>1
    <3>4. Carries(c.envelope, i, id, c.at)'
      BY <1>4, <1>7, <3>2, <3>3 DEF Carries
    <3>5. Len(made'[i]) = id
      BY <1>3
    <3> QED
      BY <3>1, <3>2, <3>3, <3>4, <3>5 DEF Current, Carries
  <2>8. SentArrives(i)'
    <3>1. SentArrives(i)
      BY DEF SentIsNotLost, SentArrives
    <3> QED
      BY <1>1, <1>6, <1>7, <2>13, <2>5, <3>1, SentKeeps
  <2>9. ASSUME NEW k \in Node, k # i
        PROVE  Counted(k)' /\ Current(k)' /\ SentArrives(k)'
    <3>1. Counted(k) /\ Current(k) /\ SentArrives(k)
      BY DEF SendsAreCounted, CallsAreCurrent, SentIsNotLost, SentArrives
    <3>2. made'[k] = made[k] /\ outcomes'[k] = outcomes[k]
      BY <1>3, <2>13, <2>9
    <3>3. call'[k] = call[k]
      BY <2>13, <2>9 DEF TransportType
    <3>4. Counted(k)' /\ Current(k)'
      BY <1>7, <2>5, <3>1, <3>2, <3>3, OthersKeep
    <3>5. SentArrives(k)'
      BY <1>7, <2>5, <3>1, <3>2, SentKeeps
    <3> QED
      BY <3>4, <3>5
  <2>10. StraysAreDropped'
    BY <1>7, <2>4, <2>5, StraysKeep DEF StraysAreDropped
  <2>11. SendsAreCounted' /\ CallsAreCurrent'
    BY <2>6, <2>7, <2>9 DEF SendsAreCounted, CallsAreCurrent
  <2>12. SentIsNotLost'
    BY <2>8, <2>9 DEF SentIsNotLost, SentArrives
  <2> QED
    BY <2>5, <2>10, <2>11, <2>12
<1> QED
  BY <1>8, <1>9

\* A call that comes back has its outcome, and what it left on its way counts
\* as dropped.
LEMMA FinishKeeps ==
    ASSUME TransportInv, TransportType', NEW i \in Node, call[i] # Nil,
           NEW o \in Outcomes, Finish(i, o),
           UNCHANGED <<kind, address, runner, queue, made, polled>>,
           o = "Sent" => call[i].answer = "accepted",
           \A s \in stray' : \/ s \in stray
                             \/ /\ s.at = call[i].at
                                /\ s.envelope = call[i].envelope
                                /\ call[i].answer = "none" /\ o = "Dropped"
    PROVE  TransportInv'
<1> USE DEF TransportInv
<1>0. PICK id \in Nat : id = Len(made[i])
  <2>1. made[i] \in Seq(Sends)
    BY DEF TransportType
  <2> QED
    BY <2>1
<1>1. Counted(i) /\ Current(i) /\ call[i] \in Calls /\ id = Len(outcomes[i]) + 1
  <2>1. Counted(i) /\ Current(i)
    BY DEF SendsAreCounted, CallsAreCurrent
  <2>2. call[i] \in Calls
    BY DEF TransportType
  <2>3. id = Len(outcomes[i]) + 1
    BY <1>0, <2>1 DEF Counted
  <2> QED
    BY <2>1, <2>2, <2>3
<1>2. Carries(call[i].envelope, i, id, call[i].at)
  BY <1>0, <1>1 DEF Current
<1>3. id \in DOMAIN made[i] /\ id \notin DOMAIN outcomes[i]
  <2>1. /\ Len(outcomes[i]) \in Nat
        /\ DOMAIN made[i] = 1 .. Len(made[i])
        /\ DOMAIN outcomes[i] = 1 .. Len(outcomes[i])
    BY DEF TransportType
  <2> QED
    BY <1>0, <1>1, <2>1
<1>4. outcomes' = [outcomes EXCEPT ![i] = Append(@, o)] /\ call'[i] = Nil
      /\ \A k \in Node : k # i => call'[k] = call[k]
  BY DEF Finish, TransportType
<1>5. /\ \A k \in Node : \A n \in DOMAIN outcomes[k] :
            n \in DOMAIN outcomes'[k] /\ outcomes'[k][n] = outcomes[k][n]
      /\ Len(outcomes'[i]) = id
      /\ DOMAIN outcomes'[i] = DOMAIN outcomes[i] \cup {id}
      /\ outcomes'[i][id] = o
      /\ \A k \in Node : k # i => outcomes'[k] = outcomes[k]
  BY <1>1, <1>4, AppendGrows DEF TransportType
<1>6. Grows
  BY <1>5 DEF Grows
<1>7. /\ ArrivedAsSent' /\ ArrivedInOrder'
      /\ \A j, k, n : Arrived(j, k, n)' = Arrived(j, k, n)
  BY <1>6, StayKeeps
<1>8. call[i].at = address[i][made[i][id].to] /\ call[i].at \in Node
  BY <1>1, <1>2 DEF Carries, Calls
<1>9. Counted(i)'
  <2>1. Len(made'[i]) = Len(outcomes'[i])
    BY <1>0, <1>5
  <2>2. \A n \in DOMAIN outcomes'[i] :
           outcomes'[i][n] = "Sent" => address'[i][made'[i][n].to] \in Node
    BY <1>1, <1>5, <1>8 DEF Counted
  <2> QED
    BY <1>1, <1>4, <2>1, <2>2 DEF Counted
<1>10. Current(i)'
  BY <1>4 DEF Current
<1>11. SentArrives(i)'
  <2>1. SentArrives(i)
    BY DEF SentIsNotLost, SentArrives
  <2>2. (kind = "grpc" /\ o = "Sent") =>
            runner[call[i].at] = "ended" \/ Arrived(call[i].at, i, id)
    BY <1>0, <1>1 DEF Current
  <2>3. SUFFICES ASSUME NEW n \in DOMAIN outcomes'[i], kind = "grpc",
                        outcomes'[i][n] = "Sent",
                        NEW j, j = address[i][made[i][n].to]
                 PROVE  runner[j] = "ended" \/ Arrived(j, i, n)'
    BY DEF SentArrives
  <2>4. CASE n = id
    BY <1>5, <1>7, <1>8, <2>2, <2>3, <2>4
  <2>5. CASE n # id
    <3>1. n \in DOMAIN outcomes[i] /\ outcomes[i][n] = "Sent"
      BY <1>5, <2>3, <2>5
    <3>2. runner[j] = "ended" \/ Arrived(j, i, n)
      BY <2>1, <2>3, <3>1 DEF SentArrives
    <3> QED
      BY <1>7, <3>2
  <2> QED
    BY <2>4, <2>5
<1>12. ASSUME NEW k \in Node, k # i
       PROVE  Counted(k)' /\ Current(k)' /\ SentArrives(k)'
  <2>1. Counted(k) /\ Current(k) /\ SentArrives(k)
    BY DEF SendsAreCounted, CallsAreCurrent, SentIsNotLost, SentArrives
  <2>2. outcomes'[k] = outcomes[k] /\ call'[k] = call[k]
    BY <1>4, <1>5, <1>12
  <2>3. Counted(k)' /\ Current(k)'
    BY <1>7, <2>1, <2>2, OthersKeep
  <2>4. SentArrives(k)'
    BY <1>7, <2>1, <2>2, SentKeeps
  <2> QED
    BY <2>3, <2>4
<1>13. ASSUME NEW s \in stray'
       PROVE  GivenUp(s)'
  <2>1. CASE s \in stray
    BY <1>6, <1>7, <2>1, StraysKeep DEF StraysAreDropped
  <2>2. CASE /\ s.at = call[i].at
             /\ s.envelope = call[i].envelope
             /\ call[i].answer = "none" /\ o = "Dropped"
    <3>1. Carries(s.envelope, i, id, s.at)'
      BY <1>2, <2>2 DEF Carries
    <3>2. \A j \in Node : ~Arrived(j, i, id)'
      <4>1. \A j \in Node : ~Arrived(j, i, id)
        BY <1>0, <1>1, <2>2 DEF Current
      <4> QED
        BY <1>7, <4>1
    <3> QED
      BY <1>5, <2>2, <3>1, <3>2 DEF GivenUp
  <2> QED
    BY <1>13, <2>1, <2>2
<1>14. SendsAreCounted' /\ CallsAreCurrent'
  BY <1>9, <1>10, <1>12 DEF SendsAreCounted, CallsAreCurrent
<1>15. SentIsNotLost'
  BY <1>11, <1>12 DEF SentIsNotLost, SentArrives
<1>16. StraysAreDropped'
  BY <1>13 DEF StraysAreDropped
<1> QED
  BY <1>7, <1>14, <1>15, <1>16

-----------------------------------------------------------------------------
(* The invariant: steps that move a message.                               *)

\* poll takes the head of the queue.
LEMMA PollMoves ==
    ASSUME TransportType, NEW i \in Node, Poll(i)
    PROVE  /\ \A j \in Node : j # i =>
                 queue'[j] = queue[j] /\ polled'[j] = polled[j]
           /\ Len(polled'[i]) = Len(polled[i]) + 1
           /\ \A k \in DOMAIN polled[i] : polled'[i][k] = polled[i][k]
           /\ LET p == polled'[i][Len(polled[i]) + 1]
                  e == queue[i][1]
              IN  /\ p.envelope = e
                  /\ p.inbound = IF Skips(i, e) THEN Nil ELSE Decode(e)
           /\ 1 \in DOMAIN queue[i]
           /\ Len(queue'[i]) = Len(queue[i]) - 1
           /\ \A k \in DOMAIN queue'[i] :
                 /\ queue'[i][k] = queue[i][k + 1]
                 /\ k + 1 \in DOMAIN queue[i]
<1>1. PICK p : p = [envelope |-> queue[i][1],
                    inbound |-> IF Skips(i, queue[i][1]) THEN Nil
                                ELSE Decode(queue[i][1])]
  OBVIOUS
<1>2. queue[i] \in Seq(Envelopes) /\ queue[i] # << >>
  BY DEF TransportType, Poll
<1>3. polled' = [polled EXCEPT ![i] = Append(@, p)]
  BY <1>1, <1>2 DEF Poll
<1>4. queue'[i] = Tail(queue[i])
      /\ \A j \in Node : j # i => queue'[j] = queue[j]
  BY DEF Poll, TransportType
<1>5. /\ \A j \in Node : j # i => polled'[j] = polled[j]
      /\ Len(polled'[i]) = Len(polled[i]) + 1
      /\ polled'[i][Len(polled[i]) + 1] = p
      /\ \A k \in DOMAIN polled[i] : polled'[i][k] = polled[i][k]
  BY <1>3, AppendGrows DEF TransportType
<1>6. /\ 1 \in DOMAIN queue[i]
      /\ Len(queue'[i]) = Len(queue[i]) - 1
      /\ \A k \in DOMAIN queue'[i] :
            queue'[i][k] = queue[i][k + 1] /\ k + 1 \in DOMAIN queue[i]
  BY <1>2, <1>4
<1> QED
  BY <1>1, <1>4, <1>5, <1>6

LEMMA PollKeepsArrived ==
    ASSUME TransportType, TransportType', NEW i \in Node, Poll(i),
           NEW j \in Node, NEW k, NEW n
    PROVE  Arrived(j, k, n)' <=> Arrived(j, k, n)
<1>1. CASE j # i
  BY <1>1, PollMoves DEF Arrived, IsSend
<1>2. CASE j = i
  <2>0. /\ DOMAIN polled'[i] = 1 .. Len(polled[i]) + 1
        /\ DOMAIN polled[i] = 1 .. Len(polled[i]) /\ Len(polled[i]) \in Nat
        /\ DOMAIN queue[i] = 1 .. Len(queue[i]) /\ Len(queue[i]) \in Nat
        /\ DOMAIN queue'[i] = 1 .. Len(queue[i]) - 1
    <3>1. /\ queue[i] \in Seq(Envelopes) /\ queue'[i] \in Seq(Envelopes)
          /\ polled[i] \in Seq(Polls) /\ polled'[i] \in Seq(Polls)
      BY DEF TransportType
    <3> QED
      BY <3>1, PollMoves
  <2>1. ASSUME Arrived(i, k, n)
        PROVE  Arrived(i, k, n)'
    <3>1. ASSUME NEW l \in DOMAIN polled[i], IsSend(i, l, k, n)
          PROVE  Arrived(i, k, n)'
      BY <2>0, <3>1, PollMoves DEF Arrived, IsSend
    <3>2. ASSUME NEW l \in DOMAIN queue[i], queue[i][l].from = k,
                 queue[i][l].payload.id = n
          PROVE  Arrived(i, k, n)'
      <4>1. CASE l = 1
        <5>1. Len(polled[i]) + 1 \in DOMAIN polled'[i]
          BY <2>0
        <5>2. polled'[i][Len(polled[i]) + 1].envelope = queue[i][1]
          BY PollMoves
        <5> QED
          BY <3>2, <4>1, <5>1, <5>2 DEF Arrived, IsSend
      <4>2. CASE l # 1
        <5>1. l - 1 \in DOMAIN queue'[i] /\ queue'[i][l - 1] = queue[i][l]
          <6>1. l - 1 \in DOMAIN queue'[i] /\ (l - 1) + 1 = l
            BY <2>0, <4>2
          <6> QED
            BY <6>1, PollMoves
        <5> QED
          BY <3>2, <5>1 DEF Arrived
      <4> QED
        BY <4>1, <4>2
    <3> QED
      BY <2>1, <3>1, <3>2 DEF Arrived
  <2>2. ASSUME Arrived(i, k, n)'
        PROVE  Arrived(i, k, n)
    <3>1. ASSUME NEW l \in DOMAIN polled'[i], IsSend(i, l, k, n)'
          PROVE  Arrived(i, k, n)
      <4>1. CASE l \in DOMAIN polled[i]
        BY <3>1, <4>1, PollMoves DEF Arrived, IsSend
      <4>2. CASE l \notin DOMAIN polled[i]
        <5>1. l = Len(polled[i]) + 1
          BY <2>0, <4>2
        <5>2. polled'[i][l].envelope = queue[i][1] /\ 1 \in DOMAIN queue[i]
          BY <5>1, PollMoves
        <5> QED
          BY <3>1, <5>2 DEF Arrived, IsSend
      <4> QED
        BY <4>1, <4>2
    <3>2. ASSUME NEW l \in DOMAIN queue'[i], queue'[i][l].from = k,
                 queue'[i][l].payload.id = n
          PROVE  Arrived(i, k, n)
      BY <3>2, PollMoves DEF Arrived
    <3> QED
      BY <2>2, <3>1, <3>2 DEF Arrived
  <2> QED
    BY <1>2, <2>1, <2>2
<1> QED
  BY <1>1, <1>2

LEMMA PollKeepsOrder ==
    ASSUME TransportType, TransportType', NEW i \in Node, Poll(i),
           ArrivedAsSent, ArrivedInOrder
    PROVE  ArrivedAsSent' /\ ArrivedInOrder'
<1>0. /\ DOMAIN polled'[i] = 1 .. Len(polled[i]) + 1
      /\ DOMAIN polled[i] = 1 .. Len(polled[i]) /\ Len(polled[i]) \in Nat
      /\ DOMAIN queue[i] = 1 .. Len(queue[i]) /\ Len(queue[i]) \in Nat
      /\ DOMAIN queue'[i] = 1 .. Len(queue[i]) - 1
  <2>1. /\ queue[i] \in Seq(Envelopes) /\ queue'[i] \in Seq(Envelopes)
        /\ polled[i] \in Seq(Polls) /\ polled'[i] \in Seq(Polls)
    BY DEF TransportType
  <2> QED
    BY <2>1, PollMoves
<1>1. UNCHANGED <<kind, address, made, outcomes>>
  BY DEF Poll
<1>2. ASSUME NEW k \in DOMAIN polled'[i]
      PROVE  \/ k \in DOMAIN polled[i] /\ polled'[i][k] = polled[i][k]
             \/ /\ k = Len(polled[i]) + 1
                /\ polled'[i][k].envelope = queue[i][1]
                /\ polled'[i][k].inbound = IF Skips(i, queue[i][1]) THEN Nil
                                           ELSE Decode(queue[i][1])
  BY <1>0, PollMoves
<1>3. ASSUME NEW k \in DOMAIN queue'[i]
      PROVE  k + 1 \in DOMAIN queue[i] /\ queue'[i][k] = queue[i][k + 1] /\ 1 < k + 1
  BY <1>0, PollMoves
<1>4. 1 \in DOMAIN queue[i]
  BY PollMoves
<1>5. \A j \in Node : j # i => queue'[j] = queue[j] /\ polled'[j] = polled[j]
  BY PollMoves
<1>6. ArrivedAsSent'
  <2>1. \A k \in DOMAIN queue'[i] : Genuine(queue'[i][k], i)
    BY <1>3 DEF ArrivedAsSent
  <2>2. ASSUME NEW k \in DOMAIN polled'[i]
        PROVE  LET e == polled'[i][k].envelope
               IN  /\ Genuine(e, i)
                   /\ polled'[i][k].inbound = IF Skips(i, e) THEN Nil
                                                             ELSE Decode(e)
    BY <1>2, <1>4 DEF ArrivedAsSent
  <2> QED
    BY <1>1, <1>5, <2>1, <2>2 DEF ArrivedAsSent, Genuine, Carries, Skips
<1>7. ArrivedInOrder'
  <2>1. \A k, l \in DOMAIN polled'[i] :
           k < l => Precedes(polled'[i][k].envelope, polled'[i][l].envelope)
    BY <1>0, <1>2, <1>4 DEF ArrivedInOrder
  <2>2. \A k \in DOMAIN polled'[i] : \A l \in DOMAIN queue'[i] :
           Precedes(polled'[i][k].envelope, queue'[i][l])
    BY <1>2, <1>3, <1>4 DEF ArrivedInOrder
  <2>3. ASSUME NEW k \in DOMAIN queue'[i], NEW l \in DOMAIN queue'[i], k < l
        PROVE  Precedes(queue'[i][k], queue'[i][l])
    <3>1. k + 1 < l + 1
      BY <1>0, <2>3
    <3> QED
      BY <1>3, <3>1 DEF ArrivedInOrder
  <2>4. /\ \A k, l \in DOMAIN polled'[i] :
              k < l => Precedes(polled[i][k].envelope, polled[i][l].envelope)'
        /\ \A k \in DOMAIN polled'[i] : \A l \in DOMAIN queue'[i] :
              Precedes(polled[i][k].envelope, queue[i][l])'
        /\ \A k, l \in DOMAIN queue'[i] :
              k < l => Precedes(queue[i][k], queue[i][l])'
    BY <1>1, <2>1, <2>2, <2>3 DEF Precedes
  <2>5. ASSUME NEW j \in Node, j # i
        PROVE  /\ \A k, l \in DOMAIN polled'[j] :
                     k < l => Precedes(polled[j][k].envelope,
                                       polled[j][l].envelope)'
               /\ \A k \in DOMAIN polled'[j] : \A l \in DOMAIN queue'[j] :
                     Precedes(polled[j][k].envelope, queue[j][l])'
               /\ \A k, l \in DOMAIN queue'[j] :
                     k < l => Precedes(queue[j][k], queue[j][l])'
    <3>1. queue'[j] = queue[j] /\ polled'[j] = polled[j]
      BY <1>5, <2>5
    <3> QED
      BY <1>1, <3>1 DEF ArrivedInOrder, Precedes
  <2> QED
    BY <2>4, <2>5 DEF ArrivedInOrder
<1> QED
  BY <1>6, <1>7

LEMMA PollKeeps ==
    ASSUME TransportInv, TransportType', NEW i \in Node, Poll(i)
    PROVE  TransportInv'
<1> USE DEF TransportInv
<1>1. UNCHANGED <<kind, address, runner, call, stray, made, outcomes>>
  BY DEF Poll
<1>2. \A j \in Node : \A k, n : Arrived(j, k, n)' <=> Arrived(j, k, n)
  BY PollKeepsArrived
<1>3. Grows
  BY <1>1 DEF Grows
<1>4. SendsAreCounted' /\ CallsAreCurrent'
  BY <1>1, <1>2, OthersKeep DEF SendsAreCounted, CallsAreCurrent
<1>5. SentIsNotLost'
  <2>1. ASSUME NEW k \in Node
        PROVE  SentArrives(k)'
    <3>1. Counted(k) /\ SentArrives(k)
      BY DEF SendsAreCounted, SentIsNotLost, SentArrives
    <3> QED
      BY <1>1, <1>2, <3>1, SentKeeps
  <2> QED
    BY <2>1 DEF SentIsNotLost, SentArrives
<1>6. StraysAreDropped'
  BY <1>1, <1>2, <1>3, StraysKeep DEF StraysAreDropped
<1> QED
  BY <1>4, <1>5, <1>6, PollKeepsOrder

\* A process that ends takes its queue with it.
LEMMA ExitKeeps ==
    ASSUME TransportInv, TransportType', NEW i \in Node, Exit(i)
    PROVE  TransportInv'
<1> USE DEF TransportInv
<1>1. UNCHANGED <<kind, address, call, stray, made, outcomes, polled>>
  BY DEF Exit
<1>2. runner'[i] = "ended" /\ queue'[i] = << >>
  BY DEF Exit, TransportType
<1>3. \A j \in Node : j # i => runner'[j] = runner[j] /\ queue'[j] = queue[j]
  BY DEF Exit, TransportType
<1>4. DOMAIN queue'[i] = {}
  BY <1>2
<1>5. ASSUME NEW j \in Node, NEW k, NEW n, Arrived(j, k, n)'
      PROVE  Arrived(j, k, n)
  BY <1>1, <1>3, <1>4, <1>5 DEF Arrived, IsSend
<1>6. ASSUME NEW j \in Node, NEW k, NEW n, Arrived(j, k, n)
      PROVE  Arrived(j, k, n)' \/ runner'[j] = "ended"
  BY <1>1, <1>2, <1>3, <1>6 DEF Arrived, IsSend
<1>7. \A j \in Node : runner[j] = "ended" => runner'[j] = "ended"
  BY <1>2, <1>3
<1>8. Grows
  BY <1>1 DEF Grows
<1>9. SendsAreCounted' /\ CallsAreCurrent'
  BY <1>1, <1>5, <1>6, <1>7, OthersKeep DEF SendsAreCounted, CallsAreCurrent
<1>10. SentIsNotLost'
  <2>1. ASSUME NEW k \in Node
        PROVE  SentArrives(k)'
    <3>1. Counted(k) /\ SentArrives(k)
      BY DEF SendsAreCounted, SentIsNotLost, SentArrives
    <3> QED
      BY <1>1, <1>6, <1>7, <3>1, SentKeeps
  <2> QED
    BY <2>1 DEF SentIsNotLost, SentArrives
<1>11. StraysAreDropped'
  BY <1>1, <1>5, <1>8, StraysKeep DEF StraysAreDropped
<1>12. ArrivedAsSent'
  BY <1>1, <1>3, <1>4 DEF ArrivedAsSent, Genuine, Carries, Skips
<1>13. ArrivedInOrder'
  BY <1>1, <1>3, <1>4 DEF ArrivedInOrder, Precedes
<1> QED
  BY <1>9, <1>10, <1>11, <1>12, <1>13

\* try_send puts a message at the end of the queue or drops it.
LEMMA EnqueueMoves ==
    ASSUME TransportType, NEW j \in Node, NEW e \in Envelopes, Enqueue(j, e),
           polled' = polled
    PROVE  /\ \A k \in Node : k # j => queue'[k] = queue[k]
           /\ \/ queue'[j] = queue[j] /\ ~(Len(queue[j]) < QueueSize)
              \/ /\ Len(queue[j]) < QueueSize
                 /\ DOMAIN queue'[j] = DOMAIN queue[j] \cup {Len(queue[j]) + 1}
                 /\ \A l \in DOMAIN queue[j] : /\ queue'[j][l] = queue[j][l]
                                               /\ l < Len(queue[j]) + 1
                 /\ queue'[j][Len(queue[j]) + 1] = e
<1>1. CASE Len(queue[j]) < QueueSize
  <2>1. queue' = [queue EXCEPT ![j] = Append(@, e)]
    BY <1>1 DEF Enqueue
  <2>2. \A l \in DOMAIN queue[j] : l < Len(queue[j]) + 1
    BY DEF TransportType
  <2> QED
    BY <1>1, <2>1, <2>2, AppendGrows DEF TransportType
<1>2. CASE ~(Len(queue[j]) < QueueSize)
  BY <1>2 DEF Enqueue
<1> QED
  BY <1>1, <1>2

LEMMA EnqueueArrives ==
    ASSUME TransportType, NEW j \in Node, NEW e \in Envelopes, Enqueue(j, e),
           polled' = polled
    PROVE  /\ \A q \in Node : \A k, n :
                 Arrived(q, k, n) => Arrived(q, k, n)'
           /\ \A q \in Node : \A k, n :
                 Arrived(q, k, n)' =>
                     Arrived(q, k, n) \/ (e.from = k /\ e.payload.id = n)
           /\ Len(queue[j]) < QueueSize => Arrived(j, e.from, e.payload.id)'
<1>1. ASSUME NEW q \in Node, q # j, NEW k, NEW n
      PROVE  Arrived(q, k, n) <=> Arrived(q, k, n)'
  BY <1>1, EnqueueMoves DEF Arrived, IsSend
<1>2. ASSUME NEW k, NEW n, Arrived(j, k, n)
      PROVE  Arrived(j, k, n)'
  BY <1>2, EnqueueMoves DEF Arrived, IsSend
<1>3. ASSUME NEW k, NEW n, Arrived(j, k, n)'
      PROVE  Arrived(j, k, n) \/ (e.from = k /\ e.payload.id = n)
  BY <1>3, EnqueueMoves DEF Arrived, IsSend
<1>4. ASSUME Len(queue[j]) < QueueSize
      PROVE  Arrived(j, e.from, e.payload.id)'
  BY <1>4, EnqueueMoves DEF Arrived
<1> QED
  BY <1>1, <1>2, <1>3, <1>4

\* A send that arrives for the first time, the last one of its sender or one
\* that was given up, keeps the order.
LEMMA EnqueueKeepsOrder ==
    ASSUME TransportType, SendsAreCounted, ArrivedAsSent, ArrivedInOrder,
           UNCHANGED <<kind, address, made, outcomes, polled>>,
           NEW j \in Node, NEW e \in Envelopes, Enqueue(j, e),
           NEW i \in Node, NEW id \in DOMAIN made[i], Carries(e, i, id, j),
           ~Arrived(j, i, id),
           id = Len(made[i]) \/ (id \in DOMAIN outcomes[i]
                                 /\ outcomes[i][id] = "Dropped")
    PROVE  ArrivedAsSent' /\ ArrivedInOrder'
<1>1. e.from = i /\ e.payload.id = id
  BY CarriesNames
<1>2. ASSUME NEW f, Genuine(f, j), f.from = i => f.payload.id # id
      PROVE  Precedes(f, e)
  <2>1. f.from = i => f.payload.id \in DOMAIN made[i]
    BY <1>2, GenuineNames
  <2>2. DOMAIN made[i] = 1 .. Len(made[i]) /\ Len(made[i]) \in Nat
    BY DEF TransportType
  <2> QED
    BY <1>1, <1>2, <2>1, <2>2 DEF Precedes
<1>3. \A k \in DOMAIN polled[j] : Precedes(polled[j][k].envelope, e)
  BY <1>2 DEF ArrivedAsSent, Arrived, IsSend
<1>4. \A k \in DOMAIN queue[j] : Precedes(queue[j][k], e)
  BY <1>2 DEF ArrivedAsSent, Arrived
<1>5. Genuine(e, j)
  BY DEF Genuine
<1>6. \A k \in Node : k # j => queue'[k] = queue[k]
  BY EnqueueMoves
<1>7. CASE queue'[j] = queue[j]
  <2>1. \A k \in Node : queue'[k] = queue[k]
    BY <1>6, <1>7
  <2>2. ArrivedAsSent'
    BY <2>1 DEF ArrivedAsSent, Genuine, Carries, Skips
  <2>3. ArrivedInOrder'
    BY <2>1 DEF ArrivedInOrder, Precedes
  <2> QED
    BY <2>2, <2>3
<1>8. CASE /\ DOMAIN queue'[j] = DOMAIN queue[j] \cup {Len(queue[j]) + 1}
           /\ \A l \in DOMAIN queue[j] : /\ queue'[j][l] = queue[j][l]
                                         /\ l < Len(queue[j]) + 1
           /\ queue'[j][Len(queue[j]) + 1] = e
  <2>1. \A k \in DOMAIN queue'[j] : Genuine(queue'[j][k], j)
    BY <1>5, <1>8 DEF ArrivedAsSent
  <2>2. ArrivedAsSent'
    BY <1>6, <2>1 DEF ArrivedAsSent, Genuine, Carries, Skips
  <2>3. \A k \in DOMAIN polled[j] : \A l \in DOMAIN queue'[j] :
           Precedes(polled[j][k].envelope, queue'[j][l])
    BY <1>3, <1>8 DEF ArrivedInOrder
  <2>4. ASSUME NEW k \in DOMAIN queue'[j], NEW l \in DOMAIN queue'[j], k < l
        PROVE  Precedes(queue'[j][k], queue'[j][l])
    <3>1. CASE l = Len(queue[j]) + 1
      <4>1. k \in DOMAIN queue[j]
        BY <1>8, <2>4, <3>1 DEF TransportType
      <4> QED
        BY <1>4, <1>8, <3>1, <4>1
    <3>2. CASE l # Len(queue[j]) + 1
      <4>1. l \in DOMAIN queue[j] /\ k # Len(queue[j]) + 1
        BY <1>8, <2>4, <3>2 DEF TransportType
      <4> QED
        BY <1>8, <2>4, <4>1 DEF ArrivedInOrder
    <3> QED
      BY <3>1, <3>2
  <2>5. /\ \A k \in DOMAIN polled'[j] : \A l \in DOMAIN queue'[j] :
              Precedes(polled[j][k].envelope, queue[j][l])'
        /\ \A k, l \in DOMAIN queue'[j] :
              k < l => Precedes(queue[j][k], queue[j][l])'
    BY <2>3, <2>4 DEF Precedes
  <2>6. ASSUME NEW q \in Node
        PROVE  \A k, l \in DOMAIN polled'[q] :
                  k < l => Precedes(polled[q][k].envelope,
                                    polled[q][l].envelope)'
    BY DEF ArrivedInOrder, Precedes
  <2>7. ASSUME NEW q \in Node, q # j
        PROVE  /\ \A k \in DOMAIN polled'[q] : \A l \in DOMAIN queue'[q] :
                     Precedes(polled[q][k].envelope, queue[q][l])'
               /\ \A k, l \in DOMAIN queue'[q] :
                     k < l => Precedes(queue[q][k], queue[q][l])'
    <3>1. queue'[q] = queue[q]
      BY <1>6, <2>7
    <3> QED
      BY <3>1 DEF ArrivedInOrder, Precedes
  <2>8. ArrivedInOrder'
    BY <2>5, <2>6, <2>7 DEF ArrivedInOrder
  <2> QED
    BY <2>2, <2>8
<1> QED
  BY <1>7, <1>8, EnqueueMoves

\* The listener handles the call of i.
LEMMA HandleKeeps ==
    ASSUME TransportInv, TransportType', NEW i \in Node, Handle(i)
    PROVE  TransportInv'
<1> USE DEF TransportInv
<1>0. PICK id \in Nat : id = Len(made[i])
  <2>1. made[i] \in Seq(Sends)
    BY DEF TransportType
  <2> QED
    BY <2>1
<1>1. PICK c : c = call[i]
  OBVIOUS
<1>2. UNCHANGED <<kind, address, runner, stray, made, outcomes, polled>>
  BY DEF Handle
<1>3. c # Nil /\ c \in Calls /\ c.answer = "none"
  BY <1>1 DEF Handle, TransportType
<1>4. c.at \in Node /\ c.envelope \in Envelopes
  BY <1>3 DEF Calls
<1>5. Enqueue(c.at, c.envelope)
  BY <1>1 DEF Handle
<1>6. Counted(i) /\ Current(i)
  BY DEF SendsAreCounted, CallsAreCurrent
<1>7. /\ Carries(c.envelope, i, id, c.at)
      /\ \A j \in Node : ~Arrived(j, i, id)
  BY <1>0, <1>1, <1>3, <1>6 DEF Current
<1>8. id = Len(outcomes[i]) + 1
  BY <1>0, <1>1, <1>3, <1>6 DEF Counted
<1>9. id \in DOMAIN made[i] /\ id \notin DOMAIN outcomes[i]
  <2>1. /\ Len(outcomes[i]) \in Nat
        /\ DOMAIN made[i] = 1 .. Len(made[i])
        /\ DOMAIN outcomes[i] = 1 .. Len(outcomes[i])
    BY DEF TransportType
  <2> QED
    BY <1>0, <1>8, <2>1
<1>10. c.envelope.from = i /\ c.envelope.payload.id = id
  BY <1>7, <1>9, CarriesNames
<1>11. ArrivedAsSent' /\ ArrivedInOrder'
  BY <1>0, <1>2, <1>4, <1>5, <1>7, <1>9, EnqueueKeepsOrder
<1>12. /\ \A q \in Node : \A k, n : Arrived(q, k, n) => Arrived(q, k, n)'
       /\ \A q \in Node : \A k, n :
             Arrived(q, k, n)' => Arrived(q, k, n) \/ (i = k /\ id = n)
       /\ Len(queue[c.at]) < QueueSize => Arrived(c.at, i, id)'
  BY <1>2, <1>4, <1>5, <1>10, EnqueueArrives
<1>13. \A k \in Node : k # i => call'[k] = call[k]
  BY DEF Handle, TransportType
<1>14. /\ call'[i] # Nil
       /\ call'[i].answer = Answer(c.at)
       /\ call'[i].at = c.at
       /\ call'[i].envelope = c.envelope
  <2>1. call'[i] = [call[i] EXCEPT !.answer = Answer(call[i].at)]
    BY DEF Handle, TransportType
  <2>2. call'[i] \in Calls
    <3>1. Answer(c.at) \in {"accepted", "rejected"}
      BY DEF Answer
    <3> QED
      BY <1>1, <1>3, <2>1, <3>1 DEF Calls
  <2> QED
    BY <1>1, <1>3, <2>1, <2>2, CallAssumption DEF Calls
<1>15. Counted(i)'
  <2>1. call[i] # Nil
    BY <1>1, <1>3
  <2> QED
    BY <1>2, <1>6, <1>14, <2>1 DEF Counted
<1>16. Current(i)'
  <2>1. Carries(call[i].envelope, i, id, call[i].at)'
    BY <1>2, <1>7, <1>14 DEF Carries
  <2>2. Answer(c.at) # "none"
    BY DEF Answer
  <2>3. (kind = "grpc" /\ Answer(c.at) = "accepted") =>
            Len(queue[c.at]) < QueueSize
    BY DEF Answer
  <2>4. Len(made'[i]) = id
    BY <1>0, <1>2
  <2>5. (kind' = "grpc" /\ call'[i].answer = "accepted") =>
            Arrived(c.at, i, id)'
    BY <1>2, <1>12, <1>14, <2>3
  <2>6. call'[i].answer # "none"
    BY <1>14, <2>2
  <2> QED
    BY <1>14, <2>1, <2>4, <2>5, <2>6 DEF Current
<1>17. ASSUME NEW k \in Node, k # i
       PROVE  Counted(k)' /\ Current(k)'
  <2>1. Counted(k) /\ Current(k)
    BY DEF SendsAreCounted, CallsAreCurrent
  <2>2. call'[k] = call[k]
    BY <1>13, <1>17
  <2> QED
    BY <1>2, <1>12, <1>17, <2>1, <2>2, OthersKeep
<1>18. SendsAreCounted' /\ CallsAreCurrent'
  BY <1>15, <1>16, <1>17 DEF SendsAreCounted, CallsAreCurrent
<1>19. SentIsNotLost'
  <2>1. ASSUME NEW k \in Node
        PROVE  SentArrives(k)'
    <3>1. Counted(k) /\ SentArrives(k)
      BY DEF SendsAreCounted, SentIsNotLost, SentArrives
    <3> QED
      BY <1>2, <1>12, <3>1, SentKeeps
  <2> QED
    BY <2>1 DEF SentIsNotLost, SentArrives
<1>20. StraysAreDropped'
  <2>1. Grows
    BY <1>2 DEF Grows
  <2>2. ASSUME NEW s \in stray
        PROVE  ~Carries(s.envelope, i, id, s.at)
    <3>1. PICK k \in Node : \E n \in DOMAIN outcomes[k] :
             Carries(s.envelope, k, n, s.at)
      BY DEF StraysAreDropped, GivenUp
    <3>2. PICK n \in DOMAIN outcomes[k] : Carries(s.envelope, k, n, s.at)
      BY <3>1
    <3>3. n \in DOMAIN made[k]
      BY OutcomesAreOfSends DEF SendsAreCounted
    <3>4. s.envelope.from = k /\ s.envelope.payload.id = n
      BY <3>2, <3>3, CarriesNames
    <3>5. Carries(s.envelope, i, id, s.at) =>
             s.envelope.from = i /\ s.envelope.payload.id = id
      BY <1>9, CarriesNames
    <3> QED
      BY <1>9, <3>4, <3>5
  <2> QED
    BY <1>2, <1>12, <2>1, <2>2, StraysKeep DEF StraysAreDropped
<1> QED
  BY <1>11, <1>18, <1>19, <1>20

\* The listener handles a request whose caller has given up.
LEMMA StrayArrives ==
    ASSUME TransportInv, TransportType', NEW s \in stray, HandleStray(s)
    PROVE  TransportInv'
<1> USE DEF TransportInv
<1>1. PICK i \in Node : \E id \in DOMAIN outcomes[i] :
        /\ Carries(s.envelope, i, id, s.at)
        /\ outcomes[i][id] = "Dropped"
        /\ \A j \in Node : ~Arrived(j, i, id)
  BY DEF StraysAreDropped, GivenUp
<1>2. PICK id \in DOMAIN outcomes[i] :
        /\ Carries(s.envelope, i, id, s.at)
        /\ outcomes[i][id] = "Dropped"
        /\ \A j \in Node : ~Arrived(j, i, id)
  BY <1>1
<1>3. UNCHANGED <<kind, address, runner, call, made, outcomes, polled>>
      /\ stray' = stray \ {s} /\ Enqueue(s.at, s.envelope)
  BY DEF HandleStray
<1>4. s \in [at : Node, envelope : Envelopes]
  BY DEF TransportType
<1>5. s.at \in Node /\ s.envelope \in Envelopes
  BY <1>4
<1>6. id \in DOMAIN made[i]
  BY OutcomesAreOfSends DEF SendsAreCounted
<1>7. s.envelope.from = i /\ s.envelope.payload.id = id
  BY <1>2, <1>6, CarriesNames
<1>8. ArrivedAsSent' /\ ArrivedInOrder'
  BY <1>2, <1>3, <1>5, <1>6, EnqueueKeepsOrder
<1>9. /\ \A q \in Node : \A k, n : Arrived(q, k, n) => Arrived(q, k, n)'
      /\ \A q \in Node : \A k, n :
            Arrived(q, k, n)' => Arrived(q, k, n) \/ (i = k /\ id = n)
  BY <1>3, <1>5, <1>7, EnqueueArrives
<1>10. SendsAreCounted'
  BY <1>3 DEF SendsAreCounted, Counted
<1>11. CallsAreCurrent'
  <2>1. ASSUME NEW k \in Node, k # i
        PROVE  Current(k)'
    <3>1. Counted(k) /\ Current(k)
      BY DEF SendsAreCounted, CallsAreCurrent
    <3> QED
      BY <1>3, <1>9, <2>1, <3>1, OthersKeep
  <2>2. Current(i)'
    <3>1. Counted(i) /\ Current(i)
      BY DEF SendsAreCounted, CallsAreCurrent
    <3>2. PICK n \in Nat : n = Len(made[i])
      <4>1. made[i] \in Seq(Sends)
        BY DEF TransportType
      <4> QED
        BY <4>1
    <3>3. call[i] # Nil => n # id
      <4>1. DOMAIN outcomes[i] = 1 .. Len(outcomes[i]) /\ Len(outcomes[i]) \in Nat
        BY DEF TransportType
      <4> QED
        BY <3>1, <3>2, <4>1 DEF Counted
    <3>4. call[i] # Nil => call[i].at \in Node
      BY DEF TransportType, Calls
    <3>5. SUFFICES ASSUME call[i] # Nil
                   PROVE  LET c == call[i]
                          IN  /\ Carries(c.envelope, i, n, c.at)'
                              /\ c.answer = "none" =>
                                    \A j \in Node : ~Arrived(j, i, n)'
                              /\ (kind = "grpc" /\ c.answer = "accepted") =>
                                    runner[c.at] = "ended"
                                    \/ Arrived(c.at, i, n)'
      BY <1>3, <3>2 DEF Current
    <3>6. PICK c : c = call[i]
      OBVIOUS
    <3>7. Carries(c.envelope, i, n, c.at)
      BY <3>1, <3>2, <3>5, <3>6 DEF Current
    <3>8. c.answer = "none" => \A j \in Node : ~Arrived(j, i, n)'
      <4>1. c.answer = "none" => \A j \in Node : ~Arrived(j, i, n)
        BY <3>1, <3>2, <3>5, <3>6 DEF Current
      <4> QED
        BY <1>9, <3>3, <3>5, <4>1
    <3>9. (kind = "grpc" /\ c.answer = "accepted") =>
             runner[c.at] = "ended" \/ Arrived(c.at, i, n)'
      <4>1. (kind = "grpc" /\ c.answer = "accepted") =>
               runner[c.at] = "ended" \/ Arrived(c.at, i, n)
        BY <3>1, <3>2, <3>5, <3>6 DEF Current
      <4> QED
        BY <1>9, <3>4, <3>5, <3>6, <4>1
    <3>10. Carries(c.envelope, i, n, c.at)'
      BY <1>3, <3>7 DEF Carries
    <3> QED
      BY <1>3, <3>6, <3>8, <3>9, <3>10 DEF Carries
  <2> QED
    BY <2>1, <2>2 DEF CallsAreCurrent
<1>12. SentIsNotLost'
  <2>1. ASSUME NEW k \in Node
        PROVE  SentArrives(k)'
    <3>1. Counted(k) /\ SentArrives(k)
      BY DEF SendsAreCounted, SentIsNotLost, SentArrives
    <3> QED
      BY <1>3, <1>9, <3>1, SentKeeps
  <2> QED
    BY <2>1 DEF SentIsNotLost, SentArrives
<1>13. StraysAreDropped'
  <2>1. Grows
    BY <1>3 DEF Grows
  <2>2. ASSUME NEW t \in stray, t # s
        PROVE  ~Carries(t.envelope, i, id, t.at)
    <3>1. t \in [at : Node, envelope : Envelopes]
      BY DEF TransportType
    <3>2. ~(t.envelope = s.envelope /\ t.at = s.at)
      BY <1>4, <2>2, <3>1
    <3> QED
      BY <1>2, <3>2 DEF Carries
  <2>3. ASSUME NEW t \in stray'
        PROVE  GivenUp(t)'
    <3>1. t \in stray /\ t # s /\ GivenUp(t)
      BY <1>3, <2>3 DEF StraysAreDropped
    <3> QED
      BY <1>9, <2>1, <2>2, <3>1, StraysKeep
  <2> QED
    BY <2>3 DEF StraysAreDropped
<1> QED
  BY <1>8, <1>10, <1>11, <1>12, <1>13

-----------------------------------------------------------------------------
(* Theorems.                                                               *)

LEMMA TransportInit == Init => TransportInv
<1> SUFFICES ASSUME Init
             PROVE  TransportInv
  OBVIOUS
<1>1. TransportType
  BY TypeInit
<1>2. \A i \in Node :
         /\ made[i] = << >> /\ outcomes[i] = << >> /\ queue[i] = << >>
         /\ polled[i] = << >> /\ call[i] = Nil
  BY DEF Init
<1>3. SendsAreCounted
  BY <1>2 DEF SendsAreCounted, Counted
<1>4. CallsAreCurrent
  BY <1>2 DEF CallsAreCurrent, Current
<1>5. StraysAreDropped
  BY DEF Init, StraysAreDropped
<1>6. ArrivedAsSent /\ ArrivedInOrder
  BY <1>2 DEF ArrivedAsSent, ArrivedInOrder
<1>7. SentIsNotLost
  BY <1>2 DEF SentIsNotLost
<1> QED
  BY <1>1, <1>3, <1>4, <1>5, <1>6, <1>7 DEF TransportInv

LEMMA TransportNext ==
    ASSUME TransportInv, [Next]_vars
    PROVE  TransportInv'
<1>0. TransportType'
  BY TypeNext DEF TransportInv
<1>1. ASSUME NEW i \in Node, Bind(i)
      PROVE  TransportInv'
  BY <1>0, <1>1, IdleKeeps DEF Bind
<1>2. ASSUME NEW i \in Node, NEW to \in Node, Send(i, to)
      PROVE  TransportInv'
  BY <1>0, <1>2, SendKeeps
<1>3. ASSUME NEW i \in Node, Poll(i)
      PROVE  TransportInv'
  BY <1>0, <1>3, PollKeeps
<1>4. ASSUME NEW i \in Node, PollDisconnected(i) \/ Shutdown(i)
      PROVE  TransportInv'
  BY <1>0, <1>4, ExitKeeps DEF PollDisconnected, Shutdown
<1>5. ASSUME NEW i \in Node, Handle(i)
      PROVE  TransportInv'
  BY <1>0, <1>5, HandleKeeps
<1>6. ASSUME NEW i \in Node, Return(i)
      PROVE  TransportInv'
  <2>1. PICK o \in Outcomes : o = IF call[i].answer = "accepted"
                                  THEN "Sent" ELSE "Dropped"
    BY DEF Outcomes
  <2>2. Finish(i, o) /\ call[i] # Nil
    BY <1>6, <2>1 DEF Return
  <2>3. UNCHANGED <<kind, address, runner, queue, made, polled, stray>>
    BY <1>6 DEF Return
  <2>4. o = "Sent" => call[i].answer = "accepted"
    BY <2>1
  <2> QED
    BY <1>0, <2>2, <2>3, <2>4, FinishKeeps
<1>7. ASSUME NEW i \in Node, Fail(i) \/ Break(i)
      PROVE  TransportInv'
  <2>1. call[i] # Nil /\ GiveUp(i)
    BY <1>7 DEF Fail, Break
  <2>2. Finish(i, "Dropped") /\ "Dropped" \in Outcomes
    BY <2>1 DEF GiveUp, Outcomes
  <2>3. UNCHANGED <<kind, address, runner, queue, made, polled>>
    BY <2>1 DEF GiveUp
  <2>4. ASSUME NEW s \in stray'
        PROVE  \/ s \in stray
               \/ /\ s.at = call[i].at
                  /\ s.envelope = call[i].envelope
                  /\ call[i].answer = "none"
    BY <2>1, <2>4 DEF GiveUp
  <2> QED
    BY <1>0, <2>1, <2>2, <2>3, <2>4, FinishKeeps
<1>8. ASSUME NEW s \in stray, HandleStray(s)
      PROVE  TransportInv'
  BY <1>0, <1>8, StrayArrives
<1>9. ASSUME NEW i \in Node, NEW j \in Node, CutLink(i, j)
      PROVE  TransportInv'
  BY <1>0, <1>9, IdleKeeps DEF CutLink
<1>10. ASSUME NEW link \in silent, HealLink(link)
       PROVE  TransportInv'
  BY <1>0, <1>10, IdleKeeps DEF HealLink
<1>11. CASE UNCHANGED vars
  BY <1>0, <1>11, IdleKeeps DEF vars
<1> QED
  BY <1>1, <1>2, <1>3, <1>4, <1>5, <1>6, <1>7, <1>8, <1>9, <1>10, <1>11
     DEF Next

\* At every moment each send is in one place, and what has arrived is in
\* order (send, send_message, handle_raft, poll), for any number of processes,
\* sends and faults and for both transports.
THEOREM TransportInvariant == Spec => []TransportInv
<1>1. TransportInv /\ [Next]_vars => TransportInv'
  BY TransportNext
<1> QED
  BY <1>1, TransportInit, PTL DEF Spec

\* The loop gets what was sent, unchanged and under its sender's name, from
\* decode_envelope and wire_to_message, and gRPC only hands over what is meant
\* for the node.
THEOREM LoopGetsWhatWasSent == Spec => []HandedAsSent
<1>1. ASSUME TransportInv, NEW j \in Node, NEW k \in Handed(j)
      PROVE  LET in == polled[j][k].inbound
                 s  == made[in.from][in.message.id]
             IN  /\ in.message = s.message
                 /\ address[in.from][s.to] = j
                 /\ kind = "grpc" => s.to = j
  <2>1. PICK e : e = polled[j][k].envelope
    OBVIOUS
  <2>2. Genuine(e, j) /\ ~Skips(j, e) /\ polled[j][k].inbound = Decode(e)
    BY <1>1, <2>1 DEF Handed, TransportInv, ArrivedAsSent
  <2>3. PICK i \in Node : \E id \in DOMAIN made[i] : Carries(e, i, id, j)
    BY <2>2 DEF Genuine
  <2>4. PICK id \in DOMAIN made[i] : Carries(e, i, id, j)
    BY <2>3
  <2>5. made[i][id].message = RaftMessage(i, id)
    BY <1>1 DEF TransportInv, SendsAreCounted, Counted
  <2>6. e = Encode(i, made[i][id].to, RaftMessage(i, id))
    BY <2>4, <2>5 DEF Carries
  <2>7. e.from = i /\ e.to = made[i][id].to
    BY <2>6, EncodeFields
  <2>8. MessageOf(e) = RaftMessage(i, id) /\ RaftMessage(i, id).id = id
    BY <2>6, DecodeUndoesEncode
  <2>9. /\ Decode(e).from = i
        /\ Decode(e).message = RaftMessage(i, id)
    BY <2>7, <2>8 DEF Decode
  <2>10. address[i][made[i][id].to] = j
    BY <2>4 DEF Carries
  <2>11. kind = "grpc" => e.to = j
    BY <2>2 DEF Skips
  <2> QED
    BY <2>2, <2>5, <2>7, <2>8, <2>9, <2>10, <2>11
<1>2. TransportInv => HandedAsSent
  BY <1>1 DEF HandedAsSent
<1> QED
  BY <1>2, TransportInvariant, PTL

\* No send arrives twice, and only one that its sender has given up (a broken
\* connection, or the time limit of the HTTPS client) arrives late.
THEOREM SendsArriveInOrder == Spec => []InOrderAtMostOnce
<1>1. ASSUME TransportInv, NEW i \in Node, NEW j \in Node,
             NEW k \in DOMAIN polled[j], NEW l \in DOMAIN polled[j],
             NEW a \in DOMAIN made[i], NEW b \in DOMAIN made[i],
             k < l, IsSend(j, k, i, a), IsSend(j, l, i, b)
      PROVE  a < b \/ (a > b /\ outcomes[i][b] = "Dropped")
  <2>1. Precedes(polled[j][k].envelope, polled[j][l].envelope)
    BY <1>1 DEF TransportInv, ArrivedInOrder
  <2> QED
    BY <1>1, <2>1 DEF Precedes, IsSend
<1>2. TransportInv => InOrderAtMostOnce
  BY <1>1 DEF InOrderAtMostOnce
<1> QED
  BY <1>2, TransportInvariant, PTL

\* What gRPC reports as sent is queued or polled at the process it went to,
\* as long as that process runs (send_message, GrpcCommunication::send).
THEOREM SentArrived == Spec => []SentIsNotLost
<1>1. TransportInv => SentIsNotLost
  BY DEF TransportInv
<1> QED
  BY <1>1, TransportInvariant, PTL
=============================================================================
